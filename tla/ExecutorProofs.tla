--------------------------- MODULE ExecutorProofs ---------------------------
(***************************************************************************)
(* Theorems about Executor, for every set of calls and any number of       *)
(* conditionals and plugins: the variables keep their types, no error is   *)
(* lost, no stage runs before one it has to wait for, a list runs the way  *)
(* `yip analyze` shows it, and the whole implements the abstract run.  And *)
(* about DagPlan, for lists of any length and any names: every plan        *)
(* honours `after:` and keeps the declaration order of the stages without, *)
(* and only a list whose `after:` keys close a cycle is refused.  And      *)
(* about UnpackImage, for images of any layers over any target: it stays a *)
(* tree, nothing but the layers' paths is changed, and a run that returns  *)
(* Ok leaves the layers' union.                                            *)
(***************************************************************************)
EXTENDS Executor, DagPlan, UnpackImage, SubsequenceProofs, SequenceTheorems, NaturalsInduction

\* An order of a stage list is a sequence of places.
LEMMA OrderType ==
  ASSUME NEW list \in Seq(Stage), NEW o,
         o \in Orders(list) \/ o = DeclaredOrder(list)
  PROVE  /\ o \in Seq(Nat \ {0})
         /\ o \in [DOMAIN list -> DOMAIN list]
         /\ Len(o) = Len(list)
<1>1. o \in [DOMAIN list -> DOMAIN list]
  BY DEF Orders, Bijection, Injection, DeclaredOrder
<1>2. DOMAIN list = 1 .. Len(list) /\ Len(list) \in Nat
  OBVIOUS
<1>3. o \in [1 .. Len(list) -> Nat \ {0}]
  BY <1>1, <1>2
<1> QED BY <1>1, <1>2, <1>3

\* An edge of the graph puts one place before the other.
LEMMA OrderHonoursEdge ==
  ASSUME NEW list \in Seq(Stage), NEW o \in Orders(list),
         NEW l \in DOMAIN o, NEW m \in DOMAIN o, <<o[l], o[m]>> \in Edges(list)
  PROVE  l < m
BY DEF Orders, Respects

\* Two stages without `after:` stand in every order of the list the way they
\* are declared, whatever stands between them: the chain of lexical edges
\* leads from the one to the other.
LEMMA OrderKeepsDeclaration ==
  ASSUME NEW list \in Seq(Stage), NEW o \in Orders(list),
         NEW l \in DOMAIN o, NEW m \in DOMAIN o, o[l] < o[m],
         ~ Explicit(list, o[l]), ~ Explicit(list, o[m])
  PROVE  l < m
<1>1. /\ DOMAIN o = 1 .. Len(list) /\ DOMAIN list = 1 .. Len(list)
      /\ Len(list) \in Nat
      /\ \A x \in DOMAIN o : o[x] \in DOMAIN list
  BY OrderType
<1> DEFINE late == {j \in DOMAIN list :
                      /\ o[l] < j /\ ~ Explicit(list, j)
                      /\ \E y \in DOMAIN o : o[y] = j /\ ~ (l < y)}
<1>2. SUFFICES ASSUME late # {}
               PROVE  FALSE
  BY <1>1
<1>3. late \subseteq Nat
  BY <1>1
<1>4. PICK j \in late : \A k \in late : j <= k
  BY <1>2, <1>3, Least
<1>5. PICK y \in DOMAIN o : o[y] = j /\ ~ (l < y)
  OBVIOUS
<1> DEFINE chain == {k \in DOMAIN list : o[l] <= k /\ k < j /\ ~ Explicit(list, k)}
<1>6. o[l] \in chain /\ chain \subseteq 0 .. Len(list)
  BY <1>1
<1>7. PICK k \in chain : \A h \in chain : h <= k
  BY <1>1, <1>6, Greatest
<1>8. PICK x \in DOMAIN o : o[x] = k
  BY <1>1, <1>7 DEF Orders, Bijection, Surjection
<1>9. x < y
  <2>1. \A h \in DOMAIN list : k < h /\ h < j => Explicit(list, h)
    <3> SUFFICES ASSUME NEW h \in DOMAIN list, k < h, h < j, ~ Explicit(list, h)
                 PROVE  FALSE
      OBVIOUS
    <3>1. o[l] <= k /\ k \in Nat /\ o[l] \in Nat /\ h \in Nat
      BY <1>1
    <3>2. h \in chain
      BY <3>1
    <3> QED BY <1>7, <3>1, <3>2
  <2>2. <<o[x], o[y]>> \in LexicalEdges(list)
    BY <1>5, <1>8, <2>1 DEF LexicalEdges, Pairs
  <2> QED BY <2>2, OrderHonoursEdge DEF Edges
<1>10. l <= x
  <2>1. CASE k = o[l]
    BY <1>1, <1>8, <2>1 DEF Orders, Bijection, Injection, IsInjective
  <2>2. CASE k # o[l]
    <3>1. o[l] < k /\ k < j /\ k \in DOMAIN list
      BY <1>1, <2>2
    <3>2. k \notin late
      BY <1>1, <1>4, <3>1
    <3>3. l < x
      BY <1>7, <1>8, <3>1, <3>2
    <3> QED BY <1>1, <3>3
  <2> QED BY <2>1, <2>2
<1> QED BY <1>1, <1>5, <1>9, <1>10

-----------------------------------------------------------------------------

\* Whatever a source is, it resolves to a sequence of configs.
LEMMA ResolveType ==
  ASSUME NEW modifier \in BOOLEAN, NEW source \in Source
  PROVE  Resolve(modifier, source).configs \in Seq(Config)
<1>1. NoStages \in Config
  BY DEF NoStages, Config
<1>2. ASSUME NEW blob \in Blob
      PROVE  ParseBytes(modifier, blob).config \in Config
  <2>1. RenderTemplate(blob) \in Text
    BY DEF RenderTemplate, Blob
  <2>2. \A text \in Text : DotNotation(text).config \in Config
    BY <1>1 DEF DotNotation, Text
  <2> QED BY <2>1, <2>2 DEF ParseBytes, Load, Text
<1>3. ASSUME NEW blobs \in Seq(Blob)
      PROVE  LoadAll(modifier, blobs).configs \in Seq(Config)
  <2> DEFINE parsed == [i \in DOMAIN blobs |-> ParseBytes(modifier, blobs[i])]
             all    == [i \in DOMAIN blobs |-> parsed[i].config]
  <2>1. all \in Seq(Config)
    <3>1. DOMAIN blobs = 1 .. Len(blobs) /\ Len(blobs) \in Nat
      OBVIOUS
    <3>2. \A i \in DOMAIN blobs : ParseBytes(modifier, blobs[i]).config \in Config
      BY <1>2
    <3>3. all \in [1 .. Len(blobs) -> Config]
      BY <3>1, <3>2
    <3> HIDE DEF all
    <3> QED BY <3>1, <3>3
  <2>2. <<>> \in Seq(Config)
    OBVIOUS
  <2>3. LoadAll(modifier, blobs).configs \in {all, <<>>}
    BY DEF LoadAll, Failure
  <2> QED BY <2>1, <2>2, <2>3
<1>4. Failure.configs \in Seq(Config) /\ <<>> \in Seq(Blob)
  BY DEF Failure
<1>5. source.blobs \in Seq(Blob)
  BY DEF Source
<1> QED BY <1>3, <1>4, <1>5 DEF Resolve

\* The current list is a list of stages.
LEMMA StagesType ==
  ASSUME TypeOK, cfg <= Len(configs), key <= Len(Keys)
  PROVE  Stages \in Seq(Stage)
<1>1. configs[cfg] \in Config
  BY DEF TypeOK
<1>2. call.stage \in StageKeys
  BY ExecutorAssumption DEF TypeOK, Invocation
<1>3. CASE call.stage = "X"
  <2>1. Keys = <<"X.before", "X", "X.after">>
    BY <1>3 DEF Keys, Substages
  <2>2. Len(Keys) = 3
    BY <2>1
  <2>3. key = 1 \/ key = 2 \/ key = 3
    BY <2>2 DEF TypeOK
  <2>4. /\ Keys[1] = "X.before" /\ Keys[2] = "X" /\ Keys[3] = "X.after"
    BY <2>1
  <2>5. Keys[key] \in StageKeys
    BY <2>3, <2>4 DEF StageKeys
  <2> QED BY <1>1, <2>5 DEF Stages, Config
<1>4. CASE call.stage # "X"
  <2>1. Keys = <<call.stage>>
    BY <1>4 DEF Keys, Substages
  <2>2. Len(Keys) = 1
    BY <2>1
  <2>3. key = 1
    BY <2>2 DEF TypeOK
  <2>4. Keys[key] \in StageKeys
    BY <1>2, <2>1, <2>3
  <2> QED BY <1>1, <2>4 DEF Stages, Config
<1> QED BY <1>3, <1>4

-----------------------------------------------------------------------------

\* One more element keeps the type of a sequence.
LEMMA AppendType ==
  ASSUME NEW S
  PROVE  \A s \in Seq(S) : \A e \in S : Append(s, e) \in Seq(S)
OBVIOUS

\* The types and the phases of the loops: inductive together.
Inv == TypeOK /\ Phases

\* The invariant holds at the start.
LEMMA InitInv == Init => Inv
BY ExecutorAssumption DEF Init, Inv, TypeOK, Phases, Invocation, Report

\* The lines that the log gets, of an operation that is skipped and of one that
\* has run.
Skipped == [op |-> Op, ran |-> FALSE, called |-> <<>>]
Ran == [op |-> Op, ran |-> TRUE, called |-> called]

\* They are lines of the log.
LEMMA LinesAre ==
  ASSUME TypeOK, order[n] \in Nat
  PROVE  /\ Op \in Operation /\ Skipped \in Entry /\ Ran \in Entry
         /\ Skipped.op = Op /\ ~ Skipped.ran /\ Skipped.called = <<>>
         /\ Ran.op = Op /\ Ran.ran /\ Ran.called = called
<1>1. Op \in Operation
  BY DEF TypeOK, Op, Operation
<1>2. <<>> \in Seq(Nat) /\ called \in Seq(Nat)
  BY DEF TypeOK
<1> QED BY <1>1, <1>2 DEF Entry, Skipped, Ran

\* A step keeps the types.
LEMMA NextType ==
  ASSUME Inv, [Next]_vars
  PROVE  TypeOK'
<1> USE DEF Inv, TypeOK
<1>1. CASE NextSource
  <2>1. call.modifier \in BOOLEAN /\ call.paths \in Seq(Source)
    BY ExecutorAssumption DEF Invocation
  <2>2. call.paths[src + 1] \in Source
    BY <1>1, <2>1 DEF NextSource
  <2>3. configs' \in Seq(Config)
    BY <1>1, <2>1, <2>2, ResolveType DEF NextSource
  <2>4. <<src + 1, 0, 0, 0, 0>> \in Report
    BY DEF Report
  <2>5. errs' \in Seq(Report) /\ failures' \in Seq(Report)
    BY <1>1, <2>4, AppendType DEF NextSource
  <2> QED BY <1>1, <2>3, <2>5 DEF NextSource
<1>2. CASE NextConfig
  BY <1>2 DEF NextConfig, buffers, history
<1>3. CASE OrderStages
  <2>1. Stages \in Seq(Stage)
    BY <1>3, StagesType DEF OrderStages
  <2>2. order' \in Seq(Nat \ {0})
    BY <1>3, <2>1, OrderType DEF OrderStages
  <2>3. <<src, cfg, key, 0, 0>> \in Report
    BY DEF Report
  <2>0. UNCHANGED <<call, src, configs, cfg, plugin, opErrs, stageErrs, result, called, log>>
    BY <1>3 DEF OrderStages
  <2>4. CASE n' = 1 /\ pc' = "stage" /\ UNCHANGED <<key, errs, failures>>
    BY <2>0, <2>2, <2>4
  <2>5. CASE /\ errs' = Append(errs, <<src, cfg, key, 0, 0>>)
             /\ failures' = Append(failures, <<src, cfg, key, 0, 0>>)
             /\ key' = key + 1
             /\ UNCHANGED <<pc, order, n>>
    <3>1. errs' \in Seq(Report) /\ failures' \in Seq(Report)
      BY <2>3, <2>5, AppendType
    <3> QED BY <2>0, <2>2, <2>5, <3>1
  <2> QED BY <1>3, <2>4, <2>5 DEF OrderStages
<1>4. CASE Preflight
  <2>1. order[n] \in Nat
    BY <1>4 DEF Preflight
  <2>2. /\ UNCHANGED <<call, src, configs, cfg, key, order, result, failures>>
        /\ UNCHANGED <<opErrs, stageErrs, errs>>
    BY <1>4 DEF Preflight, buffers
  <2>3. CASE pc' = "plugins" /\ plugin' = 1 /\ called' = <<>> /\ UNCHANGED <<n, log>>
    BY <2>2, <2>3
  <2>4. CASE log' = Append(log, Skipped) /\ n' = n + 1 /\ UNCHANGED <<pc, plugin, called>>
    <3>1. log' \in Seq(Entry)
      BY <2>1, <2>4, AppendType, LinesAre
    <3> QED BY <2>2, <2>4, <3>1
  <2> QED BY <1>4, <2>3, <2>4 DEF Preflight, Skipped
<1>5. CASE RunPlugin
  <2>1. order[n] \in Nat
    BY <1>5 DEF RunPlugin, Phases
  <2>2. <<src, cfg, key, order[n], plugin>> \in Report
    BY <2>1 DEF Report
  <2>3. opErrs' \in Seq(Report) /\ failures' \in Seq(Report)
    BY <1>5, <2>2, AppendType DEF RunPlugin
  <2>4. called' \in Seq(Nat)
    BY <1>5, AppendType DEF RunPlugin
  <2> QED BY <1>5, <2>3, <2>4 DEF RunPlugin
<1>6. CASE EndStage
  <2>1. order[n] \in Nat
    BY <1>6 DEF EndStage, Phases
  <2>2. log' \in Seq(Entry)
    <3>1. log' = Append(log, Ran)
      BY <1>6 DEF EndStage, Ran
    <3> QED BY <2>1, <3>1, AppendType, LinesAre
  <2>3. stageErrs' \in Seq(Report) /\ opErrs' \in Seq(Report)
    BY <1>6 DEF EndStage
  <2> QED BY <1>6, <2>2, <2>3 DEF EndStage
<1>7. CASE EndList
  BY <1>7 DEF EndList, history
<1>8. CASE Finish
  BY <1>8 DEF Finish, loops, buffers, history
<1>9. CASE UNCHANGED vars
  BY <1>9 DEF vars, loops, buffers, history
<1> QED BY <1>1, <1>2, <1>3, <1>4, <1>5, <1>6, <1>7, <1>8, <1>9 DEF Next

\* A step keeps what each phase relies on.
LEMMA NextPhases ==
  ASSUME Inv, [Next]_vars
  PROVE  Phases'
<1> USE DEF Inv, TypeOK, Phases
<1>1. CASE NextSource
  BY <1>1 DEF NextSource
<1>2. CASE NextConfig
  BY <1>2 DEF NextConfig, buffers, history
<1>3. CASE OrderStages
  BY <1>3 DEF OrderStages, Stages, Keys
<1>4. CASE Preflight
  BY <1>4 DEF Preflight, buffers, Stages, Keys
<1>5. CASE RunPlugin
  BY <1>5 DEF RunPlugin, Stages, Keys
<1>6. CASE EndStage
  BY <1>6 DEF EndStage, Stages, Keys
<1>7. CASE EndList
  BY <1>7 DEF EndList, history
<1>8. CASE Finish
  BY <1>8 DEF Finish, loops, buffers, history
<1>9. CASE UNCHANGED vars
  BY <1>9 DEF vars, loops, buffers, history, Stages, Keys
<1> QED BY <1>1, <1>2, <1>3, <1>4, <1>5, <1>6, <1>7, <1>8, <1>9 DEF Next

\* Every step keeps it.
LEMMA NextInv == Inv /\ [Next]_vars => Inv'
BY NextType, NextPhases DEF Inv

\* The variables have their types in every reachable state.
THEOREM TypeCorrect == Spec => []TypeOK
<1>1. Inv => TypeOK
  BY DEF Inv
<1> QED BY InitInv, NextInv, <1>1, PTL DEF Spec

\* Joining two sequences and then a third is joining them in one go.
LEMMA JoinAssociative ==
  ASSUME NEW S
  PROVE  \A s, t, u \in Seq(S) : (s \o t) \o u = s \o (t \o u)
OBVIOUS

\* The last element can be appended before or after joining.
LEMMA ConcatAppend ==
  ASSUME NEW S
  PROVE  \A s, t \in Seq(S) : \A e \in S : s \o Append(t, e) = Append(s \o t, e)
OBVIOUS

\* An empty sequence adds nothing.
LEMMA ConcatEmpty ==
  ASSUME NEW S, NEW s \in Seq(S)
  PROVE  s \o <<>> = s
OBVIOUS

\* A step moves errors between the buffers without losing, repeating or
\* reordering any.
LEMMA NextErrors ==
  ASSUME Inv, errs \o stageErrs \o opErrs = failures, [Next]_vars
  PROVE  errs' \o stageErrs' \o opErrs' = failures'
<1> USE DEF Inv
<1>1. /\ errs \in Seq(Report) /\ stageErrs \in Seq(Report)
      /\ opErrs \in Seq(Report) /\ failures \in Seq(Report)
      /\ <<>> \in Seq(Report)
      /\ errs' \in Seq(Report) /\ stageErrs' \in Seq(Report)
      /\ opErrs' \in Seq(Report) /\ failures' \in Seq(Report)
  BY NextType DEF TypeOK
<1>a. \A s, t \in Seq(Report) : \A e \in Report : s \o Append(t, e) = Append(s \o t, e)
  BY ConcatAppend
<1>b. \A s, t, u \in Seq(Report) : (s \o t) \o u = s \o (t \o u)
  BY JoinAssociative
<1> DEFINE Top(r) == /\ errs' = Append(errs, r) /\ failures' = Append(failures, r)
                     /\ UNCHANGED <<stageErrs, opErrs>>
<1>2. ASSUME NEW r, Top(r), pc = "config"
      PROVE  errs' \o stageErrs' \o opErrs' = failures'
  <2>1. stageErrs = <<>> /\ opErrs = <<>>
    BY <1>2 DEF Phases
  <2>2. errs = failures
    BY <1>1, <2>1, ConcatEmpty
  <2> QED BY <1>1, <1>2, <2>1, <2>2, ConcatEmpty
<1>3. CASE NextSource
  <2>1. CASE UNCHANGED <<errs, failures>>
    BY <1>3, <2>1 DEF NextSource
  <2>2. CASE /\ errs' = Append(errs, <<src + 1, 0, 0, 0, 0>>)
             /\ failures' = Append(failures, <<src + 1, 0, 0, 0, 0>>)
    BY <1>2, <1>3, <2>2 DEF NextSource
  <2> QED BY <1>3, <2>1, <2>2 DEF NextSource
<1>4. CASE OrderStages
  <2>1. CASE UNCHANGED <<errs, failures>>
    BY <1>4, <2>1 DEF OrderStages
  <2>2. CASE /\ errs' = Append(errs, <<src, cfg, key, 0, 0>>)
             /\ failures' = Append(failures, <<src, cfg, key, 0, 0>>)
    BY <1>2, <1>4, <2>2 DEF OrderStages
  <2> QED BY <1>4, <2>1, <2>2 DEF OrderStages
<1>5. CASE RunPlugin
  <2> DEFINE r == <<src, cfg, key, order[n], plugin>>
  <2>1. CASE UNCHANGED <<opErrs, failures>>
    BY <1>5, <2>1 DEF RunPlugin
  <2>2. CASE opErrs' = Append(opErrs, r) /\ failures' = Append(failures, r)
    <3>1. order[n] \in Nat
      BY <1>5 DEF RunPlugin, Phases, TypeOK
    <3>2. r \in Report
      BY <3>1 DEF Report, TypeOK
    <3>3. errs \o stageErrs \in Seq(Report)
      BY <1>1
    <3> HIDE DEF r
    <3>4. errs' = errs /\ stageErrs' = stageErrs
      BY <1>5 DEF RunPlugin
    <3>5. (errs \o stageErrs) \o Append(opErrs, r) = Append((errs \o stageErrs) \o opErrs, r)
      BY <1>1, <3>2, <3>3, <1>a
    <3> QED BY <2>2, <3>4, <3>5
  <2> QED BY <1>5, <2>1, <2>2 DEF RunPlugin
<1>6. CASE EndStage
  <2>1. errs' = errs /\ stageErrs' = stageErrs \o opErrs /\ opErrs' = <<>>
        /\ failures' = failures
    BY <1>6 DEF EndStage
  <2>2. errs \o (stageErrs \o opErrs) \in Seq(Report)
    BY <1>1
  <2>3. (errs \o (stageErrs \o opErrs)) \o <<>> = errs \o (stageErrs \o opErrs)
    BY <2>2, ConcatEmpty
  <2>4. errs \in Seq(Report) /\ stageErrs \in Seq(Report) /\ opErrs \in Seq(Report)
    BY <1>1
  <2>5. (errs \o stageErrs) \o opErrs = errs \o (stageErrs \o opErrs)
    BY <2>4, <1>b, Zenon
  <2> QED BY <2>1, <2>3, <2>5
<1>7. CASE EndList
  <2>1. errs' = errs \o stageErrs /\ stageErrs' = <<>> /\ opErrs' = opErrs
        /\ failures' = failures /\ opErrs = <<>>
    BY <1>7 DEF EndList, history, Phases
  <2> QED BY <1>1, <2>1, ConcatEmpty
<1>8. CASE UNCHANGED <<buffers, failures>>
  BY <1>8 DEF buffers
<1> QED
  BY <1>3, <1>4, <1>5, <1>6, <1>7, <1>8
  DEF Next, NextConfig, Preflight, Finish, vars, buffers, history

\* Every failure is in one of the buffers, in the order of the failures, and
\* the result tells whether there was one.
THEOREM NoErrorLost == Spec => []ErrorsReported
<1> DEFINE Kept == errs \o stageErrs \o opErrs = failures
<1>1. Init => Kept
  BY DEF Init
<1>2. Inv /\ Kept /\ [Next]_vars => Kept'
  BY NextErrors
<1>3. Inv /\ Kept => ErrorsReported
  <2> SUFFICES ASSUME Inv, Kept
               PROVE  ErrorsReported
    OBVIOUS
  <2>1. result # "none" => errs = failures
    BY ConcatEmpty DEF Inv, TypeOK, Phases
  <2> QED BY <2>1 DEF ErrorsReported, Inv, Phases
<1> QED BY InitInv, NextInv, <1>1, <1>2, <1>3, PTL DEF Spec

\* A place of a sequence holds one of its elements.
LEMMA ElementType ==
  ASSUME NEW S
  PROVE  \A s \in Seq(S) : \A i \in DOMAIN s : s[i] \in S
OBVIOUS

\* While an operation is run, the plugins before the next one have been called.
Chained ==
  /\ ChainWhole
  /\ pc = "plugins" => /\ plugin \in Nat /\ plugin <= Plugins + 1
                       /\ called = [p \in 1 .. plugin - 1 |-> p]

\* The calls grow by the next one.
LEMMA OneMoreCall ==
  ASSUME NEW k \in Nat \ {0}
  PROVE  Append([p \in 1 .. k - 1 |-> p], k) = [p \in 1 .. k |-> p]
<1> DEFINE s == [p \in 1 .. k - 1 |-> p]
<1>1. s \in Seq(Nat) /\ Len(s) = k - 1 /\ \A p \in 1 .. k - 1 : s[p] = p
  OBVIOUS
<1> HIDE DEF s
<1>2. /\ Append(s, k) \in Seq(Nat) /\ Len(Append(s, k)) = k
      /\ \A p \in 1 .. k : Append(s, k)[p] = p
  BY <1>1
<1>3. ASSUME NEW t \in Seq(Nat), Len(t) = k, \A p \in 1 .. k : t[p] = p
      PROVE  t = [p \in 1 .. k |-> p]
  <2>1. t = [p \in 1 .. k |-> t[p]]
    BY <1>3
  <2> QED BY <1>3, <2>1
<1>4. Append(s, k) = [p \in 1 .. k |-> p]
  BY <1>2, <1>3
<1> QED BY <1>4 DEF s

\* A line more in the log, of an operation whose chain is whole.
LEMMA LineMore ==
  ASSUME Inv, ChainWhole, NEW e \in Entry, e.op = Op,
         e.called = IF e.ran THEN Chain ELSE <<>>, log' = Append(log, e),
         pc = "plugins" => e.ran, UNCHANGED failures
  PROVE  ChainWhole'
<1>1. log \in Seq(Entry)
  BY DEF Inv, TypeOK
<1>2. /\ DOMAIN log' = DOMAIN log \cup {Len(log) + 1}
      /\ \A l \in DOMAIN log : log'[l] = log[l]
      /\ log'[Len(log) + 1] = e
  BY <1>1
<1>3. ASSUME NEW l \in DOMAIN log'
      PROVE  log'[l].called = IF log'[l].ran THEN Chain ELSE <<>>
  BY <1>2 DEF ChainWhole
<1>4. ASSUME NEW f \in DOMAIN failures, failures[f][4] # 0
      PROVE  \E l \in DOMAIN log' : log'[l].ran /\ log'[l].op = OpOf(failures[f])
  <2>1. CASE pc = "plugins" /\ OpOf(failures[f]) = Op
    BY <1>2, <2>1
  <2>2. CASE \E l \in DOMAIN log : log[l].ran /\ log[l].op = OpOf(failures[f])
    BY <1>2, <2>2
  <2> QED BY <1>4, <2>1, <2>2 DEF ChainWhole
<1> QED BY <1>3, <1>4 DEF ChainWhole, Chain, OpOf

\* Every step keeps the chains whole.
LEMMA NextChained ==
  ASSUME Inv, Chained, [Next]_vars
  PROVE  Chained'
<1>0. /\ Plugins \in Nat /\ plugin \in Nat \ {0} /\ failures \in Seq(Report)
      /\ ChainWhole
  BY ExecutorAssumption DEF Inv, TypeOK, Chained
<1>1. ASSUME pc # "plugins", pc' # "plugins", UNCHANGED log,
             \/ UNCHANGED failures
             \/ \E r \in Report : r[4] = 0 /\ failures' = Append(failures, r)
      PROVE  Chained'
  <2>1. ASSUME NEW f \in DOMAIN failures', failures'[f][4] # 0
        PROVE  \E l \in DOMAIN log : log[l].ran /\ log[l].op = OpOf(failures'[f])
    <3>1. f \in DOMAIN failures /\ failures'[f] = failures[f]
      BY <1>0, <1>1, <2>1
    <3> QED BY <1>0, <1>1, <2>1, <3>1 DEF ChainWhole
  <2>2. ChainWhole'
    BY <1>0, <1>1, <2>1 DEF ChainWhole, Chain, OpOf
  <2> QED BY <1>1, <2>2 DEF Chained
<1>2. CASE NextSource
  <2>1. <<src + 1, 0, 0, 0, 0>> \in Report
    BY DEF Report, Inv, TypeOK
  <2> QED BY <1>1, <1>2, <2>1 DEF NextSource
<1>3. CASE NextConfig
  BY <1>1, <1>3 DEF NextConfig, history
<1>4. CASE OrderStages
  <2>1. <<src, cfg, key, 0, 0>> \in Report
    BY DEF Report, Inv, TypeOK
  <2> QED BY <1>1, <1>4, <2>1 DEF OrderStages
<1>5. CASE Preflight
  <2>1. pc = "stage" /\ order[n] \in Nat /\ UNCHANGED failures
    BY <1>5 DEF Preflight, Inv, TypeOK
  <2>2. CASE pc' = "plugins" /\ plugin' = 1 /\ called' = <<>> /\ UNCHANGED log
    <3>1. ChainWhole'
      BY <1>0, <2>1, <2>2 DEF ChainWhole, Chain, OpOf
    <3>2. called' = [p \in 1 .. plugin' - 1 |-> p]
      BY <2>2
    <3> QED BY <1>0, <2>2, <3>1, <3>2 DEF Chained
  <2>3. CASE log' = Append(log, Skipped) /\ UNCHANGED pc
    <3>1. ChainWhole'
      BY <1>0, <2>1, <2>3, LinesAre, LineMore DEF Inv
    <3> QED BY <2>1, <2>3, <3>1 DEF Chained
  <2> QED BY <1>5, <2>2, <2>3 DEF Preflight, Skipped
<1>6. CASE RunPlugin
  <2>1. /\ pc = "plugins" /\ pc' = "plugins" /\ plugin <= Plugins /\ plugin' = plugin + 1
        /\ called' = Append(called, plugin) /\ UNCHANGED log /\ Op' = Op
        /\ called = [p \in 1 .. plugin - 1 |-> p]
    BY <1>6 DEF RunPlugin, Op, Chained
  <2>2. called' = [p \in 1 .. plugin' - 1 |-> p]
    <3>1. called' = [p \in 1 .. plugin |-> p]
      BY <1>0, <2>1, OneMoreCall
    <3>2. plugin' - 1 = plugin
      BY <1>0, <2>1
    <3> QED BY <3>1, <3>2
  <2>3. plugin' \in Nat /\ plugin' <= Plugins + 1
    BY <1>0, <2>1
  <2>4. ASSUME NEW f \in DOMAIN failures', failures'[f][4] # 0
        PROVE  \/ OpOf(failures'[f]) = Op
               \/ \E l \in DOMAIN log : log[l].ran /\ log[l].op = OpOf(failures'[f])
    <3> DEFINE r == <<src, cfg, key, order[n], plugin>>
    <3>1. UNCHANGED failures \/ failures' = Append(failures, r)
      BY <1>6 DEF RunPlugin
    <3>2. OpOf(r) = Op
      BY DEF OpOf, Op
    <3> HIDE DEF r
    <3>3. (f \in DOMAIN failures /\ failures'[f] = failures[f]) \/ failures'[f] = r
      BY <1>0, <3>1
    <3>4. CASE f \in DOMAIN failures /\ failures'[f] = failures[f]
      BY <1>0, <2>4, <3>4 DEF ChainWhole
    <3> QED BY <3>2, <3>3, <3>4
  <2>5. ChainWhole'
    BY <1>0, <2>1, <2>4 DEF ChainWhole, Chain, OpOf
  <2> QED BY <2>1, <2>2, <2>3, <2>5 DEF Chained
<1>7. CASE EndStage
  <2>1. /\ pc = "plugins" /\ pc' = "stage" /\ plugin > Plugins /\ UNCHANGED failures
        /\ log' = Append(log, Ran) /\ order[n] \in Nat
    BY <1>7 DEF EndStage, Ran, Inv, TypeOK, Phases
  <2>2. called = Chain
    <3>1. plugin - 1 = Plugins
      BY <1>0, <2>1 DEF Chained
    <3> QED BY <2>1, <3>1 DEF Chained, Chain
  <2>3. ChainWhole'
    BY <1>0, <2>1, <2>2, LinesAre, LineMore DEF Inv
  <2> QED BY <2>1, <2>3 DEF Chained
<1>8. CASE EndList
  BY <1>1, <1>8 DEF EndList, history
<1>9. CASE Finish
  BY <1>1, <1>9 DEF Finish, history
<1>10. CASE UNCHANGED vars
  <2>1. UNCHANGED <<pc, plugin, called, log, failures>> /\ Op' = Op
    BY <1>10 DEF vars, loops, history, Op
  <2> QED BY <2>1 DEF Chained, ChainWhole, Chain, OpOf
<1> QED BY <1>2, <1>3, <1>4, <1>5, <1>6, <1>7, <1>8, <1>9, <1>10 DEF Next

\* In every run, an operation that the conditionals let run has had each plugin
\* called once, in their order, whatever failed in it or before it; and no plugin
\* of any other operation fails (run_plugins).
THEOREM ChainsWhole == Spec => []ChainWhole
<1>1. Init => Chained
  BY DEF Init, Chained, ChainWhole
<1>2. Chained => ChainWhole
  BY DEF Chained
<1> QED BY InitInv, NextInv, NextChained, <1>1, <1>2, PTL DEF Spec

-----------------------------------------------------------------------------

\* What the log has of a list: the operations among its entries, in order.
ListOf(entries, at) ==
  LET mine == Subsequence(entries, {l \in DOMAIN entries :
                <<entries[l].op[1], entries[l].op[2], entries[l].op[3]>> = at})
  IN  [l \in DOMAIN mine |-> mine[l].op[4]]

\* A list of which the log has nothing.
LEMMA ListEmpty ==
  ASSUME NEW entries \in Seq(Entry), NEW at,
         \A l \in DOMAIN entries :
           <<entries[l].op[1], entries[l].op[2], entries[l].op[3]>> # at
  PROVE  ListOf(entries, at) = <<>>
<1> DEFINE mine == Subsequence(entries, {})
<1>1. {l \in DOMAIN entries :
         <<entries[l].op[1], entries[l].op[2], entries[l].op[3]>> = at} = {}
  OBVIOUS
<1>2. ListOf(entries, at) = [l \in DOMAIN mine |-> mine[l].op[4]]
  BY <1>1 DEF ListOf
<1>3. mine = <<>>
  <2>1. mine \in Seq(Entry) /\ Len(mine) = Cardinality({})
    BY SubsequenceElements
  <2>2. Cardinality({}) = 0
    BY FS_EmptySet
  <2> HIDE DEF mine
  <2> QED BY <2>1, <2>2
<1> QED BY <1>2, <1>3

\* A new entry of the log is the last of its list and of no other.
LEMMA ListGrows ==
  ASSUME NEW entries \in Seq(Entry), NEW e \in Entry, NEW at
  PROVE  /\ <<e.op[1], e.op[2], e.op[3]>> # at
              => ListOf(Append(entries, e), at) = ListOf(entries, at)
         /\ <<e.op[1], e.op[2], e.op[3]>> = at
              => ListOf(Append(entries, e), at) = Append(ListOf(entries, at), e.op[4])
<1> DEFINE Of(x) == <<x.op[1], x.op[2], x.op[3]>>
           longer == Append(entries, e)
           places == {l \in DOMAIN entries : Of(entries[l]) = at}
           more == {l \in DOMAIN longer : Of(longer[l]) = at}
           last == Len(entries) + 1
           mine == Subsequence(entries, places)
           their == Subsequence(longer, more)
<1>1. /\ Len(entries) \in Nat /\ DOMAIN entries = 1 .. Len(entries)
      /\ longer \in Seq(Entry) /\ DOMAIN longer = DOMAIN entries \cup {last}
      /\ last \notin DOMAIN entries /\ longer[last] = e
      /\ \A l \in DOMAIN entries : longer[l] = entries[l]
  OBVIOUS
<1>2. ListOf(entries, at) = [l \in DOMAIN mine |-> mine[l].op[4]]
  BY DEF ListOf
<1>3. ListOf(longer, at) = [l \in DOMAIN their |-> their[l].op[4]]
  BY DEF ListOf
<1> HIDE DEF longer, last, Of
<1>4. places \subseteq DOMAIN entries
  OBVIOUS
<1>5. more = places \cup (IF Of(e) = at THEN {last} ELSE {})
  BY <1>1
<1> HIDE DEF places, more
<1>6. /\ mine \in Seq(Entry)
      /\ Subsequence(longer, places) = mine
      /\ Subsequence(longer, places \cup {last}) = Append(mine, e)
  <2>1. mine \in Seq(Entry)
    BY <1>4, SubsequenceElements
  <2>2. /\ Subsequence(Append(entries, e), places) = mine
        /\ Subsequence(Append(entries, e), places \cup {Len(entries) + 1}) = Append(mine, e)
    BY <1>4, SubsequenceAppend
  <2> QED BY <2>1, <2>2 DEF longer, last
<1>7. CASE Of(e) # at
  <2>1. their = mine
    BY <1>5, <1>6, <1>7
  <2> QED BY <1>2, <1>3, <1>7, <2>1 DEF Of, longer
<1>8. CASE Of(e) = at
  <2>1. their = Append(mine, e)
    BY <1>5, <1>6, <1>8
  <2> HIDE DEF mine, their
  <2> DEFINE old == ListOf(entries, at)
             new == ListOf(longer, at)
             size == Len(mine)
  <2>2. /\ size \in Nat /\ DOMAIN mine = 1 .. size /\ DOMAIN their = 1 .. size + 1
        /\ their[size + 1] = e /\ \A l \in 1 .. size : their[l] = mine[l]
    BY <1>6, <2>1
  <2> HIDE DEF size
  <2>3. old = [l \in 1 .. size |-> mine[l].op[4]]
    BY <1>2, <2>2
  <2>4. new = [l \in 1 .. size + 1 |-> their[l].op[4]]
    BY <1>3, <2>2
  <2> HIDE DEF old, new
  <2>5. ASSUME NEW l \in 1 .. size
        PROVE  mine[l].op[4] \in Nat
    <3>1. mine[l] \in Entry
      BY <1>6, <2>2, ElementType
    <3> QED BY <3>1 DEF Entry, Operation
  <2>6. old \in Seq(Nat) /\ Len(old) = size
    BY <2>2, <2>3, <2>5
  <2>7. /\ Append(old, e.op[4]) = [l \in 1 .. size + 1 |-> IF l = size + 1 THEN e.op[4] ELSE old[l]]
    <3>1. e.op[4] \in Nat
      BY DEF Entry, Operation
    <3> QED BY <2>2, <2>6, <3>1
  <2>8. \A l \in 1 .. size + 1 :
          their[l].op[4] = IF l = size + 1 THEN e.op[4] ELSE old[l]
    <3> SUFFICES ASSUME NEW l \in 1 .. size + 1
                 PROVE  their[l].op[4] = IF l = size + 1 THEN e.op[4] ELSE old[l]
      OBVIOUS
    <3>1. l = size + 1 \/ l \in 1 .. size
      BY <2>2
    <3> QED BY <2>2, <2>3, <3>1
  <2>9. new = Append(old, e.op[4])
    BY <2>4, <2>7, <2>8
  <2> QED BY <1>8, <2>9 DEF old, new, Of, longer
<1> QED BY <1>7, <1>8 DEF Of, longer

\* The log is of lists that the loops have come past or are in; of the current
\* list it has the operations that are through, and of those before it in the
\* same config all that analyze shows.
Predicted ==
  call.mode # "apply" =>
    /\ \A l \in DOMAIN log :
         LET op == log[l].op
         IN  \/ op[1] < src
             \/ op[1] = src /\ op[2] < cfg
             \/ op[1] = src /\ op[2] = cfg /\ op[3] < key
             \/ op[1] = src /\ op[2] = cfg /\ op[3] = key /\ pc \in {"stage", "plugins"}
    /\ cfg <= Len(configs) =>
         \A k \in 1 .. key - 1 :
           ListOf(log, <<src, cfg, k>>) \in Analyze(configs[cfg][Keys[k]])
    /\ pc \in {"stage", "plugins"} =>
         /\ n <= Len(order) + 1
         /\ ListOf(log, <<src, cfg, key>>) = SubSeq(order, 1, n - 1)

\* An entry of the log names an operation by four numbers.
LEMMA EntryType ==
  ASSUME TypeOK, NEW l \in DOMAIN log
  PROVE  /\ log \in Seq(Entry)
         /\ log[l].op[1] \in Nat /\ log[l].op[2] \in Nat /\ log[l].op[3] \in Nat
<1>1. log \in Seq(Entry)
  BY DEF TypeOK, Entry
<1>2. log[l] \in Entry
  BY <1>1, ElementType
<1> QED BY <1>1, <1>2 DEF Entry, Operation

\* The beginning of an order grows by the next operation.
LEMMA BeginningGrows ==
  ASSUME NEW S, NEW seq \in Seq(S), NEW m \in Nat \ {0}, m <= Len(seq)
  PROVE  /\ SubSeq(seq, 1, m) = Append(SubSeq(seq, 1, m - 1), seq[m])
         /\ SubSeq(seq, 1, 0) = <<>> /\ SubSeq(seq, 1, Len(seq)) = seq
OBVIOUS

\* Taking an operation off the list keeps the prediction.
LEMMA LogPredicted ==
  ASSUME Inv, Predicted, call.mode # "apply", n <= Len(order), pc \in {"stage", "plugins"},
         NEW e \in Entry, e.op = Op, log' = Append(log, e), n' = n + 1, pc' = "stage",
         UNCHANGED <<call, src, configs, cfg, key, order>>
  PROVE  Predicted'
<1>1. /\ src \in Nat /\ cfg \in Nat /\ key \in Nat \ {0} /\ n \in Nat \ {0}
      /\ order \in Seq(Nat \ {0}) /\ log \in Seq(Entry)
  BY DEF Inv, TypeOK, Entry
<1>2. <<e.op[1], e.op[2], e.op[3]>> = <<src, cfg, key>> /\ e.op[4] = order[n]
  BY DEF Op
<1>3. ASSUME NEW l \in DOMAIN log'
      PROVE  LET op == log'[l].op
             IN  \/ op[1] < src \/ (op[1] = src /\ op[2] < cfg)
                 \/ (op[1] = src /\ op[2] = cfg /\ op[3] < key)
                 \/ (op[1] = src /\ op[2] = cfg /\ op[3] = key)
  <2>1. (l \in DOMAIN log /\ log'[l] = log[l]) \/ log'[l] = e
    BY <1>1
  <2> QED BY <1>2, <2>1 DEF Predicted
<1>4. ASSUME NEW k \in 1 .. key - 1
      PROVE  ListOf(log', <<src, cfg, k>>) \in Analyze(configs[cfg][Keys[k]])
  <2>1. <<src, cfg, k>> # <<src, cfg, key>>
    BY <1>1
  <2>2. ListOf(log', <<src, cfg, k>>) = ListOf(log, <<src, cfg, k>>)
    BY <1>1, <1>2, <2>1, ListGrows
  <2>3. cfg <= Len(configs)
    BY DEF Inv, Phases
  <2> QED BY <2>2, <2>3 DEF Predicted
<1>5. ListOf(log', <<src, cfg, key>>) = Append(SubSeq(order, 1, n - 1), order[n])
  <2>1. ListOf(log', <<src, cfg, key>>) = Append(ListOf(log, <<src, cfg, key>>), e.op[4])
    BY <1>1, <1>2, ListGrows
  <2> QED BY <1>2, <2>1 DEF Predicted
<1>6. ListOf(log', <<src, cfg, key>>) = SubSeq(order, 1, n' - 1) /\ n' <= Len(order) + 1
  <2>1. n' - 1 = n /\ n' <= Len(order) + 1
    BY <1>1
  <2>2. SubSeq(order, 1, n) = Append(SubSeq(order, 1, n - 1), order[n])
    BY <1>1, BeginningGrows
  <2> QED BY <1>5, <2>1, <2>2
<1>7. Keys' = Keys
  BY DEF Keys
<1> QED BY <1>3, <1>4, <1>6, <1>7 DEF Predicted

\* Every step keeps what is predicted.
LEMMA NextPredicted ==
  ASSUME Inv, Predicted, [Next]_vars
  PROVE  Predicted'
<1>0. SUFFICES ASSUME call'.mode # "apply"
               PROVE  Predicted'
  BY DEF Predicted
<1>1. /\ src \in Nat /\ cfg \in Nat \ {0} /\ key \in Nat \ {0} /\ n \in Nat \ {0}
      /\ order \in Seq(Nat \ {0}) /\ log \in Seq(Entry)
      /\ \A l \in DOMAIN log :
           log[l].op[1] \in Nat /\ log[l].op[2] \in Nat /\ log[l].op[3] \in Nat
  <2>1. \A l \in DOMAIN log :
          log[l].op[1] \in Nat /\ log[l].op[2] \in Nat /\ log[l].op[3] \in Nat
    BY EntryType DEF Inv
  <2> QED BY <2>1 DEF Inv, TypeOK, Entry
<1>2. UNCHANGED call /\ call.mode # "apply" /\ Keys' = Keys
  BY <1>0 DEF Next, vars, NextSource, NextConfig, OrderStages, Preflight, RunPlugin, EndStage,
              EndList, Finish, Keys
<1>3. CASE NextSource
  <2>1. src' = src + 1 /\ key' = 1 /\ pc' = "config" /\ pc = "config" /\ log' = log
    BY <1>3 DEF NextSource
  <2>2. \A l \in DOMAIN log : log[l].op[1] < src'
    BY <1>1, <1>2, <2>1 DEF Predicted
  <2> QED BY <2>1, <2>2 DEF Predicted
<1>4. CASE NextConfig
  <2>1. cfg' = cfg + 1 /\ key' = 1 /\ pc' = "config" /\ pc = "config" /\ src' = src /\ log' = log
    BY <1>4 DEF NextConfig, history
  <2>2. \A l \in DOMAIN log : log[l].op[1] < src \/ (log[l].op[1] = src /\ log[l].op[2] < cfg')
    BY <1>1, <1>2, <2>1 DEF Predicted
  <2> QED BY <2>1, <2>2 DEF Predicted
<1>5. CASE OrderStages
  <2>1. /\ pc = "config" /\ cfg <= Len(configs) /\ key <= Len(Keys)
        /\ UNCHANGED <<src, configs, cfg, log>>
    BY <1>5 DEF OrderStages
  <2>2. \A l \in DOMAIN log :
          \/ log[l].op[1] < src \/ (log[l].op[1] = src /\ log[l].op[2] < cfg)
          \/ (log[l].op[1] = src /\ log[l].op[2] = cfg /\ log[l].op[3] < key)
    BY <1>2, <2>1 DEF Predicted
  <2>3. \A k \in 1 .. key - 1 : ListOf(log, <<src, cfg, k>>) \in Analyze(configs[cfg][Keys[k]])
    BY <1>2, <2>1 DEF Predicted
  <2>4. ListOf(log, <<src, cfg, key>>) = <<>>
    <3>1. ASSUME NEW l \in DOMAIN log
          PROVE  <<log[l].op[1], log[l].op[2], log[l].op[3]>> # <<src, cfg, key>>
      BY <1>1, <2>2
    <3> QED BY <1>1, <3>1, ListEmpty
  <2>5. CASE order' \in Orders(Stages) /\ n' = 1 /\ pc' = "stage" /\ key' = key
    <3>1. Stages \in Seq(Stage)
      BY <2>1, StagesType DEF Inv
    <3>2. order' \in Seq(Nat \ {0}) /\ Len(order') \in Nat
      BY <2>5, <3>1, OrderType
    <3>3. SubSeq(order', 1, n' - 1) = <<>> /\ n' <= Len(order') + 1
      BY <2>5, <3>2
    <3> QED BY <1>2, <2>1, <2>2, <2>3, <2>4, <2>5, <3>3 DEF Predicted
  <2>6. CASE Orders(Stages) = {} /\ key' = key + 1 /\ pc' = pc
    <3>1. <<>> \in Analyze(configs[cfg][Keys[key]])
      BY <2>6 DEF Analyze, Stages
    <3>2. \A k \in 1 .. key' - 1 : k \in 1 .. key - 1 \/ k = key
      BY <1>1, <2>6
    <3>3. \A k \in 1 .. key' - 1 :
            ListOf(log, <<src, cfg, k>>) \in Analyze(configs[cfg][Keys[k]])
      BY <2>3, <2>4, <3>1, <3>2
    <3>4. \A l \in DOMAIN log :
            \/ log[l].op[1] < src \/ (log[l].op[1] = src /\ log[l].op[2] < cfg)
            \/ (log[l].op[1] = src /\ log[l].op[2] = cfg /\ log[l].op[3] < key')
      BY <1>1, <2>2, <2>6
    <3> QED BY <1>2, <2>1, <2>6, <3>3, <3>4 DEF Predicted
  <2> QED BY <1>2, <1>5, <2>5, <2>6 DEF OrderStages
<1>6. CASE Preflight
  <2>1. /\ n <= Len(order) /\ pc = "stage"
        /\ UNCHANGED <<call, src, configs, cfg, key, order>>
    BY <1>6 DEF Preflight
  <2>2. CASE pc' = "plugins" /\ UNCHANGED <<n, log>>
    BY <1>2, <2>1, <2>2 DEF Predicted
  <2>3. CASE log' = Append(log, Skipped) /\ n' = n + 1 /\ UNCHANGED pc
    <3>1. Skipped \in Entry /\ Skipped.op = Op
      BY <1>1, <2>1, LinesAre DEF Inv
    <3> QED BY <1>2, <2>1, <2>3, <3>1, LogPredicted
  <2> QED BY <1>6, <2>2, <2>3 DEF Preflight, Skipped
<1>7. CASE RunPlugin
  BY <1>2, <1>7 DEF RunPlugin, Predicted
<1>8. CASE EndStage
  <2>1. /\ n <= Len(order) /\ pc = "plugins" /\ pc' = "stage" /\ n' = n + 1
        /\ UNCHANGED <<call, src, configs, cfg, key, order>>
        /\ log' = Append(log, Ran)
    BY <1>8 DEF EndStage, Ran, Inv, Phases
  <2>2. Ran \in Entry /\ Ran.op = Op
    BY <1>1, <2>1, LinesAre DEF Inv
  <2> QED BY <1>2, <2>1, <2>2, LogPredicted
<1>9. CASE EndList
  <2>1. /\ pc = "stage" /\ pc' = "config" /\ n > Len(order) /\ key' = key + 1
        /\ UNCHANGED <<src, configs, cfg, order, n, log>>
    BY <1>9 DEF EndList, history
  <2>2. /\ cfg <= Len(configs) /\ order \in Orders(Stages)
    BY <1>2, <2>1 DEF Inv, Phases
  <2>3. n <= Len(order) + 1 /\ ListOf(log, <<src, cfg, key>>) = SubSeq(order, 1, n - 1)
    BY <1>2, <2>1 DEF Predicted
  <2>4. n - 1 = Len(order) /\ Len(order) \in Nat
    BY <1>1, <2>1, <2>3
  <2>5. SubSeq(order, 1, Len(order)) = order
    BY <1>1
  <2>6. ListOf(log, <<src, cfg, key>>) \in Analyze(configs[cfg][Keys[key]])
    BY <2>2, <2>3, <2>4, <2>5 DEF Analyze, Stages
  <2>7. \A k \in 1 .. key' - 1 : k \in 1 .. key - 1 \/ k = key
    BY <1>1, <2>1
  <2>8. \A k \in 1 .. key' - 1 :
          ListOf(log, <<src, cfg, k>>) \in Analyze(configs[cfg][Keys[k]])
    BY <1>2, <2>2, <2>6, <2>7 DEF Predicted
  <2>9. \A l \in DOMAIN log :
          \/ log[l].op[1] < src \/ (log[l].op[1] = src /\ log[l].op[2] < cfg)
          \/ (log[l].op[1] = src /\ log[l].op[2] = cfg /\ log[l].op[3] < key')
    BY <1>1, <1>2, <2>1 DEF Predicted
  <2> QED BY <1>2, <2>1, <2>8, <2>9 DEF Predicted
<1>10. CASE Finish
  BY <1>1, <1>2, <1>10 DEF Finish, loops, history, Predicted
<1>11. CASE UNCHANGED vars
  BY <1>2, <1>11 DEF vars, loops, history, Predicted
<1> QED BY <1>3, <1>4, <1>5, <1>6, <1>7, <1>8, <1>9, <1>10, <1>11 DEF Next

\* Each list of a config that is through has run, or skipped, exactly what the
\* executor's analyze lists for that config, in that order, whatever failed on
\* the way.
THEOREM RunsAsAnalyzed == Spec => []AnalyzePredictsRun
<1>1. Init => Predicted
  <2> SUFFICES ASSUME Init PROVE Predicted
    OBVIOUS
  <2>1. log = <<>> /\ key = 1 /\ pc = "config"
    BY DEF Init
  <2> QED BY <2>1 DEF Predicted
<1>2. Inv /\ Predicted => AnalyzePredictsRun
  BY DEF Predicted, AnalyzePredictsRun, Logged, ListOf
<1> QED BY InitInv, NextInv, NextPredicted, <1>1, <1>2, PTL DEF Spec

-----------------------------------------------------------------------------

(***************************************************************************)
(* Executor implements StageRunner: each step of the program's loops is a  *)
(* step of the abstract run or none of its.  What the abstract run has     *)
(* handled and refused is, at any time, what lies behind the place that    *)
(* the loops are at.                                                       *)
(***************************************************************************)

\* The abstract run reads sources and orders lists as the executor does: the
\* two take the operators from the same modules.
LEMMA SameSubstages == \A k : Runner!Substages(k) = Substages(k)
BY DEF Runner!Substages, Substages

\* The same edges of a list of stages.
LEMMA SameEdges == \A list : Runner!Edges(list) = Edges(list)
BY DEF Runner!Edges, Edges, Runner!AfterEdges, AfterEdges, Runner!LexicalEdges, LexicalEdges,
       Runner!Pairs, Pairs, Runner!Explicit, Explicit

\* The same orders of a list of stages.
LEMMA SameOrders == \A list : Runner!Orders(list) = Orders(list)
BY SameEdges DEF Runner!Orders, Orders, Runner!Respects, Respects, Runner!Bijection, Bijection,
  Runner!Injection, Injection, Runner!Surjection, Surjection, Runner!IsInjective, IsInjective

\* The same config of a file.
LEMMA SameParse == \A m, b : Runner!ParseBytes(m, b) = ParseBytes(m, b)
<1>1. Runner!NoStages = NoStages
  BY DEF Runner!NoStages, NoStages, Runner!StageKeys, StageKeys
<1>2. \A t : Runner!DotNotation(t) = DotNotation(t)
  BY <1>1 DEF Runner!DotNotation, DotNotation
<1>3. \A t : Runner!Load(t) = Load(t)
  BY DEF Runner!Load, Load
<1>4. \A b : Runner!RenderTemplate(b) = RenderTemplate(b)
  BY DEF Runner!RenderTemplate, RenderTemplate
<1> QED BY <1>2, <1>3, <1>4 DEF Runner!ParseBytes, ParseBytes

\* The same configs of the files of a directory.
LEMMA SameLoadAll == \A m, blobs : Runner!LoadAll(m, blobs) = LoadAll(m, blobs)
<1>1. ASSUME NEW m, NEW blobs
      PROVE  Runner!LoadAll(m, blobs) = LoadAll(m, blobs)
  <2> DEFINE parsed == [i \in DOMAIN blobs |-> ParseBytes(m, blobs[i])]
             mine == [i \in DOMAIN blobs |-> Runner!ParseBytes(m, blobs[i])]
  <2>1. mine = parsed
    BY SameParse
  <2>2. Runner!Failure = Failure
    BY DEF Runner!Failure, Failure
  <2> HIDE DEF mine, parsed
  <2>3. Runner!LoadAll(m, blobs) = IF \A i \in DOMAIN blobs : mine[i].ok
      THEN [ok |-> TRUE, configs |-> [i \in DOMAIN blobs |-> mine[i].config]]
      ELSE Runner!Failure
    BY DEF Runner!LoadAll, mine
  <2>4. LoadAll(m, blobs) = IF \A i \in DOMAIN blobs : parsed[i].ok
      THEN [ok |-> TRUE, configs |-> [i \in DOMAIN blobs |-> parsed[i].config]]
      ELSE Failure
    BY DEF LoadAll, parsed
  <2> QED BY <2>1, <2>2, <2>3, <2>4
<1> QED BY <1>1

\* The same configs of a source.
LEMMA SameResolve == \A m, s : Runner!Resolve(m, s) = Resolve(m, s)
<1>1. Runner!Failure = Failure
  BY DEF Runner!Failure, Failure
<1>2. \A s : Runner!LooksLikeFsPath(s) = LooksLikeFsPath(s)
  BY DEF Runner!LooksLikeFsPath, LooksLikeFsPath
<1>3. \A s : Runner!LooksLikeInlineYaml(s) = LooksLikeInlineYaml(s)
  BY DEF Runner!LooksLikeInlineYaml, LooksLikeInlineYaml
<1> QED BY <1>1, <1>2, <1>3, SameLoadAll, Zenon DEF Runner!Resolve, Resolve

-----------------------------------------------------------------------------

\* What the sources of the call resolve to, and the list at a place of it.
Given == Runner!ConfigsOf(call)
List(s, k, j) == Given[s].configs[k][Keys[j]]

\* The sources are numbered from 1, and each is a sequence of configs.
LEMMA GivenType ==
  ASSUME TypeOK
  PROVE  /\ call.mode = "apply" =>
              DOMAIN Given = {1} /\ Given[1].ok = TRUE /\ Given[1].configs = call.preloaded
         /\ call.mode # "apply" =>
              /\ DOMAIN Given = 1 .. Len(call.paths) /\ Len(call.paths) \in Nat
              /\ \A s \in DOMAIN Given : Given[s] = Resolve(call.modifier, call.paths[s])
         /\ \A s \in DOMAIN Given : s \in Nat \ {0} /\ Given[s].configs \in Seq(Config)
<1>1. /\ call.modifier \in BOOLEAN /\ call.paths \in Seq(Source)
      /\ call.preloaded \in Seq(Config)
  BY ExecutorAssumption DEF TypeOK, Invocation
<1>2. CASE call.mode = "apply"
  <2>1. Given = <<[ok |-> TRUE, configs |-> call.preloaded]>>
    BY <1>2 DEF Given, Runner!ConfigsOf
  <2> QED BY <1>1, <1>2, <2>1
<1>3. CASE call.mode # "apply"
  <2>1. Given = [s \in DOMAIN call.paths |-> Resolve(call.modifier, call.paths[s])]
    BY <1>3, SameResolve DEF Given, Runner!ConfigsOf
  <2>2. DOMAIN call.paths = 1 .. Len(call.paths) /\ Len(call.paths) \in Nat
        /\ \A s \in DOMAIN call.paths : call.paths[s] \in Source
    BY <1>1
  <2>3. \A s \in DOMAIN call.paths : Resolve(call.modifier, call.paths[s]).configs \in Seq(Config)
    BY <1>1, <2>2, ResolveType
  <2> QED BY <1>3, <2>1, <2>2, <2>3
<1> QED BY <1>2, <1>3

\* The substages are numbered from 1, and each is a key of a config.
LEMMA KeysType ==
  ASSUME TypeOK
  PROVE  /\ DOMAIN Keys = 1 .. Len(Keys) /\ Len(Keys) \in Nat
         /\ \A j \in DOMAIN Keys : Keys[j] \in StageKeys
<1>1. call.stage \in StageKeys
  BY ExecutorAssumption DEF TypeOK, Invocation
<1>2. CASE call.stage = "X"
  <2>1. Keys = <<"X.before", "X", "X.after">>
    BY <1>2 DEF Keys, Substages
  <2>2. Len(Keys) = 3 /\ DOMAIN Keys = 1 .. 3
    BY <2>1
  <2>3. Keys[1] = "X.before" /\ Keys[2] = "X" /\ Keys[3] = "X.after"
    BY <2>1
  <2>4. \A j \in DOMAIN Keys : j = 1 \/ j = 2 \/ j = 3
    BY <2>2
  <2>5. ASSUME NEW j \in DOMAIN Keys
        PROVE  Keys[j] \in StageKeys
    <3>1. CASE j = 1
      BY <2>3, <3>1 DEF StageKeys
    <3>2. CASE j = 2
      BY <2>3, <3>2 DEF StageKeys
    <3>3. CASE j = 3
      BY <2>3, <3>3 DEF StageKeys
    <3> QED BY <2>4, <3>1, <3>2, <3>3
  <2> QED BY <2>2, <2>5
<1>3. CASE call.stage # "X"
  <2>1. Keys = <<call.stage>>
    BY <1>3 DEF Keys, Substages
  <2> QED BY <1>1, <2>1
<1> QED BY <1>2, <1>3

\* A list is a sequence of stages.
LEMMA ListType ==
  ASSUME TypeOK, NEW s \in DOMAIN Given, NEW k \in DOMAIN Given[s].configs, NEW j \in DOMAIN Keys
  PROVE  List(s, k, j) \in Seq(Stage)
<1>1. Given[s].configs[k] \in Config
  BY GivenType
<1>2. Keys[j] \in StageKeys
  BY KeysType
<1> QED BY <1>1, <1>2 DEF List, Config

\* A list that is given up: run finds a cycle in it.
GivenUp(s, k, j) == call.mode # "apply" /\ Orders(List(s, k, j)) = {}

\* The places of the lists.
Places ==
  {at \in Nat \X Nat \X Nat :
     at[1] \in DOMAIN Given /\ at[2] \in DOMAIN Given[at[1]].configs /\ at[3] \in DOMAIN Keys}

\* The lists of the abstract run are at these places.
LEMMA PlacesAre == ASSUME TypeOK PROVE Runner!Lists(call) = Places
<1>1. \A s \in DOMAIN Given : s \in Nat
  BY GivenType
<1>2. \A s \in DOMAIN Given : \A k \in DOMAIN Given[s].configs : k \in Nat
  BY GivenType
<1>3. \A j \in DOMAIN Keys : j \in Nat
  BY KeysType
<1>4. Runner!Lists(call) =
        UNION {{s} \X (DOMAIN Given[s].configs) \X DOMAIN Keys : s \in DOMAIN Given}
  BY SameSubstages DEF Runner!Lists, Given, Keys
<1> QED BY <1>1, <1>2, <1>3, <1>4 DEF Places

\* The operations are the places of the stages of the other lists.
LEMMA WorkPlaces ==
  ASSUME TypeOK
  PROVE  Runner!Work(call) =
           {op \in Nat \X Nat \X Nat \X Nat :
              /\ op[1] \in DOMAIN Given /\ op[2] \in DOMAIN Given[op[1]].configs
              /\ op[3] \in DOMAIN Keys /\ op[4] \in DOMAIN List(op[1], op[2], op[3])
              /\ ~ GivenUp(op[1], op[2], op[3])}
<1>1. Runner!Lists(call) = Places
  BY PlacesAre
<1>2. \A at \in Runner!Lists(call) :
        /\ Runner!ListAt(call, at) = List(at[1], at[2], at[3])
        /\ Runner!Unorderable(call, at) <=> GivenUp(at[1], at[2], at[3])
  BY SameSubstages, SameOrders
  DEF Runner!ListAt, Runner!Unorderable, List, Given, Keys, GivenUp
<1>3. \A at \in Runner!Lists(call) : \A i \in DOMAIN Runner!ListAt(call, at) : i \in Nat
  BY <1>1, <1>2, ListType DEF Places
<1> DEFINE Ops == {op \in Nat \X Nat \X Nat \X Nat :
                      /\ op[1] \in DOMAIN Given /\ op[2] \in DOMAIN Given[op[1]].configs
                      /\ op[3] \in DOMAIN Keys /\ op[4] \in DOMAIN List(op[1], op[2], op[3])
                      /\ ~ GivenUp(op[1], op[2], op[3])}
<1>4. ASSUME NEW op \in Runner!Work(call)
      PROVE  op \in Ops
  <2>1. PICK at \in Runner!Lists(call) :
          /\ ~ Runner!Unorderable(call, at)
          /\ \E i \in DOMAIN Runner!ListAt(call, at) : op = <<at[1], at[2], at[3], i>>
    BY DEF Runner!Work
  <2>2. at \in Places
    BY <1>1
  <2> QED BY <1>2, <1>3, <2>1, <2>2 DEF Places
<1>5. ASSUME NEW op \in Ops
      PROVE  op \in Runner!Work(call)
  <2> DEFINE at == <<op[1], op[2], op[3]>>
  <2>1. at \in Runner!Lists(call)
    BY <1>1 DEF Places
  <2>2. at[1] = op[1] /\ at[2] = op[2] /\ at[3] = op[3]
    OBVIOUS
  <2>3. ~ Runner!Unorderable(call, at) /\ op[4] \in DOMAIN Runner!ListAt(call, at)
    BY <1>2, <2>1, <2>2
  <2>4. op = <<at[1], at[2], at[3], op[4]>>
    BY <2>2
  <2> HIDE DEF at, Ops
  <2> QED BY <2>1, <2>3, <2>4 DEF Runner!Work
<1> QED BY <1>4, <1>5

\* What is refused are the sources that do not resolve and the lists that are
\* given up.
LEMMA HopelessPlaces ==
  ASSUME TypeOK
  PROVE  Runner!Hopeless(call) =
           {at \in Nat \X Nat \X Nat :
              /\ at[1] \in DOMAIN Given
              /\ \/ at[2] = 0 /\ at[3] = 0 /\ ~ Given[at[1]].ok
                 \/ /\ at[2] \in DOMAIN Given[at[1]].configs
                    /\ at[3] \in DOMAIN Keys /\ GivenUp(at[1], at[2], at[3])}
<1>1. Runner!Lists(call) = Places
  BY PlacesAre
<1>2. \A at \in Runner!Lists(call) :
        Runner!Unorderable(call, at) <=> GivenUp(at[1], at[2], at[3])
  BY SameSubstages, SameOrders
  DEF Runner!ListAt, Runner!Unorderable, List, Given, Keys, GivenUp
<1>3. \A s \in DOMAIN Given : s \in Nat
  BY GivenType
<1> QED BY <1>1, <1>2, <1>3 DEF Runner!Hopeless, Given, Places

-----------------------------------------------------------------------------

\* What StageRunner's `handled` and `refused` stand for.
Handled == {log[l].op : l \in DOMAIN log}
Refused == {<<failures[l][1], failures[l][2], failures[l][3]>> :
              l \in {m \in DOMAIN failures : failures[m][4] = 0}}

\* The places before the one the loops are at.
Behind(at) ==
  \/ at[1] < src
  \/ at[1] = src /\ at[2] < cfg
  \/ at[1] = src /\ at[2] = cfg /\ at[3] < key

\* The operations that are through.
Through(op) ==
  \/ Behind(op)
  \/ /\ pc \in {"stage", "plugins"}
     /\ op[1] = src /\ op[2] = cfg /\ op[3] = key
     /\ \E m \in DOMAIN order : m < n /\ order[m] = op[4]

\* The loops go through the places in order: what is handled and refused is
\* what lies behind them.
Progress ==
  /\ call.mode = "apply" => src = 1
  /\ IF src = 0 THEN configs = <<>> ELSE src \in DOMAIN Given /\ configs = Given[src].configs
  /\ Handled = {op \in Runner!Work(call) : Through(op)}
  /\ Refused = {at \in Runner!Hopeless(call) : Behind(at)}

\* One more operation in the log.
LEMMA AppendOps ==
  ASSUME NEW S, NEW s \in Seq(S), NEW e \in S
  PROVE  {Append(s, e)[l].op : l \in DOMAIN Append(s, e)} = {s[l].op : l \in DOMAIN s} \cup {e.op}
<1>1. /\ DOMAIN Append(s, e) = DOMAIN s \cup {Len(s) + 1} /\ Len(s) + 1 \notin DOMAIN s
      /\ \A l \in DOMAIN s : Append(s, e)[l] = s[l]
      /\ Append(s, e)[Len(s) + 1] = e
  OBVIOUS
<1> QED BY <1>1

\* One more failure: of a plugin, or of a source or list that is refused.
LEMMA AppendReport ==
  ASSUME NEW s \in Seq(Report), NEW e \in Report
  PROVE  LET of(t) == {<<t[l][1], t[l][2], t[l][3]>> : l \in {m \in DOMAIN t : t[m][4] = 0}}
         IN  of(Append(s, e)) = of(s) \cup (IF e[4] = 0 THEN {<<e[1], e[2], e[3]>>} ELSE {})
<1>1. /\ DOMAIN Append(s, e) = DOMAIN s \cup {Len(s) + 1} /\ Len(s) + 1 \notin DOMAIN s
      /\ \A l \in DOMAIN s : Append(s, e)[l] = s[l]
      /\ Append(s, e)[Len(s) + 1] = e
  OBVIOUS
<1> QED BY <1>1

\* The list the loops are in is one that is not given up, and its order goes
\* through each of its stages once.
LEMMA CurrentList ==
  ASSUME Inv, Progress, pc \in {"stage", "plugins"}
  PROVE  /\ src \in DOMAIN Given /\ cfg \in DOMAIN Given[src].configs /\ key \in DOMAIN Keys
         /\ Stages = List(src, cfg, key) /\ Stages \in Seq(Stage)
         /\ ~ GivenUp(src, cfg, key)
         /\ Len(order) = Len(Stages)
         /\ \A m \in DOMAIN order : order[m] \in DOMAIN Stages
         /\ \A i \in DOMAIN Stages : \E m \in DOMAIN order : order[m] = i
         /\ \A l, m \in DOMAIN order : order[l] = order[m] => l = m
<1> USE DEF Inv
<1>1. /\ cfg <= Len(configs) /\ key <= Len(Keys)
      /\ \/ order \in Orders(Stages)
         \/ call.mode = "apply" /\ order = DeclaredOrder(Stages)
  BY DEF Phases
<1>2. configs \in Seq(Config) /\ cfg \in Nat \ {0} /\ key \in Nat \ {0} /\ src \in Nat
  BY DEF TypeOK
<1>3. src # 0
  BY <1>1, <1>2 DEF Progress
<1>4. src \in DOMAIN Given /\ configs = Given[src].configs /\ cfg \in DOMAIN configs
  BY <1>1, <1>2, <1>3 DEF Progress
<1>5. key \in DOMAIN Keys
  BY <1>1, <1>2, KeysType
<1>6. Stages = List(src, cfg, key)
  BY <1>4 DEF Stages, List
<1>7. Stages \in Seq(Stage)
  BY <1>1, StagesType
<1>8. ~ GivenUp(src, cfg, key)
  BY <1>1, <1>6 DEF GivenUp
<1>9. Len(order) = Len(Stages) /\ order \in [DOMAIN Stages -> DOMAIN Stages]
  BY <1>1, <1>7, OrderType
<1>10. /\ \A i \in DOMAIN Stages : \E m \in DOMAIN order : order[m] = i
       /\ \A l, m \in DOMAIN order : order[l] = order[m] => l = m
  BY <1>1, <1>9
  DEF Orders, Bijection, Surjection, Injection, IsInjective, DeclaredOrder
<1> QED BY <1>4, <1>5, <1>6, <1>7, <1>8, <1>9, <1>10

\* The current operation is one that is not handled yet, and all that it has to
\* wait for is.
LEMMA CurrentOp ==
  ASSUME Inv, Progress, pc \in {"stage", "plugins"}, n <= Len(order)
  PROVE  /\ Op \in Runner!Work(call) \ Handled
         /\ \A other \in Runner!Work(call) : Runner!MustPrecede(call, other, Op) => other \in Handled
<1> USE DEF Inv
<1>1. n \in DOMAIN order /\ n \in Nat \ {0} /\ src \in Nat /\ cfg \in Nat /\ key \in Nat
  BY DEF TypeOK
<1>2. order[n] \in DOMAIN List(src, cfg, key) /\ order[n] \in Nat
  BY <1>1, CurrentList
<1>3. /\ Op[1] = src /\ Op[2] = cfg /\ Op[3] = key /\ Op[4] = order[n]
      /\ Op \in Nat \X Nat \X Nat \X Nat
  BY <1>1, <1>2 DEF Op
<1>4. Op \in Runner!Work(call)
  BY <1>2, <1>3, CurrentList, WorkPlaces
<1>5. ~ Through(Op)
  <2>1. ~ Behind(Op)
    BY <1>1, <1>3 DEF Behind
  <2>2. \A m \in DOMAIN order : order[m] = order[n] => m = n
    BY <1>1, CurrentList
  <2> QED BY <1>1, <1>3, <2>1, <2>2 DEF Through
<1>6. ASSUME NEW other \in Runner!Work(call), Runner!MustPrecede(call, other, Op)
      PROVE  Through(other)
  <2>1. /\ other[1] \in Nat /\ other[2] \in Nat /\ other[3] \in Nat
        /\ other[4] \in DOMAIN List(other[1], other[2], other[3])
    BY WorkPlaces
  <2>2. CASE Runner!Earlier(other, Op)
    BY <1>1, <1>3, <2>1, <2>2 DEF Runner!Earlier, Through, Behind
  <2>3. CASE Runner!SameList(other, Op) /\ ~ Runner!Earlier(other, Op)
    <3>1. other[1] = src /\ other[2] = cfg /\ other[3] = key
      BY <1>3, <2>3 DEF Runner!SameList
    <3>2. PICK m \in DOMAIN order : order[m] = other[4]
      BY <2>1, <3>1, CurrentList
    <3>3. m < n
      <4>1. CASE call.mode = "apply"
        <5>1. other[4] < order[n]
          BY <1>3, <2>3, <4>1, <1>6 DEF Runner!MustPrecede
        <5>2. order = DeclaredOrder(Stages) /\ other[4] \in DOMAIN Stages
          BY <2>1, <3>1, <4>1, CurrentList DEF Phases
        <5>3. order[m] = m /\ order[n] = n
          BY <1>1, <5>2, CurrentList DEF DeclaredOrder
        <5> QED BY <3>2, <5>1, <5>3
      <4>2. CASE call.mode # "apply"
        <5>1. <<order[m], order[n]>> \in Edges(Stages)
          <6>1. <<other[4], Op[4]>> \in Runner!Edges(Runner!ListAt(call, other))
            BY <1>6, <2>3, <4>2 DEF Runner!MustPrecede
          <6>2. Runner!ListAt(call, other) = Stages
            BY <3>1, CurrentList, SameSubstages DEF Runner!ListAt, List, Given, Keys
          <6> QED BY <1>3, <3>2, <6>1, <6>2, SameEdges
        <5>2. order \in Orders(Stages)
          BY <4>2 DEF Phases
        <5> QED BY <1>1, <5>1, <5>2, CurrentList, OrderHonoursEdge
      <4> QED BY <4>1, <4>2
    <3> QED BY <3>1, <3>2, <3>3 DEF Through
  <2> QED BY <2>2, <2>3, <1>6 DEF Runner!MustPrecede
<1> QED BY <1>4, <1>5, <1>6 DEF Progress

\* What the abstract specification reads of the call stays as it is.
LEMMA CallKept ==
  ASSUME call' = call
  PROVE  /\ Given' = Given /\ Keys' = Keys
         /\ Runner!Work(call)' = Runner!Work(call)
         /\ Runner!Hopeless(call)' = Runner!Hopeless(call)
BY DEF Given, Keys

\* Going on to the next operation of the list is handling the current one.
LEMMA HandleMaps ==
  ASSUME Inv, Progress, pc \in {"stage", "plugins"}, n <= Len(order),
         NEW e \in Entry, e.op = Op, log' = Append(log, e),
         n' = n + 1, pc' = "stage",
         UNCHANGED <<call, src, configs, cfg, key, order, result, failures>>
  PROVE  Progress' /\ Runner!Next
<1> USE DEF Inv
<1>1. Op \in Operation
  <2>1. order[n] \in Nat
    BY DEF TypeOK
  <2> QED BY <2>1 DEF TypeOK, Op, Operation
<1>2. Handled' = Handled \cup {Op}
  <2>2. log \in Seq(Entry)
    BY DEF TypeOK
  <2> HIDE DEF Op
  <2>3. {log'[l].op : l \in DOMAIN log'} = {log[l].op : l \in DOMAIN log} \cup {Op}
    BY <2>2, AppendOps
  <2> QED BY <2>3 DEF Handled
<1>3. Runner!Next
  <2>1. PICK op \in Runner!Work(call) : op = Op
    BY CurrentOp
  <2>2. Handled' = Handled \cup {op} /\ (failures # <<>>)' = (failures # <<>>)
    BY <1>2, <2>1
  <2>3. UNCHANGED <<call, Refused, result>>
    BY DEF Refused
  <2>4. /\ op \in Runner!Work(call) \ Handled
        /\ \A other \in Runner!Work(call) :
             Runner!MustPrecede(call, other, op) => other \in Handled
    BY <2>1, CurrentOp
  <2>5. Runner!Handle(op)
    BY <2>2, <2>3, <2>4 DEF Runner!Handle, Handled, Refused
  <2> QED BY <2>5 DEF Runner!Next
<1>4. ASSUME NEW op \in Runner!Work(call)
      PROVE  Through(op)' <=> Through(op) \/ op = Op
  <2>1. Behind(op)' <=> Behind(op)
    BY DEF Behind
  <2>2. op \in Nat \X Nat \X Nat \X Nat
    BY WorkPlaces
  <2>3. op = Op <=> op[1] = src /\ op[2] = cfg /\ op[3] = key /\ op[4] = order[n]
    BY <1>1, <2>2 DEF Op, Operation
  <2>4. n \in DOMAIN order /\ \A m \in DOMAIN order : m < n + 1 <=> m < n \/ m = n
    BY DEF TypeOK
  <2> HIDE DEF Op
  <2> QED BY <2>1, <2>3, <2>4 DEF Through
<1>5. Handled' = {op \in Runner!Work(call) : Through(op)'}
  BY <1>2, <1>4, CurrentOp DEF Progress
<1>6. Refused' = {at \in Runner!Hopeless(call) : Behind(at)'}
  BY DEF Progress, Refused, Behind
<1> QED BY <1>3, <1>5, <1>6, CallKept DEF Progress

\* A plugin that fails, fails of an operation that is not yet through.
LEMMA FailMaps ==
  ASSUME Inv, Progress, pc = "plugins", NEW p \in Nat,
         failures' = Append(failures, <<src, cfg, key, order[n], p>>),
         UNCHANGED <<call, pc, src, configs, cfg, key, order, n, result, log>>
  PROVE  Progress' /\ Runner!Fail
<1>0. TypeOK /\ Phases
  BY DEF Inv
<1>1. n <= Len(order) /\ order[n] \in Nat \ {0} /\ result = "none"
  <2>1. n <= Len(order) /\ result = "none"
    BY <1>0 DEF Phases
  <2>2. n \in Nat \ {0} /\ order \in Seq(Nat \ {0})
    BY <1>0 DEF TypeOK
  <2> QED BY <2>1, <2>2
<1>2. Refused' = Refused
  <2> DEFINE r == <<src, cfg, key, order[n], p>>
  <2>1. r \in Report /\ r[4] # 0
    BY <1>0, <1>1 DEF TypeOK, Report
  <2>2. failures \in Seq(Report) /\ failures' = Append(failures, r)
    BY <1>0 DEF TypeOK
  <2> HIDE DEF r
  <2>3. Append(failures, r) = failures' /\ ~ (r[4] = 0)
    BY <2>1, <2>2
  <2>4. {<<failures'[l][1], failures'[l][2], failures'[l][3]>> :
           l \in {m \in DOMAIN failures' : failures'[m][4] = 0}} = Refused \cup {}
    BY <2>1, <2>2, <2>3, AppendReport DEF Refused
  <2> QED BY <2>4 DEF Refused
<1>3. Handled' = Handled
  BY DEF Handled
<1>4. failures' # <<>>
  <2>1. failures \in Seq(Report)
    BY <1>0 DEF TypeOK
  <2> DEFINE r == <<src, cfg, key, order[n], p>>
  <2> HIDE DEF r
  <2>2. \A s \in Seq(Report) : Append(s, r) # <<>>
    OBVIOUS
  <2> QED BY <2>1, <2>2 DEF r
<1>5. Runner!Fail
  <2>1. Handled # Runner!Work(call)
    BY <1>1, CurrentOp
  <2>2. UNCHANGED <<call, Handled, Refused, result>>
    BY <1>2, <1>3
  <2>3. (failures # <<>>)' = TRUE
    BY <1>4
  <2> QED BY <1>1, <2>1, <2>2, <2>3 DEF Runner!Fail, Handled, Refused
<1>6. Progress'
  <2>1. \A op : Through(op)' <=> Through(op)
    BY DEF Through, Behind
  <2>2. \A at : Behind(at)' <=> Behind(at)
    BY DEF Behind
  <2> QED BY <1>2, <1>3, <2>1, <2>2, CallKept DEF Progress
<1> QED BY <1>5, <1>6

\* Giving up on a source or on a list is refusing it.
LEMMA RefuseMaps ==
  ASSUME TypeOK, Refused = {it \in Runner!Hopeless(call) : Behind(it)},
         NEW at \in Runner!Hopeless(call), ~ Behind(at),
         failures' = Append(failures, <<at[1], at[2], at[3], 0, 0>>),
         UNCHANGED <<call, result, log>>
  PROVE  Refused' = Refused \cup {at} /\ Runner!Refuse(at)
<1>1. at \in Nat \X Nat \X Nat
  BY HopelessPlaces
<1> DEFINE r == <<at[1], at[2], at[3], 0, 0>>
<1>2. r \in Report /\ r[4] = 0 /\ <<r[1], r[2], r[3]>> = at
  BY <1>1 DEF Report
<1>3. failures \in Seq(Report) /\ failures' = Append(failures, r)
  BY DEF TypeOK
<1> HIDE DEF r
<1>4. Refused' = Refused \cup {at}
  <2>1. Append(failures, r) = failures' /\ <<r[1], r[2], r[3]>> = at /\ r[4] = 0
    BY <1>2, <1>3
  <2>2. {<<Append(failures, r)[l][1], Append(failures, r)[l][2], Append(failures, r)[l][3]>> :
           l \in {m \in DOMAIN Append(failures, r) : Append(failures, r)[m][4] = 0}}
          = Refused \cup {<<r[1], r[2], r[3]>>}
    BY <1>2, <1>3, AppendReport DEF Refused
  <2>3. {<<failures'[l][1], failures'[l][2], failures'[l][3]>> :
           l \in {m \in DOMAIN failures' : failures'[m][4] = 0}} = Refused \cup {at}
    BY <2>1, <2>2
  <2> QED BY <2>3 DEF Refused
<1>5. failures' # <<>>
  <2>1. \A s \in Seq(Report) : Append(s, r) # <<>>
    OBVIOUS
  <2> QED BY <1>3, <2>1
<1>6. at \in Runner!Hopeless(call) \ Refused
  OBVIOUS
<1>7. (failures # <<>>)' = TRUE
  BY <1>5
<1>8. UNCHANGED <<call, Handled, result>>
  BY DEF Handled
<1> QED BY <1>4, <1>6, <1>7, <1>8 DEF Runner!Refuse, Handled, Refused

\* The places of operations count from 1 and end with the lists.
LEMMA WorkBounds ==
  ASSUME TypeOK, NEW op \in Runner!Work(call)
  PROVE  /\ op[1] \in DOMAIN Given /\ op[1] \in Nat \ {0}
         /\ op[2] \in 1 .. Len(Given[op[1]].configs)
         /\ Len(Given[op[1]].configs) \in Nat
         /\ op[3] \in 1 .. Len(Keys) /\ Len(Keys) \in Nat
<1>1. op[1] \in DOMAIN Given /\ op[2] \in DOMAIN Given[op[1]].configs /\ op[3] \in DOMAIN Keys
  BY WorkPlaces
<1>2. Given[op[1]].configs \in Seq(Config) /\ op[1] \in Nat \ {0}
  BY <1>1, GivenType
<1> QED BY <1>1, <1>2, KeysType

\* The places that are refused count from 1, too, and a source has its own.
LEMMA HopelessBounds ==
  ASSUME TypeOK, NEW at \in Runner!Hopeless(call)
  PROVE  /\ at \in Nat \X Nat \X Nat
         /\ at[1] \in DOMAIN Given /\ at[1] \in Nat \ {0}
         /\ \/ at[2] = 0 /\ at[3] = 0 /\ ~ Given[at[1]].ok
            \/ /\ at[2] \in 1 .. Len(Given[at[1]].configs)
               /\ Len(Given[at[1]].configs) \in Nat
               /\ at[3] \in 1 .. Len(Keys) /\ Len(Keys) \in Nat
               /\ GivenUp(at[1], at[2], at[3])
<1>1. /\ at \in Nat \X Nat \X Nat
      /\ at[1] \in DOMAIN Given
      /\ \/ at[2] = 0 /\ at[3] = 0 /\ ~ Given[at[1]].ok
         \/ /\ at[2] \in DOMAIN Given[at[1]].configs
            /\ at[3] \in DOMAIN Keys /\ GivenUp(at[1], at[2], at[3])
  BY HopelessPlaces
<1>2. Given[at[1]].configs \in Seq(Config) /\ at[1] \in Nat \ {0}
  BY <1>1, GivenType
<1> QED BY <1>1, <1>2, KeysType

\* A step that takes the loops past nothing is none of the abstract run.
LEMMA StutterMaps ==
  ASSUME Inv, Progress, UNCHANGED <<call, result, log, failures>>,
         call.mode = "apply" => src' = 1,
         IF src' = 0 THEN configs' = <<>>
         ELSE src' \in DOMAIN Given /\ configs' = Given[src'].configs,
         \A op \in Runner!Work(call) : Through(op)' <=> Through(op),
         \A at \in Runner!Hopeless(call) : Behind(at)' <=> Behind(at)
  PROVE  Progress' /\ UNCHANGED Runner!vars
<1>1. Handled' = Handled /\ Refused' = Refused
  BY DEF Handled, Refused
<1>2. Progress'
  BY <1>1, CallKept DEF Progress
<1>3. UNCHANGED Runner!vars
  BY <1>1 DEF Runner!vars, Handled, Refused
<1> QED BY <1>2, <1>3

\* Refusing takes the loops past one more place.
LEMMA RefusePasses ==
  ASSUME Inv, Progress, NEW at \in Runner!Hopeless(call), ~ Behind(at),
         failures' = Append(failures, <<at[1], at[2], at[3], 0, 0>>),
         UNCHANGED <<call, result, log>>,
         call.mode = "apply" => src' = 1,
         IF src' = 0 THEN configs' = <<>>
         ELSE src' \in DOMAIN Given /\ configs' = Given[src'].configs,
         \A op \in Runner!Work(call) : Through(op)' <=> Through(op),
         \A it \in Runner!Hopeless(call) : Behind(it)' <=> Behind(it) \/ it = at
  PROVE  Progress' /\ Runner!Next
<1>1. Refused' = Refused \cup {at} /\ Runner!Refuse(at)
  BY RefuseMaps DEF Inv, Progress
<1>2. Handled' = Handled
  BY DEF Handled
<1>3. Handled' = {op \in Runner!Work(call) : Through(op)'}
  BY <1>2 DEF Progress
<1>4. Refused' = {it \in Runner!Hopeless(call) : Behind(it)'}
  BY <1>1 DEF Progress
<1>5. Progress'
  BY <1>3, <1>4, CallKept DEF Progress
<1> QED BY <1>1, <1>5 DEF Runner!Next

-----------------------------------------------------------------------------

\* A source that does not resolve is refused; one that does is not yet gone
\* past.
LEMMA NextSourceMaps ==
  ASSUME Inv, Progress, NextSource
  PROVE  Progress' /\ [Runner!Next]_(Runner!vars)
<1>1. TypeOK
  BY DEF Inv
<1>2. /\ pc = "config" /\ pc' = "config" /\ cfg > Len(configs) /\ call.mode # "apply"
      /\ src < Len(call.paths) /\ src' = src + 1 /\ cfg' = 1 /\ key' = 1
      /\ UNCHANGED <<call, result, log>>
  BY DEF NextSource
<1>3. src \in Nat /\ cfg \in Nat /\ key \in Nat /\ configs \in Seq(Config)
  BY <1>1 DEF TypeOK
<1>4. /\ src + 1 \in DOMAIN Given
      /\ Given[src + 1] = Resolve(call.modifier, call.paths[src + 1])
  BY <1>1, <1>2, <1>3, GivenType
<1>5. src' \in DOMAIN Given /\ configs' = Given[src'].configs /\ src' # 0
  BY <1>2, <1>3, <1>4 DEF NextSource
<1>6. src # 0 => configs = Given[src].configs
  BY DEF Progress
<1>7. ASSUME NEW op \in Runner!Work(call)
      PROVE  Through(op)' <=> Through(op)
  <2>1. Behind(op)' <=> Behind(op)
    BY <1>1, <1>2, <1>3, <1>6, WorkBounds DEF Behind
  <2> QED BY <1>2, <2>1 DEF Through
<1> DEFINE new == <<src + 1, 0, 0>>
<1>8. ~ Behind(new)
  BY <1>3 DEF Behind
<1>9. ASSUME NEW at \in Runner!Hopeless(call)
      PROVE  Behind(at)' <=> Behind(at) \/ at = new
  <2>1. at = new <=> at[1] = src + 1 /\ at[2] = 0 /\ at[3] = 0
    BY <1>1, HopelessBounds
  <2> HIDE DEF new
  <2> QED BY <1>1, <1>2, <1>3, <1>6, <2>1, HopelessBounds DEF Behind
<1>10. new \in Runner!Hopeless(call) <=> ~ Given[src + 1].ok
  <2>1. new \in Nat \X Nat \X Nat /\ new[1] = src + 1 /\ new[2] = 0 /\ new[3] = 0
    BY <1>3
  <2>2. 0 \notin DOMAIN Keys
    BY <1>1, KeysType
  <2> HIDE DEF new
  <2> QED BY <1>1, <1>4, <2>1, <2>2, HopelessPlaces
<1>11. CASE Given[src + 1].ok
  <2>1. failures' = failures
    BY <1>4, <1>11 DEF NextSource
  <2>2. \A at \in Runner!Hopeless(call) : Behind(at)' <=> Behind(at)
    BY <1>9, <1>10, <1>11
  <2> HIDE DEF new
  <2> QED BY <1>2, <1>5, <1>7, <2>1, <2>2, StutterMaps
<1>12. CASE ~ Given[src + 1].ok
  <2>1. failures' = Append(failures, <<src + 1, 0, 0, 0, 0>>)
    BY <1>4, <1>12 DEF NextSource
  <2>2. failures' = Append(failures, <<new[1], new[2], new[3], 0, 0>>)
    BY <2>1
  <2>3. new \in Runner!Hopeless(call)
    BY <1>10, <1>12
  <2> HIDE DEF new
  <2> QED BY <1>2, <1>5, <1>7, <1>8, <1>9, <2>2, <2>3, RefusePasses
<1> QED BY <1>11, <1>12

\* Going on to the next config goes past nothing: its lists were all gone through.
LEMMA NextConfigMaps ==
  ASSUME Inv, Progress, NextConfig
  PROVE  Progress' /\ [Runner!Next]_(Runner!vars)
<1>1. TypeOK
  BY DEF Inv
<1>2. /\ pc = "config" /\ pc' = "config" /\ key > Len(Keys) /\ cfg' = cfg + 1 /\ key' = 1
      /\ UNCHANGED <<call, result, log, failures, src, configs>>
  BY DEF NextConfig, history
<1>3. src \in Nat /\ cfg \in Nat /\ cfg # 0 /\ key \in Nat
  BY <1>1 DEF TypeOK
<1>4. ASSUME NEW op \in Runner!Work(call)
      PROVE  Through(op)' <=> Through(op)
  <2>1. Behind(op)' <=> Behind(op)
    BY <1>1, <1>2, <1>3, WorkBounds DEF Behind
  <2> QED BY <1>2, <2>1 DEF Through
<1>5. ASSUME NEW at \in Runner!Hopeless(call)
      PROVE  Behind(at)' <=> Behind(at)
  BY <1>1, <1>2, <1>3, HopelessBounds DEF Behind
<1>6. /\ call.mode = "apply" => src' = 1
      /\ IF src' = 0 THEN configs' = <<>>
         ELSE src' \in DOMAIN Given /\ configs' = Given[src'].configs
  BY <1>2 DEF Progress
<1> QED BY <1>2, <1>4, <1>5, <1>6, StutterMaps

\* A list with a cycle is refused; one that is ordered is not yet gone past.
LEMMA OrderStagesMaps ==
  ASSUME Inv, Progress, OrderStages
  PROVE  Progress' /\ [Runner!Next]_(Runner!vars)
<1>1. TypeOK
  BY DEF Inv
<1>2. /\ pc = "config" /\ cfg <= Len(configs) /\ key <= Len(Keys)
      /\ UNCHANGED <<call, result, log, src, configs, cfg>>
  BY DEF OrderStages
<1>3. src \in Nat /\ cfg \in Nat \ {0} /\ key \in Nat \ {0} /\ configs \in Seq(Config)
  BY <1>1 DEF TypeOK
<1>4. /\ call.mode = "apply" => src' = 1
      /\ IF src' = 0 THEN configs' = <<>>
         ELSE src' \in DOMAIN Given /\ configs' = Given[src'].configs
  BY <1>2 DEF Progress
<1>5. src \in DOMAIN Given /\ cfg \in DOMAIN Given[src].configs /\ key \in DOMAIN Keys
      /\ Stages = List(src, cfg, key)
  <2>1. src # 0
    BY <1>2, <1>3 DEF Progress
  <2>2. src \in DOMAIN Given /\ configs = Given[src].configs /\ cfg \in DOMAIN configs
    BY <1>2, <1>3, <2>1 DEF Progress
  <2> QED BY <1>1, <1>2, <1>3, <2>2, KeysType DEF Stages, List
<1>6. CASE /\ order' \in IF call.mode = "apply" THEN {DeclaredOrder(Stages)} ELSE Orders(Stages)
           /\ n' = 1 /\ pc' = "stage" /\ UNCHANGED <<key, errs, failures>>
  <2>1. \A m \in DOMAIN order' : ~ (m < 1)
    <3>1. Stages \in Seq(Stage)
      BY <1>1, <1>2, StagesType
    <3>2. order' \in Seq(Nat \ {0})
      BY <1>6, <3>1, OrderType
    <3> QED BY <3>2
  <2>2. \A at : Behind(at)' <=> Behind(at)
    BY <1>2, <1>6 DEF Behind
  <2>3. \A op : Through(op)' <=> Through(op)
    BY <1>2, <1>6, <2>1, <2>2 DEF Through
  <2> QED BY <1>2, <1>4, <1>6, <2>2, <2>3, StutterMaps
<1>7. CASE /\ call.mode # "apply" /\ Orders(Stages) = {}
           /\ failures' = Append(failures, <<src, cfg, key, 0, 0>>)
           /\ key' = key + 1
           /\ UNCHANGED <<pc, order, n>>
  <2> DEFINE at == <<src, cfg, key>>
  <2>1. at \in Nat \X Nat \X Nat /\ at[1] = src /\ at[2] = cfg /\ at[3] = key
    BY <1>3
  <2>2. GivenUp(src, cfg, key)
    BY <1>5, <1>7 DEF GivenUp
  <2> HIDE DEF at
  <2>3. at \in Runner!Hopeless(call)
    BY <1>1, <1>5, <2>1, <2>2, HopelessPlaces
  <2>4. ~ Behind(at)
    BY <1>3, <2>1 DEF Behind
  <2>5. ASSUME NEW op \in Runner!Work(call)
        PROVE  Through(op)' <=> Through(op)
    <3>1. ~ (op[1] = src /\ op[2] = cfg /\ op[3] = key)
      BY <1>1, <2>2, WorkPlaces
    <3>2. Behind(op)' <=> Behind(op)
      BY <1>1, <1>2, <1>3, <1>7, <3>1, WorkBounds DEF Behind
    <3> QED BY <1>2, <1>7, <3>2 DEF Through
  <2>6. ASSUME NEW it \in Runner!Hopeless(call)
        PROVE  Behind(it)' <=> Behind(it) \/ it = at
    <3>1. it \in Nat \X Nat \X Nat
      BY <1>1, HopelessBounds
    <3>2. it = at <=> it[1] = src /\ it[2] = cfg /\ it[3] = key
      BY <2>1, <3>1
    <3> QED BY <1>2, <1>3, <1>7, <3>1, <3>2 DEF Behind
  <2>7. failures' = Append(failures, <<at[1], at[2], at[3], 0, 0>>)
    BY <1>7, <2>1
  <2> QED BY <1>2, <1>4, <2>3, <2>4, <2>5, <2>6, <2>7, RefusePasses
<1> QED BY <1>6, <1>7 DEF OrderStages

\* A conditional that objects ends the operation, which is handled then.
LEMMA PreflightMaps ==
  ASSUME Inv, Progress, Preflight
  PROVE  Progress' /\ [Runner!Next]_(Runner!vars)
<1>1. /\ pc = "stage" /\ n <= Len(order)
      /\ UNCHANGED <<call, src, configs, cfg, key, order, result, failures>>
  BY DEF Preflight
<1>2. CASE pc' = "plugins" /\ UNCHANGED <<n, log>>
  <2>1. \A at : Behind(at)' <=> Behind(at)
    BY <1>1 DEF Behind
  <2>2. \A op : Through(op)' <=> Through(op)
    BY <1>1, <1>2, <2>1 DEF Through
  <2>3. /\ call.mode = "apply" => src' = 1
        /\ IF src' = 0 THEN configs' = <<>>
           ELSE src' \in DOMAIN Given /\ configs' = Given[src'].configs
    BY <1>1 DEF Progress
  <2> QED BY <1>1, <1>2, <2>1, <2>2, <2>3, StutterMaps
<1>3. CASE log' = Append(log, Skipped) /\ n' = n + 1 /\ UNCHANGED pc
  <2>1. Skipped \in Entry /\ Skipped.op = Op
    BY <1>1, LinesAre DEF Inv, TypeOK
  <2> QED BY <1>1, <1>3, <2>1, HandleMaps
<1> QED BY <1>2, <1>3 DEF Preflight, Skipped

\* A plugin that fails is a failure of the abstract run.
LEMMA RunPluginMaps ==
  ASSUME Inv, Progress, RunPlugin
  PROVE  Progress' /\ [Runner!Next]_(Runner!vars)
<1>1. /\ pc = "plugins" /\ plugin \in Nat
      /\ UNCHANGED <<call, pc, src, configs, cfg, key, order, n, result, log>>
  BY DEF RunPlugin, Inv, TypeOK
<1>2. CASE UNCHANGED failures
  <2>1. \A at : Behind(at)' <=> Behind(at)
    BY <1>1 DEF Behind
  <2>2. \A op : Through(op)' <=> Through(op)
    BY <1>1, <2>1 DEF Through
  <2>3. /\ call.mode = "apply" => src' = 1
        /\ IF src' = 0 THEN configs' = <<>>
           ELSE src' \in DOMAIN Given /\ configs' = Given[src'].configs
    BY <1>1 DEF Progress
  <2> QED BY <1>1, <1>2, <2>1, <2>2, <2>3, StutterMaps
<1>3. CASE failures' = Append(failures, <<src, cfg, key, order[n], plugin>>)
  <2>1. Progress' /\ Runner!Fail
    BY <1>1, <1>3, FailMaps
  <2> QED BY <2>1 DEF Runner!Next
<1> QED BY <1>2, <1>3 DEF RunPlugin

\* The last plugin of the chain ends the operation, which is handled then.
LEMMA EndStageMaps ==
  ASSUME Inv, Progress, EndStage
  PROVE  Progress' /\ [Runner!Next]_(Runner!vars)
<1>1. pc = "plugins" /\ n <= Len(order) /\ Plugins \in Nat
  BY ExecutorAssumption DEF EndStage, Inv, Phases
<1>2. /\ log' = Append(log, Ran) /\ n' = n + 1 /\ pc' = "stage"
      /\ UNCHANGED <<call, src, configs, cfg, key, order, result, failures>>
  BY DEF EndStage, Ran
<1>3. Ran \in Entry /\ Ran.op = Op
  BY <1>1, LinesAre DEF Inv, TypeOK
<1> QED BY <1>1, <1>2, <1>3, HandleMaps

\* A list is left when each of its operations is handled.
LEMMA EndListMaps ==
  ASSUME Inv, Progress, EndList
  PROVE  Progress' /\ [Runner!Next]_(Runner!vars)
<1>1. TypeOK
  BY DEF Inv
<1>2. /\ pc = "stage" /\ n > Len(order) /\ pc' = "config" /\ key' = key + 1
      /\ UNCHANGED <<call, src, configs, cfg, order, n, result, log, failures>>
  BY DEF EndList, history
<1>3. src \in Nat /\ cfg \in Nat /\ key \in Nat /\ n \in Nat /\ order \in Seq(Nat \ {0})
  BY <1>1 DEF TypeOK
<1>4. ASSUME NEW op \in Runner!Work(call)
      PROVE  Through(op)' <=> Through(op)
  <2>1. Behind(op)' <=> Behind(op) \/ (op[1] = src /\ op[2] = cfg /\ op[3] = key)
    BY <1>1, <1>2, <1>3, WorkBounds DEF Behind
  <2>2. ASSUME op[1] = src, op[2] = cfg, op[3] = key
        PROVE  Through(op)
    <3>1. op[4] \in DOMAIN List(src, cfg, key)
      BY <1>1, <2>2, WorkPlaces
    <3>2. PICK m \in DOMAIN order : order[m] = op[4]
      BY <1>2, <3>1, CurrentList
    <3>3. m < n
      BY <1>2, <1>3, <3>2
    <3> QED BY <1>2, <2>2, <3>2, <3>3 DEF Through
  <2>3. Through(op)' <=> Behind(op)'
    BY <1>2 DEF Through
  <2>4. Through(op) => Behind(op) \/ (op[1] = src /\ op[2] = cfg /\ op[3] = key)
    BY DEF Through
  <2>5. Behind(op) => Through(op)
    BY DEF Through
  <2> QED BY <2>1, <2>2, <2>3, <2>4, <2>5
<1>5. ASSUME NEW at \in Runner!Hopeless(call)
      PROVE  Behind(at)' <=> Behind(at)
  <2>1. ~ GivenUp(src, cfg, key) /\ cfg # 0
    BY <1>1, <1>2, CurrentList DEF TypeOK
  <2>2. ~ (at[1] = src /\ at[2] = cfg /\ at[3] = key)
    BY <1>1, <2>1, HopelessBounds
  <2> QED BY <1>1, <1>2, <1>3, <2>2, HopelessBounds DEF Behind
<1>6. /\ call.mode = "apply" => src' = 1
      /\ IF src' = 0 THEN configs' = <<>>
         ELSE src' \in DOMAIN Given /\ configs' = Given[src'].configs
  BY <1>2 DEF Progress
<1> QED BY <1>2, <1>4, <1>5, <1>6, StutterMaps

\* The call returns when nothing is left to handle or refuse.
LEMMA FinishMaps ==
  ASSUME Inv, Progress, errs \o stageErrs \o opErrs = failures, Finish
  PROVE  Progress' /\ [Runner!Next]_(Runner!vars)
<1>1. TypeOK /\ Phases
  BY DEF Inv
<1>2. /\ pc = "config" /\ cfg > Len(configs)
      /\ call.mode = "apply" \/ src = Len(call.paths)
      /\ UNCHANGED <<call, src, configs, cfg, key, log, failures>> /\ pc' = "done"
  BY DEF Finish, loops, history
<1>3. src \in Nat /\ cfg \in Nat /\ key \in Nat /\ configs \in Seq(Config)
  BY <1>1 DEF TypeOK
<1>4. \A s \in DOMAIN Given : s <= src
  <2>1. CASE call.mode = "apply"
    <3>1. src = 1
      BY <2>1 DEF Progress
    <3> QED BY <1>1, <2>1, <3>1, GivenType
  <2>2. CASE call.mode # "apply"
    BY <1>1, <1>2, <2>2, GivenType
  <2> QED BY <2>1, <2>2
<1>5. src # 0 => configs = Given[src].configs
  BY DEF Progress
<1>6. \A op \in Runner!Work(call) : Behind(op)
  BY <1>1, <1>2, <1>3, <1>4, <1>5, WorkBounds DEF Behind
<1>7. \A at \in Runner!Hopeless(call) : Behind(at)
  BY <1>1, <1>2, <1>3, <1>4, <1>5, HopelessBounds DEF Behind
<1>8. Handled = Runner!Work(call) /\ Refused = Runner!Hopeless(call)
  BY <1>6, <1>7 DEF Progress, Through
<1>9. errs = failures
  BY <1>1, <1>2, ConcatEmpty DEF TypeOK, Phases
<1>10. Handled' = Handled /\ Refused' = Refused
  BY <1>2 DEF Handled, Refused
<1>11. Runner!Finish
  <2>1. result' = IF failures # <<>> \/ Runner!Misused(call) THEN "error" ELSE "ok"
    BY <1>9 DEF Finish, Runner!Misused
  <2>2. result = "none"
    BY <1>1, <1>2 DEF Phases
  <2> QED BY <1>2, <1>8, <1>10, <2>1, <2>2 DEF Runner!Finish, Handled, Refused
<1>12. Progress'
  <2>1. \A at : Behind(at)' <=> Behind(at)
    BY <1>2 DEF Behind
  <2>2. \A op : Through(op)' <=> Through(op)
    BY <1>2, <2>1 DEF Through
  <2> QED BY <1>2, <1>10, <2>1, <2>2, CallKept DEF Progress
<1> QED BY <1>11, <1>12 DEF Runner!Next

\* A step of the executor is a step of the abstract run, or none.
LEMMA NextMaps ==
  ASSUME Inv, Progress, errs \o stageErrs \o opErrs = failures, [Next]_vars
  PROVE  Progress' /\ [Runner!Next]_(Runner!vars)
<1>1. CASE UNCHANGED vars
  <2>1. UNCHANGED <<call, pc, src, configs, cfg, key, order, n, result, log, failures>>
    BY <1>1 DEF vars, loops, history
  <2>2. \A at : Behind(at)' <=> Behind(at)
    BY <2>1 DEF Behind
  <2>3. \A op : Through(op)' <=> Through(op)
    BY <2>1, <2>2 DEF Through
  <2>4. /\ call.mode = "apply" => src' = 1
        /\ IF src' = 0 THEN configs' = <<>>
           ELSE src' \in DOMAIN Given /\ configs' = Given[src'].configs
    BY <2>1 DEF Progress
  <2> QED BY <2>1, <2>2, <2>3, <2>4, StutterMaps
<1> QED BY <1>1, NextSourceMaps, NextConfigMaps, OrderStagesMaps, PreflightMaps,
           RunPluginMaps, EndStageMaps, EndListMaps, FinishMaps DEF Next

\* Before the first step nothing is handled or refused, and nothing lies
\* behind the loops.
LEMMA InitMaps == Init => Progress /\ Runner!Init
<1> SUFFICES ASSUME Init
             PROVE  Progress /\ Runner!Init
  OBVIOUS
<1>1. TypeOK
  BY InitInv DEF Inv
<1>2. /\ call \in Invocations /\ result = "none" /\ log = <<>> /\ failures = <<>>
      /\ pc = "config" /\ cfg = 1 /\ key = 1
      /\ src = IF call.mode = "apply" THEN 1 ELSE 0
      /\ configs = IF call.mode = "apply" THEN call.preloaded ELSE <<>>
  BY DEF Init
<1>3. Handled = {} /\ Refused = {}
  BY <1>2 DEF Handled, Refused
<1>4. \A op \in Runner!Work(call) : ~ Through(op)
  BY <1>1, <1>2, WorkBounds DEF Through, Behind
<1>5. ASSUME NEW at \in Runner!Hopeless(call)
      PROVE  ~ Behind(at)
  <2>1. CASE call.mode = "apply"
    <3>1. at[1] = 1 /\ Given[1].ok
      BY <1>1, <2>1, GivenType, HopelessBounds
    <3> QED BY <1>1, <1>2, <2>1, <3>1, HopelessBounds DEF Behind
  <2>2. CASE call.mode # "apply"
    BY <1>1, <1>2, <2>2, HopelessBounds DEF Behind
  <2> QED BY <2>1, <2>2
<1>6. IF src = 0 THEN configs = <<>> ELSE src \in DOMAIN Given /\ configs = Given[src].configs
  BY <1>1, <1>2, GivenType
<1>7. Progress
  BY <1>2, <1>3, <1>4, <1>5, <1>6 DEF Progress
<1>8. Runner!Init
  BY <1>2, <1>3 DEF Runner!Init, Handled, Refused
<1> QED BY <1>7, <1>8

\* The executor is a safe implementation of StageRunner: whatever its loops do
\* is handling an operation that waits for nothing, failing, refusing what is
\* hopeless, or returning once all is done, with an error exactly when
\* something failed or the call was misused.
THEOREM PromiseSafe == Spec => Runner!Safety
<1> DEFINE Kept == errs \o stageErrs \o opErrs = failures
<1>1. Init => Kept
  BY DEF Init
<1>2. Inv /\ Kept /\ [Next]_vars => Kept'
  BY NextErrors
<1>3. Inv /\ Kept /\ Progress /\ [Next]_vars => Progress' /\ [Runner!Next]_(Runner!vars)
  BY NextMaps
<1> HIDE DEF Kept
<1> QED BY InitInv, NextInv, InitMaps, <1>1, <1>2, <1>3, PTL DEF Spec, Runner!Safety

-----------------------------------------------------------------------------

\* Stages that wait for each other through their `after:` keys.
Knot(list, knot) ==
  /\ knot \subseteq {i \in DOMAIN list : Explicit(list, i)} /\ knot # {}
  /\ \A i \in knot : \E j \in knot \ {i} : list[j].name \in list[i].after

\* A list with a knot has no order: the first of the knot in it would have to
\* be behind another.
LEMMA KnotHasNoOrder ==
  ASSUME NEW list \in Seq(Stage), NEW knot, Knot(list, knot), NEW o \in Orders(list)
  PROVE  FALSE
<1> DEFINE places == {x \in DOMAIN o : o[x] \in knot}
<1>1. /\ DOMAIN o = 1 .. Len(list) /\ DOMAIN list = 1 .. Len(list)
      /\ Len(list) \in Nat
  BY OrderType
<1>2. \A i \in DOMAIN list : \E x \in DOMAIN o : o[x] = i
  BY <1>1 DEF Orders, Bijection, Surjection
<1>3. places \subseteq Nat /\ places # {}
  <2>1. \E i \in knot : i \in DOMAIN list
    BY DEF Knot
  <2> QED BY <1>1, <1>2, <2>1
<1>4. PICK x \in places : \A m \in places : x <= m
  BY <1>3, Least
<1>5. PICK j \in knot \ {o[x]} : list[j].name \in list[o[x]].after
  BY DEF Knot
<1>6. PICK m \in DOMAIN o : o[m] = j
  BY <1>2 DEF Knot
<1>7. <<o[m], o[x]>> \in Edges(list)
  BY <1>5, <1>6 DEF Knot, Edges, AfterEdges, Pairs
<1>8. m < x
  BY <1>7, OrderHonoursEdge
<1> QED BY <1>1, <1>4, <1>5, <1>6, <1>8

\* Without a knot some stage of any set of them waits for none of the set.
LEMMA SourceExists ==
  ASSUME NEW list \in Seq(Stage), \A knot : ~ Knot(list, knot),
         NEW rest, rest \subseteq DOMAIN list, rest # {}
  PROVE  \E i \in rest : \A j \in rest : <<j, i>> \notin Edges(list)
<1> SUFFICES ASSUME \A i \in rest : \E j \in rest : <<j, i>> \in Edges(list)
             PROVE  FALSE
  OBVIOUS
<1> DEFINE free == {i \in rest : ~ Explicit(list, i)}
<1>1. CASE free = {}
  <2>1. ASSUME NEW i \in rest
        PROVE  \E j \in rest \ {i} : list[j].name \in list[i].after
    <3>1. PICK j \in rest : <<j, i>> \in Edges(list)
      OBVIOUS
    <3>2. Explicit(list, i)
      BY <1>1
    <3> QED BY <3>1, <3>2 DEF Edges, AfterEdges, LexicalEdges, Pairs
  <2> QED BY <1>1, <2>1 DEF Knot
<1>2. CASE free # {}
  <2>1. DOMAIN list = 1 .. Len(list) /\ Len(list) \in Nat
    OBVIOUS
  <2>2. free \subseteq Nat
    BY <2>1
  <2>3. PICK i \in free : \A j \in free : i <= j
    BY <1>2, <2>2, Least
  <2>4. PICK j \in rest : <<j, i>> \in Edges(list)
    OBVIOUS
  <2>5. list[i].after = {}
    BY DEF Explicit
  <2>6. j < i /\ ~ Explicit(list, j)
    BY <2>4, <2>5 DEF Edges, AfterEdges, LexicalEdges, Pairs
  <2> QED BY <2>1, <2>3, <2>6
<1> QED BY <1>1, <1>2

\* The beginning of an order: stages of which none is there twice, and each
\* behind all that it has to wait for.
Begun(list, begun, size) ==
  /\ begun \in Injection(1 .. size, DOMAIN list)
  /\ \A x \in 1 .. size : \A j \in DOMAIN list :
       <<j, begun[x]>> \in Edges(list) => \E m \in 1 .. x - 1 : begun[m] = j

\* Without a knot the beginning of an order that leaves out a stage can be
\* continued.
LEMMA BegunGoesOn ==
  ASSUME NEW list \in Seq(Stage), \A knot : ~ Knot(list, knot),
         NEW size \in Nat, NEW begun, Begun(list, begun, size),
         NEW left \in DOMAIN list, \A x \in 1 .. size : begun[x] # left
  PROVE  \E longer : Begun(list, longer, size + 1)
<1> DEFINE rest == {i \in DOMAIN list : \A x \in 1 .. size : begun[x] # i}
<1>1. PICK i \in rest : \A j \in rest : <<j, i>> \notin Edges(list)
  <2>1. rest \subseteq DOMAIN list /\ rest # {}
    OBVIOUS
  <2> HIDE DEF rest
  <2> QED BY <2>1, SourceExists
<1> DEFINE longer == [x \in 1 .. size + 1 |-> IF x = size + 1 THEN i ELSE begun[x]]
<1>2. /\ begun \in [1 .. size -> DOMAIN list]
      /\ \A m, x \in 1 .. size : begun[m] = begun[x] => m = x
  BY DEF Begun, Injection, IsInjective
<1>3. /\ longer \in [1 .. size + 1 -> DOMAIN list] /\ longer[size + 1] = i
      /\ \A x \in 1 .. size : longer[x] = begun[x]
  BY <1>2
<1>4. \A x \in 1 .. size + 1 : x \in 1 .. size \/ x = size + 1
  OBVIOUS
<1> HIDE DEF longer
<1>5. longer \in Injection(1 .. size + 1, DOMAIN list)
  BY <1>2, <1>3, <1>4 DEF Injection, IsInjective
<1>6. ASSUME NEW x \in 1 .. size + 1, NEW j \in DOMAIN list,
             <<j, longer[x]>> \in Edges(list)
      PROVE  \E m \in 1 .. x - 1 : longer[m] = j
  <2>1. CASE x \in 1 .. size
    <3>1. PICK m \in 1 .. x - 1 : begun[m] = j
      BY <1>3, <1>6, <2>1 DEF Begun
    <3>2. m \in 1 .. size
      BY <2>1
    <3> QED BY <1>3, <3>1, <3>2
  <2>2. CASE x = size + 1
    <3>1. j \notin rest
      BY <1>1, <1>3, <1>6, <2>2
    <3>2. PICK m \in 1 .. size : begun[m] = j
      BY <3>1
    <3> QED BY <1>3, <2>2, <3>2
  <2> QED BY <1>4, <2>1, <2>2
<1> QED BY <1>5, <1>6 DEF Begun

\* A list without a knot has an order: the longest beginning is one.
LEMMA NoKnotHasOrder ==
  ASSUME NEW list \in Seq(Stage), \A knot : ~ Knot(list, knot)
  PROVE  Orders(list) # {}
<1> DEFINE size == Len(list)
           sizes == {x \in 0 .. size : \E begun : Begun(list, begun, x)}
<1>1. DOMAIN list = 1 .. size /\ size \in Nat
  OBVIOUS
<1>2. 0 \in sizes
  <2>1. <<>> \in Injection(1 .. 0, DOMAIN list)
    BY DEF Injection, IsInjective
  <2> QED BY <1>1, <2>1 DEF Begun
<1>3. sizes \subseteq 0 .. size
  OBVIOUS
<1>4. PICK top \in sizes : \A x \in sizes : x <= top
  BY <1>1, <1>2, <1>3, Greatest
<1>5. PICK begun : Begun(list, begun, top)
  OBVIOUS
<1>6. /\ begun \in [1 .. top -> DOMAIN list]
      /\ \A m, x \in 1 .. top : begun[m] = begun[x] => m = x
  BY <1>5 DEF Begun, Injection, IsInjective
<1>7. /\ top \in Nat /\ top <= size
      /\ IsFiniteSet(1 .. top) /\ Cardinality(1 .. top) = top
      /\ IsFiniteSet(1 .. size) /\ Cardinality(1 .. size) = size
  <2>1. \A b \in Nat : IsFiniteSet(1 .. b) /\ Cardinality(1 .. b) = b
    BY FS_Interval
  <2>2. top \in Nat /\ top <= size
    BY <1>1, <1>3
  <2> QED BY <1>1, <2>1, <2>2
<1>8. \A x \in 0 .. size : (\E longer : Begun(list, longer, x)) => x <= top
  BY <1>4
<1> HIDE DEF sizes, size
<1>9. \A i \in DOMAIN list : \E x \in 1 .. top : begun[x] = i
  <2>1. CASE top = size
    <3>1. begun \in Injection(1 .. top, 1 .. size)
      BY <1>1, <1>5 DEF Begun
    <3>2. begun \in Surjection(1 .. top, 1 .. size)
      BY <1>7, <2>1, <3>1, FS_Injection
    <3> QED BY <1>1, <3>2 DEF Surjection
  <2>2. CASE top # size
    <3>1. top \in Nat /\ top + 1 \in 0 .. size /\ ~ (top + 1 <= top)
      BY <1>1, <1>7, <2>2
    <3>2. \A longer : ~ Begun(list, longer, top + 1)
      BY <1>8, <3>1
    <3> QED BY <1>5, <3>1, <3>2, BegunGoesOn
  <2> QED BY <2>1, <2>2
<1>10. top = size
  <2>1. begun \in Surjection(1 .. top, 1 .. size)
    BY <1>1, <1>6, <1>9 DEF Surjection
  <2>2. Cardinality(1 .. top) >= Cardinality(1 .. size)
    BY <1>7, <2>1, FS_Surjection
  <2> QED BY <1>1, <1>7, <2>2
<1>11. begun \in Bijection(DOMAIN list, DOMAIN list)
  <2>1. begun \in Injection(DOMAIN list, DOMAIN list)
    BY <1>1, <1>5, <1>10 DEF Begun
  <2>2. begun \in Surjection(DOMAIN list, DOMAIN list)
    BY <1>1, <1>6, <1>9, <1>10 DEF Surjection
  <2> QED BY <2>1, <2>2 DEF Bijection
<1>12. Respects(begun, Edges(list))
  <2> SUFFICES ASSUME NEW a \in 1 .. top, NEW b \in 1 .. top,
                      <<begun[a], begun[b]>> \in Edges(list)
               PROVE  a < b
    BY <1>6 DEF Respects
  <2>1. PICK m \in 1 .. b - 1 : begun[m] = begun[a]
    BY <1>5, <1>6 DEF Begun
  <2>2. m \in 1 .. top /\ m < b
    BY <1>7
  <2> QED BY <1>6, <2>1, <2>2
<1> QED BY <1>11, <1>12 DEF Orders

\* A plan is an order of a list of stages, and a list is refused when it has
\* none.
Planned ==
  /\ stages \in Seq(Stage)
  /\ \/ plan.status = "none"
     \/ plan.status = "ordered" /\ plan.order \in Orders(stages)
     \/ plan.status = "cycle" /\ Orders(stages) = {}

\* Nothing is planned at the start.
LEMMA InitPlanned == PlanInit => Planned
<1> SUFFICES ASSUME PlanInit
             PROVE  Planned
  OBVIOUS
<1>1. PICK size \in 0 .. MaxStages : stages \in [1 .. size -> Stage]
  BY DEF PlanInit
<1>2. size \in Nat
  OBVIOUS
<1>3. stages \in Seq(Stage)
  BY <1>1, <1>2
<1> QED BY <1>3 DEF PlanInit, NoPlan, Planned

\* Every step plans by insertion_order or refuses.
LEMMA NextPlanned == Planned /\ [Build]_planVars => Planned'
<1> SUFFICES ASSUME Planned, [Build]_planVars
             PROVE  Planned'
  OBVIOUS
<1>1. CASE Build
  <2>1. stages' = stages
    BY <1>1 DEF Build
  <2>2. \/ plan'.status = "ordered" /\ plan'.order \in Orders(stages)
        \/ plan'.status = "cycle" /\ Orders(stages) = {}
    BY <1>1 DEF Build, NoPlan
  <2> QED BY <2>1, <2>2 DEF Planned
<1>2. CASE UNCHANGED planVars
  BY <1>2 DEF planVars, Planned
<1> QED BY <1>1, <1>2

\* What a plan is, at any time.
LEMMA AlwaysPlanned == Planning => []Planned
BY InitPlanned, NextPlanned, PTL DEF Planning

\* In a plan every stage has one place.
LEMMA PositionOf ==
  ASSUME Planned, plan.status = "ordered", NEW i \in DOMAIN stages
  PROVE  /\ plan.order \in Orders(stages)
         /\ Position(i) \in DOMAIN plan.order
         /\ plan.order[Position(i)] = i
<1>1. plan.order \in Orders(stages)
  BY DEF Planned
<1>2. DOMAIN plan.order = DOMAIN stages
  BY <1>1 DEF Orders, Bijection, Surjection
<1>3. \E l \in DOMAIN plan.order : plan.order[l] = i
  BY <1>1, <1>2 DEF Orders, Bijection, Surjection
<1> QED BY <1>1, <1>3 DEF Position

\* Every stage is planned behind all stages that its `after:` names.
THEOREM PlansHonourAfter == Planning => []AfterHonoured
<1>1. Planned => AfterHonoured
  <2> SUFFICES ASSUME Planned, plan.status = "ordered",
                      NEW i \in DOMAIN stages, NEW j \in DOMAIN stages,
                      i # j, stages[j].name \in stages[i].after
               PROVE  Position(j) < Position(i)
    BY DEF AfterHonoured
  <2>1. <<j, i>> \in Edges(stages)
    BY DEF Edges, AfterEdges, Pairs
  <2>2. stages \in Seq(Stage)
    BY DEF Planned
  <2> QED BY <2>1, <2>2, PositionOf, OrderHonoursEdge
<1> QED BY AlwaysPlanned, <1>1, PTL

\* Stages without `after:` are planned in the order of their declaration.
THEOREM PlansKeepDeclaration == Planning => []DeclarationOrderKept
<1>1. Planned => DeclarationOrderKept
  <2> SUFFICES ASSUME Planned, plan.status = "ordered",
                      NEW i \in DOMAIN stages, NEW j \in DOMAIN stages, i < j,
                      ~ Explicit(stages, i), ~ Explicit(stages, j)
               PROVE  Position(i) < Position(j)
    BY DEF DeclarationOrderKept
  <2>1. stages \in Seq(Stage)
    BY DEF Planned
  <2>2. /\ plan.order \in Orders(stages)
        /\ Position(i) \in DOMAIN plan.order /\ plan.order[Position(i)] = i
        /\ Position(j) \in DOMAIN plan.order /\ plan.order[Position(j)] = j
    BY PositionOf
  <2> QED BY <2>1, <2>2, OrderKeepsDeclaration
<1> QED BY AlwaysPlanned, <1>1, PTL

\* A list is refused if and only if some of its stages wait for each other
\* through their `after:` keys: an implicit chain of any length, across any
\* other stages, closes no cycle.
THEOREM OnlyKnotsRefused == Planning => []RefusedOnlyForAfterCycle
<1>1. Planned => RefusedOnlyForAfterCycle
  <2> SUFFICES ASSUME Planned, plan.status # "none"
               PROVE  plan.status = "cycle" <=> \E knot : Knot(stages, knot)
    BY DEF RefusedOnlyForAfterCycle, Knot
  <2>1. stages \in Seq(Stage)
    BY DEF Planned
  <2>2. Orders(stages) = {} <=> \E knot : Knot(stages, knot)
    BY <2>1, KnotHasNoOrder, NoKnotHasOrder
  <2>3. plan.status = "ordered" => Orders(stages) # {} /\ plan.status # "cycle"
    BY DEF Planned
  <2> QED BY <2>2, <2>3 DEF Planned
<1> QED BY AlwaysPlanned, <1>1, PTL

-----------------------------------------------------------------------------
(* UnpackImage: what the extraction of an entry leaves of a tree, and that   *)
(* the layers are united.                                                    *)

\* A path is a directory's.
IsDir(t, p) == p = <<>> \/ (p \in DOMAIN t /\ t[p] = Dir)

\* A node is a directory, a file or a link.
LEMMA NodeIs ==
  ASSUME NEW node \in Node
  PROVE  /\ node.kind \in {"dir", "file", "link"}
         /\ node.kind = "dir" <=> node = Dir
         /\ node.kind = "link" => node.to \in Path
         /\ node.kind = "file" => node.owner \in Nat
<1>1. CASE node = Dir
  BY <1>1 DEF Dir
<1>2. CASE node \in FileNode
  BY <1>2 DEF FileNode, Dir
<1>3. CASE node \in LinkNode
  BY <1>3 DEF LinkNode, Dir
<1> QED BY <1>1, <1>2, <1>3 DEF Node

\* What stands at a path.
LEMMA KindIs ==
  ASSUME NEW t, Tree(t), NEW p \in Seq(Names)
  PROVE  /\ Kind(t, p) \in {"dir", "file", "link", "none"}
         /\ Kind(t, p) = "dir" <=> IsDir(t, p)
         /\ Kind(t, p) = "none" <=> p # <<>> /\ p \notin DOMAIN t
         /\ Kind(t, p) = "link" <=> p \in DOMAIN t /\ t[p].kind = "link"
         /\ Kind(t, p) = "file" <=> p \in DOMAIN t /\ t[p].kind = "file"
<1>1. <<>> \notin DOMAIN t
  BY DEF Tree, Path
<1>2. p \in DOMAIN t => /\ t[p].kind \in {"dir", "file", "link"}
                        /\ t[p].kind = "dir" <=> t[p] = Dir
  BY NodeIs DEF Tree
<1>3. CASE p = <<>>
  BY <1>1, <1>3 DEF Kind, IsDir
<1>4. CASE p # <<>> /\ p \in DOMAIN t
  BY <1>2, <1>4 DEF Kind, IsDir
<1>5. CASE p # <<>> /\ p \notin DOMAIN t
  BY <1>5 DEF Kind, IsDir
<1> QED BY <1>3, <1>4, <1>5

\* Above a path that is there, everything is a directory.
LEMMA TreeAbove ==
  ASSUME NEW t, Tree(t), NEW p \in DOMAIN t, NEW q \in Seq(Names), IsPrefix(q, p), q # p
  PROVE  IsDir(t, q)
<1>1. p \in Seq(Names) /\ p # <<>> /\ \A r \in DOMAIN t : r \in Seq(Names)
  BY DEF Tree, Path
<1> DEFINE part(l) == SubSeq(p, 1, l)
           missing == {l \in 1 .. Len(p) : part(l) \notin DOMAIN t}
<1>2. /\ Len(p) \in Nat /\ part(Len(p)) = p
      /\ \A l \in 1 .. Len(p) : part(l) \in Seq(Names) /\ Len(part(l)) = l
  BY <1>1
<1>3. \A l \in 1 .. Len(p) : l # 1 => Front(part(l)) = part(l - 1)
  BY <1>1, <1>2 DEF Front
<1> HIDE DEF part
<1>4. missing = {}
  <2>1. SUFFICES ASSUME missing # {} PROVE FALSE
    OBVIOUS
  <2>2. missing \subseteq 0 .. Len(p)
    OBVIOUS
  <2>3. PICK l \in missing : \A k \in missing : k <= l
    BY <1>2, <2>1, <2>2, Greatest
  <2>4. l # Len(p) /\ l \in 1 .. Len(p)
    BY <1>2
  <2>5. l + 1 \in 1 .. Len(p) /\ l + 1 \notin missing
    BY <1>2, <2>3, <2>4
  <2>6. part(l + 1) \in DOMAIN t /\ Len(part(l + 1)) > 1 /\ Front(part(l + 1)) = part(l)
    BY <1>2, <1>3, <2>4, <2>5
  <2>7. part(l) \in DOMAIN t
    BY <2>6 DEF Tree
  <2> QED BY <2>7
<1>5. CASE q # <<>>
  <2>1. Len(q) \in 1 .. Len(p) /\ \A k \in 1 .. Len(q) : q[k] = p[k]
    BY <1>1, <1>5, PrefixIs
  <2>2. q = part(Len(q))
    BY <1>1, <2>1 DEF part
  <2>3. Len(q) # Len(p)
    BY <1>2, <2>2
  <2>4. Len(q) + 1 \in 1 .. Len(p)
    BY <1>2, <2>1, <2>3
  <2>5. /\ part(Len(q) + 1) \in DOMAIN t /\ Len(part(Len(q) + 1)) > 1
        /\ Front(part(Len(q) + 1)) = q
    BY <1>2, <1>3, <1>4, <2>1, <2>2, <2>4
  <2> QED BY <2>5 DEF Tree, IsDir
<1> QED BY <1>5 DEF IsDir

-----------------------------------------------------------------------------

\* The links on the way to a path.
Links(t, p) == {q \in Prefixes(p) : Kind(t, q) = "link"}

Via(t, p) == CHOOSE q \in Links(t, p) : TRUE

\* A path leads where the link on the way to it does.
LEMMA LeadsIs ==
  ASSUME NEW t, NEW p
  PROVE  Leads(t, p) = IF Links(t, p) = {} THEN p
                       ELSE t[Via(t, p)].to \o SubSeq(p, Len(Via(t, p)) + 1, Len(p))
BY DEF Leads, Links, Via

\* What follows the first elements of a sequence, but for the last.
LEMMA RestIs ==
  ASSUME NEW S, NEW s \in Seq(S), NEW to \in Seq(S), s # <<>>, NEW k \in 0 .. Len(s) - 1
  PROVE  to \o SubSeq(s, k + 1, Len(s))
           = Append(to \o SubSeq(Front(s), k + 1, Len(Front(s))), Last(s))
<1> DEFINE len == Len(s)
           a == SubSeq(s, k + 1, len)
           b == SubSeq(Front(s), k + 1, Len(Front(s)))
<1>1. len \in Nat \ {0} /\ Last(s) = s[len] /\ s[len] \in S
  BY DEF Last
<1>2. /\ Front(s) \in Seq(S) /\ Len(Front(s)) = len - 1
      /\ \A i \in 1 .. len - 1 : Front(s)[i] = s[i]
  <2>1. /\ Front(s) \in Seq(S) /\ Len(Front(s)) = len - 1 /\ IsPrefix(Front(s), s)
    BY FrontIs
  <2> QED BY <2>1, PrefixIs
<1>3. a \in Seq(S) /\ Len(a) = len - k /\ \A i \in 1 .. len - k : a[i] = s[k + i]
  BY <1>1
<1>4. b \in Seq(S) /\ Len(b) = len - 1 - k /\ \A i \in 1 .. len - 1 - k : b[i] = s[k + i]
  <2>1. k + 1 \in 1 .. Len(Front(s)) + 1
    BY <1>1, <1>2
  <2>2. /\ b \in Seq(S) /\ Len(b) = Len(Front(s)) - k
        /\ \A i \in 1 .. Len(Front(s)) - k : b[i] = Front(s)[k + i]
    BY <1>2, <2>1
  <2> QED BY <1>1, <1>2, <2>2
<1>5. len - k \in Nat \ {0} /\ k \in Nat
  BY <1>1
<1> DEFINE last == Last(s)
<1> HIDE DEF len, a, b, last
<1>6. last \in S /\ a[len - k] = last
  BY <1>1, <1>3, <1>5 DEF last
<1>7. a = Append(b, last)
  <2>1. /\ Append(b, last) \in Seq(S) /\ Len(Append(b, last)) = len - k
        /\ Append(b, last)[len - k] = last
        /\ \A i \in 1 .. len - 1 - k : Append(b, last)[i] = b[i]
    <3>1. /\ Append(b, last) \in Seq(S) /\ Len(Append(b, last)) = Len(b) + 1
          /\ Append(b, last)[Len(b) + 1] = last
          /\ \A i \in 1 .. Len(b) : Append(b, last)[i] = b[i]
      BY <1>4, <1>6
    <3>2. Len(b) + 1 = len - k
      BY <1>1, <1>4, <1>5
    <3> QED BY <1>4, <3>1, <3>2
  <2>2. \A i \in 1 .. len - k : a[i] = Append(b, last)[i]
    BY <1>1, <1>3, <1>4, <1>5, <1>6, <2>1
  <2> QED BY <1>3, <2>1, <2>2
<1>8. to \o Append(b, last) = Append(to \o b, last)
  BY <1>4, <1>6
<1> QED BY <1>7, <1>8 DEF len, a, b, last

\* A path leads into the tree's names.
LEMMA LeadsType ==
  ASSUME NEW t, Tree(t), NEW p \in Seq(Names)
  PROVE  /\ Leads(t, p) \in Seq(Names)
         /\ Links(t, p) = {} => Leads(t, p) = p
<1> DEFINE l == Via(t, p)
<1>1. Leads(t, p) = IF Links(t, p) = {} THEN p ELSE t[l].to \o SubSeq(p, Len(l) + 1, Len(p))
  BY LeadsIs
<1>2. CASE Links(t, p) # {}
  <2>1. l \in Prefixes(p) /\ Kind(t, l) = "link"
    BY <1>2 DEF Links, Via
  <2>2. l \in Seq(Names) /\ IsPrefix(l, p)
    BY <2>1, PrefixesAre
  <2>3. t[l].to \in Seq(Names)
    BY <2>1, <2>2, KindIs, NodeIs DEF Tree, Path
  <2>4. SubSeq(p, Len(l) + 1, Len(p)) \in Seq(Names)
    <3>1. Len(l) \in Nat
      BY <2>2
    <3> QED BY <3>1
  <2> HIDE DEF l
  <2>5. t[l].to \o SubSeq(p, Len(l) + 1, Len(p)) \in Seq(Names)
    BY <2>3, <2>4
  <2> QED BY <1>1, <1>2, <2>5
<1> QED BY <1>1, <1>2

\* The last part of a path that is no link leads on from where the others do.
LEMMA LeadsOn ==
  ASSUME NEW t, Tree(t), NEW p \in Seq(Names), p # <<>>
  PROVE  /\ At(t, p) \in Path /\ Front(At(t, p)) = Leads(t, Front(p))
         /\ Kind(t, p) # "link" => Leads(t, p) = At(t, p)
         /\ Kind(t, p) = "link" => Links(t, Front(p)) = {} /\ At(t, p) = p
<1>1. /\ Front(p) \in Seq(Names) /\ Len(Front(p)) = Len(p) - 1
      /\ \A s \in Seq(Names) : IsPrefix(s, Front(p)) <=> IsPrefix(s, p) /\ s # p
  BY FrontIs
<1>2. Last(p) \in Names /\ p = Append(Front(p), Last(p)) /\ Len(p) \in Nat \ {0}
  BY DEF Last, Front
<1>3. Leads(t, Front(p)) \in Seq(Names)
  BY <1>1, LeadsType
<1>4. At(t, p) = Append(Leads(t, Front(p)), Last(p))
  BY DEF At
<1>5. At(t, p) \in Path /\ Front(At(t, p)) = Leads(t, Front(p))
  BY <1>2, <1>3, <1>4, AppendIs DEF Path
<1>6. Links(t, Front(p)) = Links(t, p) \ {p}
  BY <1>1, PrefixesAre DEF Links
<1>7. ASSUME Kind(t, p) # "link"
      PROVE  Leads(t, p) = At(t, p)
  <2>1. Links(t, Front(p)) = Links(t, p)
    BY <1>6, <1>7 DEF Links
  <2>2. CASE Links(t, p) = {}
    BY <1>1, <1>2, <1>4, <2>1, <2>2, LeadsType
  <2>3. CASE Links(t, p) # {}
    <3> DEFINE l == Via(t, p)
               to == t[l].to
    <3>1. /\ Leads(t, p) = to \o SubSeq(p, Len(l) + 1, Len(p))
          /\ Leads(t, Front(p)) = to \o SubSeq(Front(p), Len(l) + 1, Len(Front(p)))
      <4>1. Via(t, Front(p)) = l
        BY <2>1 DEF Via
      <4> QED BY <2>1, <2>3, <4>1, LeadsIs
    <3>2. l \in Links(t, Front(p))
      BY <2>1, <2>3 DEF Via
    <3>3. l \in Seq(Names) /\ IsPrefix(l, Front(p)) /\ Kind(t, l) = "link"
      BY <1>1, <3>2, PrefixesAre DEF Links
    <3>4. Len(l) \in 0 .. Len(p) - 1
      BY <1>1, <1>2, <3>3, PrefixIs
    <3>5. to \in Seq(Names)
      BY <3>3, KindIs, NodeIs DEF Tree, Path
    <3> HIDE DEF l, to
    <3> QED BY <1>4, <3>1, <3>4, <3>5, RestIs
  <2> QED BY <2>2, <2>3
<1>8. ASSUME Kind(t, p) = "link"
      PROVE  Links(t, Front(p)) = {} /\ At(t, p) = p
  <2>1. p \in DOMAIN t
    BY <1>8, KindIs
  <2>2. ASSUME NEW q \in Links(t, Front(p))
        PROVE  FALSE
    <3>1. q \in Seq(Names) /\ IsPrefix(q, p) /\ q # p /\ Kind(t, q) = "link"
      BY <1>1, <2>2, PrefixesAre DEF Links
    <3>2. Kind(t, q) = "dir"
      BY <2>1, <3>1, TreeAbove, KindIs
    <3> QED BY <3>1, <3>2
  <2>3. Links(t, Front(p)) = {}
    BY <2>2
  <2> QED BY <1>1, <1>2, <1>4, <2>3, LeadsType
<1> QED BY <1>5, <1>7, <1>8

\* Where mkdir_all goes through it finds a directory, or nothing yet.
LEMMA OnTheWayDown ==
  ASSUME NEW t, Tree(t), NEW p \in Seq(Names), CanMkdir(t, p), NEW q \in Prefixes(p)
  PROVE  /\ q \in Seq(Names) /\ Kind(t, Leads(t, q)) \in {"dir", "none"}
         /\ Kind(t, Leads(t, q)) = "none" => q # <<>> /\ Leads(t, q) = At(t, q)
<1>1. q \in Seq(Names) /\ (Kind(t, Leads(t, q)) = "dir" \/ Kind(t, At(t, q)) = "none")
  BY PrefixesAre DEF CanMkdir
<1>2. CASE q = <<>>
  <2>1. Kind(t, At(t, q)) = "dir"
    BY <1>1, <1>2, KindIs DEF At, IsDir
  <2> QED BY <1>1, <1>2, <2>1
<1>3. CASE q # <<>> /\ Kind(t, q) = "link"
  <2>1. At(t, q) = q
    BY <1>1, <1>3, LeadsOn
  <2> QED BY <1>1, <1>3, <2>1
<1>4. CASE q # <<>> /\ Kind(t, q) # "link"
  BY <1>1, <1>4, LeadsOn
<1> QED BY <1>1, <1>2, <1>3, <1>4

\* mkdir_all leaves a tree, in which the path leads to a directory and the links
\* are those that were there.
LEMMA DirsMade ==
  ASSUME NEW t, Tree(t), NEW p \in Seq(Names), CanMkdir(t, p)
  PROVE  /\ Tree(WithDirs(t, p)) /\ IsDir(WithDirs(t, p), Leads(WithDirs(t, p), p))
         /\ DOMAIN WithDirs(t, p) = DOMAIN t \cup ({Leads(t, r) : r \in Prefixes(p)} \ {<<>>})
         /\ \A q \in DOMAIN t : WithDirs(t, p)[q] = t[q]
         /\ \A q \in DOMAIN WithDirs(t, p) \ DOMAIN t : WithDirs(t, p)[q] = Dir
         /\ \A q \in Seq(Names) : Leads(WithDirs(t, p), q) = Leads(t, q)
<1> DEFINE u == WithDirs(t, p)
           new == {Leads(t, r) : r \in Prefixes(p)} \ {<<>>}
<1>1. /\ DOMAIN u = DOMAIN t \cup new
      /\ \A q \in DOMAIN t : u[q] = t[q]
      /\ \A q \in DOMAIN u \ DOMAIN t : u[q] = Dir
  BY DEF WithDirs
<1>2. Dir \in Node
  BY DEF Node
<1>3. u \in [DOMAIN u -> Node]
  BY <1>2 DEF WithDirs, Tree
<1> HIDE DEF u
<1>4. ASSUME NEW r \in Prefixes(p)
      PROVE  IsDir(u, Leads(t, r)) /\ r \in Seq(Names) /\ Leads(t, r) \in Seq(Names)
  <2>1. r \in Seq(Names) /\ Kind(t, Leads(t, r)) \in {"dir", "none"}
    BY <1>4, OnTheWayDown
  <2>2. Leads(t, r) \in Seq(Names)
    BY <2>1, LeadsType
  <2>3. IsDir(t, Leads(t, r)) \/ (Leads(t, r) # <<>> /\ Leads(t, r) \notin DOMAIN t)
    BY <2>1, <2>2, KindIs
  <2> QED BY <1>1, <1>4, <2>1, <2>2, <2>3 DEF IsDir
<1>5. ASSUME NEW q \in DOMAIN u
      PROVE  /\ q \in Path /\ u[q] \in Node
             /\ Len(q) > 1 => Front(q) \in DOMAIN u /\ u[Front(q)] = Dir
  <2>1. CASE q \in DOMAIN t
    BY <1>1, <2>1 DEF Tree
  <2>2. CASE q \notin DOMAIN t
    <3>1. PICK r \in Prefixes(p) : q = Leads(t, r) /\ q # <<>>
      BY <1>1, <2>2
    <3>2. r \in Seq(Names) /\ q \in Seq(Names)
      BY <1>4, <3>1
    <3>3. Kind(t, q) = "none"
      BY <2>2, <3>1, <3>2, KindIs
    <3>4. r # <<>> /\ q = At(t, r)
      BY <3>1, <3>3, OnTheWayDown
    <3>5. q \in Path /\ Front(q) = Leads(t, Front(r))
      BY <3>2, <3>4, LeadsOn
    <3>6. Front(r) \in Prefixes(p)
      <4>1. Front(r) \in Seq(Names) /\ IsPrefix(Front(r), r) /\ IsPrefix(r, p)
        BY <3>1, <3>2, <3>4, FrontIs, PrefixesAre
      <4> QED BY <3>2, <4>1, PrefixOrder, PrefixesAre
    <3>7. IsDir(u, Front(q))
      BY <1>4, <3>5, <3>6
    <3>8. Len(q) > 1 => Front(q) # <<>>
      BY <3>1, <3>2, FrontIs
    <3> QED BY <1>1, <1>2, <2>2, <3>5, <3>7, <3>8 DEF IsDir
  <2> QED BY <2>1, <2>2
<1>6. Tree(u)
  BY <1>3, <1>5 DEF Tree
<1>7. \A q \in Seq(Names) : Kind(u, q) = "link" <=> Kind(t, q) = "link"
  <2>1. Dir.kind = "dir"
    BY DEF Dir
  <2> QED BY <1>1, <1>6, <2>1, KindIs
<1>8. ASSUME NEW q \in Seq(Names)
      PROVE  Leads(u, q) = Leads(t, q)
  <2>1. Links(u, q) = Links(t, q)
    BY <1>7, PrefixesAre DEF Links
  <2>2. \A l \in Links(t, q) : u[l] = t[l]
    <3>1. \A l \in Links(t, q) : l \in Seq(Names) /\ Kind(t, l) = "link"
      BY PrefixesAre DEF Links
    <3> QED BY <1>1, <3>1, KindIs
  <2>3. Via(u, q) = Via(t, q)
    BY <2>1 DEF Via
  <2>4. Links(t, q) # {} => u[Via(t, q)] = t[Via(t, q)]
    BY <2>2 DEF Via
  <2> QED BY <2>1, <2>3, <2>4, LeadsIs
<1>9. IsDir(u, Leads(u, p))
  <2>1. p \in Prefixes(p)
    BY PrefixOrder, PrefixesAre
  <2> QED BY <1>4, <1>8, <2>1
<1> QED BY <1>1, <1>6, <1>8, <1>9 DEF u

\* Taking away paths with all that is below them leaves a tree.
LEMMA LessIsTree ==
  ASSUME NEW t, Tree(t), NEW S, S \subseteq DOMAIN t,
         \A q \in DOMAIN t \ S, r \in DOMAIN t : IsPrefix(q, r) => r \notin S
  PROVE  /\ Tree(Restrict(t, S)) /\ DOMAIN Restrict(t, S) = S
         /\ \A q \in S : Restrict(t, S)[q] = t[q]
<1> DEFINE u == Restrict(t, S)
<1>1. DOMAIN u = S /\ \A q \in S : u[q] = t[q]
  BY DEF Restrict
<1>2. u \in [DOMAIN u -> Node]
  BY <1>1 DEF Restrict, Tree
<1> HIDE DEF u
<1>3. ASSUME NEW q \in S
      PROVE  q \in Path /\ t[q] \in Node /\ (Len(q) > 1 => Front(q) \in S /\ t[Front(q)] = Dir)
  <2>1. q \in DOMAIN t /\ q \in Path /\ t[q] \in Node
    BY DEF Tree
  <2>2. ASSUME Len(q) > 1
        PROVE  Front(q) \in S /\ t[Front(q)] = Dir
    <3>1. Front(q) \in DOMAIN t /\ t[Front(q)] = Dir
      BY <2>1, <2>2 DEF Tree
    <3>2. IsPrefix(Front(q), q)
      BY <2>1, FrontIs DEF Path
    <3> QED BY <2>1, <3>1, <3>2
  <2> QED BY <2>1, <2>2
<1>4. Tree(u)
  BY <1>2, <1>1, <1>3 DEF Tree
<1> QED BY <1>1, <1>4 DEF u

\* What a removal takes away is the path with all below it, or a part of this.
LEMMA RemovalIs ==
  ASSUME NEW t, Tree(t), NEW p \in Seq(Names), NEW u \in PartlyWithout(t, p) \cup {Without(t, p)}
  PROVE  /\ Tree(u) /\ DOMAIN u \subseteq DOMAIN t
         /\ \A q \in DOMAIN u : u[q] = t[q]
         /\ \A q \in DOMAIN t : ~ IsPrefix(At(t, p), q) => q \in DOMAIN u
         /\ u = Without(t, p) => \A q \in DOMAIN u : ~ IsPrefix(At(t, p), q)
<1>1. At(t, p) \in Seq(Names)
  <2>1. p = <<>> => At(t, p) = p
    BY DEF At
  <2> QED BY <2>1, LeadsOn DEF Path
<1>2. \A q \in DOMAIN t : q \in Seq(Names)
  BY DEF Tree, Path
<1>3. CASE u = Without(t, p)
  <2> DEFINE S == {q \in DOMAIN t : ~ IsPrefix(At(t, p), q)}
  <2>1. u = Restrict(t, S)
    BY <1>3 DEF Without
  <2>2. \A q \in DOMAIN t \ S, r \in DOMAIN t : IsPrefix(q, r) => r \notin S
    BY <1>1, <1>2, PrefixOrder
  <2>3. S \subseteq DOMAIN t
    OBVIOUS
  <2> QED BY <2>1, <2>2, <2>3, LessIsTree
<1>4. u = Without(t, p) => \A q \in DOMAIN u : ~ IsPrefix(At(t, p), q)
  BY DEF Without, Restrict
<1>5. CASE u \in PartlyWithout(t, p)
  <2>1. PICK gone \in SUBSET {q \in DOMAIN t : IsPrefix(At(t, p), q)} :
             /\ \A q \in gone, r \in DOMAIN t : IsPrefix(q, r) => r \in gone
             /\ u = Restrict(t, DOMAIN t \ gone)
    BY <1>5 DEF PartlyWithout, Lessened
  <2> DEFINE S == DOMAIN t \ gone
  <2>2. \A q \in DOMAIN t \ S, r \in DOMAIN t : IsPrefix(q, r) => r \notin S
    BY <2>1
  <2>3. S \subseteq DOMAIN t
    OBVIOUS
  <2>4. u = Restrict(t, S)
    BY <2>1
  <2>5. \A q \in DOMAIN t : ~ IsPrefix(At(t, p), q) => q \in S
    OBVIOUS
  <2> HIDE DEF S
  <2>6. Tree(u) /\ DOMAIN u = S /\ \A q \in S : u[q] = t[q]
    BY <2>2, <2>3, <2>4, LessIsTree
  <2>7. /\ Tree(u) /\ DOMAIN u \subseteq DOMAIN t /\ \A q \in DOMAIN u : u[q] = t[q]
        /\ \A q \in DOMAIN t : ~ IsPrefix(At(t, p), q) => q \in DOMAIN u
    BY <2>3, <2>5, <2>6
  <2> QED BY <1>4, <2>7
<1> QED BY <1>3, <1>5, <1>4

\* The parts of an entry.
LEMMA TarEntryIs ==
  ASSUME NEW e \in TarEntry
  PROVE  /\ e.kind \in {"file", "link", "hard", "dir", "white", "other", "bad", "opaque",
                        "here", "up"}
         /\ e.path \in Seq(Names)
         /\ e.kind \notin {"opaque", "here", "up"} => e.path # <<>>
         /\ e.kind = "file" => e.data \in Data /\ e.owner \in Nat
         /\ e.kind \in {"link", "hard"} => e.to \in Path
BY DEF TarEntry, Path

\* Taking away all of some nodes, or a part of them that leaves a tree.
LEMMA LessenedIs ==
  ASSUME NEW t, Tree(t), NEW doomed, doomed \subseteq DOMAIN t,
         \A q \in doomed, r \in DOMAIN t : IsPrefix(q, r) => r \in doomed,
         NEW u \in Lessened(t, doomed) \cup {Restrict(t, DOMAIN t \ doomed)}
  PROVE  /\ Tree(u) /\ DOMAIN u \subseteq DOMAIN t
         /\ \A q \in DOMAIN u : u[q] = t[q]
         /\ \A q \in DOMAIN t : q \notin doomed => q \in DOMAIN u
<1>1. PICK gone \in SUBSET doomed :
           /\ \A q \in gone, r \in DOMAIN t : IsPrefix(q, r) => r \in gone
           /\ u = Restrict(t, DOMAIN t \ gone)
  BY DEF Lessened
<1> DEFINE S == DOMAIN t \ gone
<1>2. /\ S \subseteq DOMAIN t /\ u = Restrict(t, S)
      /\ \A q \in DOMAIN t \ S, r \in DOMAIN t : IsPrefix(q, r) => r \notin S
      /\ \A q \in DOMAIN t : q \notin doomed => q \in S
  BY <1>1
<1> HIDE DEF S
<1>3. Tree(u) /\ DOMAIN u = S /\ \A q \in S : u[q] = t[q]
  BY <1>2, LessIsTree
<1> QED BY <1>2, <1>3

\* What a whiteout named `.` or `..` takes away, it takes with all below.
LEMMA ClearedIs ==
  ASSUME NEW t, Tree(t), NEW e \in TarEntry
  PROVE  /\ Cleared(t, e) \subseteq DOMAIN t
         /\ \A q \in Cleared(t, e), r \in DOMAIN t : IsPrefix(q, r) => r \in Cleared(t, e)
<1> DEFINE dir == Leads(t, e.path)
           cleared == IF e.kind = "up" /\ dir # <<>> THEN Front(dir) ELSE dir
<1>1. dir \in Seq(Names)
  <2>1. e.path \in Seq(Names)
    BY TarEntryIs
  <2> QED BY <2>1, LeadsType
<1>2. cleared \in Seq(Names)
  <2>1. dir # <<>> => Front(dir) \in Seq(Names)
    BY <1>1, FrontIs
  <2> QED BY <1>1, <2>1
<1>3. \A q \in DOMAIN t : q \in Seq(Names)
  BY DEF Tree, Path
<1>4. Cleared(t, e) = {q \in DOMAIN t : Kind(t, dir) = "dir" /\ IsStrictPrefix(cleared, q)}
  BY DEF Cleared
<1> HIDE DEF dir, cleared
<1>5. ASSUME NEW q \in DOMAIN t, NEW r \in DOMAIN t, IsStrictPrefix(cleared, q), IsPrefix(q, r)
      PROVE  IsStrictPrefix(cleared, r)
  BY <1>2, <1>3, <1>5, PrefixOrder DEF IsStrictPrefix
<1> QED BY <1>4, <1>5

\* Removing one node that has nothing below it.
LEMMA RemovedIs ==
  ASSUME NEW t, Tree(t), NEW p \in Seq(Names)
  PROVE  /\ Tree(Removed(t, p)) /\ DOMAIN Removed(t, p) \subseteq DOMAIN t
         /\ \A q \in DOMAIN Removed(t, p) : Removed(t, p)[q] = t[q]
         /\ \A q \in DOMAIN t : q # At(t, p) => q \in DOMAIN Removed(t, p)
<1>1. CASE \E q \in DOMAIN t : IsStrictPrefix(At(t, p), q)
  BY <1>1 DEF Removed
<1>2. CASE ~ \E q \in DOMAIN t : IsStrictPrefix(At(t, p), q)
  <2> DEFINE S == DOMAIN t \ {At(t, p)}
  <2>1. Removed(t, p) = Restrict(t, S)
    BY <1>2 DEF Removed
  <2>2. \A q \in DOMAIN t \ S, r \in DOMAIN t : IsPrefix(q, r) => r \notin S
    BY <1>2 DEF IsStrictPrefix
  <2>3. S \subseteq DOMAIN t
    OBVIOUS
  <2> QED BY <2>1, <2>2, <2>3, LessIsTree
<1> QED BY <1>1, <1>2

\* Making or replacing what is no directory, in one that is there.
LEMMA PutIs ==
  ASSUME NEW t, Tree(t), NEW to \in Path, IsDir(t, Front(to)), ~ IsDir(t, to), NEW node \in Node
  PROVE  /\ Tree(Put(t, to, node)) /\ DOMAIN Put(t, to, node) = DOMAIN t \cup {to}
         /\ Put(t, to, node)[to] = node
         /\ \A q \in DOMAIN t : q # to => Put(t, to, node)[q] = t[q]
<1> DEFINE u == Put(t, to, node)
<1>1. /\ DOMAIN u = DOMAIN t \cup {to} /\ u[to] = node
      /\ \A q \in DOMAIN t : q # to => u[q] = t[q]
  BY DEF Put
<1>2. u \in [DOMAIN t \cup {to} -> Node]
  BY DEF Put, Tree
<1> HIDE DEF u
<1>3. ASSUME NEW q \in DOMAIN u
      PROVE  q \in Path /\ (Len(q) > 1 => Front(q) \in DOMAIN u /\ u[Front(q)] = Dir)
  <2>1. CASE q = to
    <3>1. to \in Seq(Names) /\ to # <<>>
      BY DEF Path
    <3>2. Front(to) # to /\ Front(to) \in Seq(Names) /\ Len(Front(to)) = Len(to) - 1
      BY <3>1, FrontIs
    <3>3. Len(to) > 1 => Front(to) # <<>>
      BY <3>1, <3>2
    <3> QED BY <1>1, <2>1, <3>2, <3>3 DEF IsDir
  <2>2. CASE q # to
    BY <1>1, <2>2 DEF Tree, IsDir
  <2> QED BY <2>1, <2>2
<1>4. Tree(u)
  BY <1>1, <1>2, <1>3 DEF Tree
<1> QED BY <1>1, <1>4 DEF u

\* Where a run is, and what it has returned.
Whereabouts ==
  /\ phase = "fetch" => layer = 1 /\ entry = 1
  /\ phase = "extract" => image <= Len(scenario.images) /\ scenario.images[image].given
  /\ phase # "done" => returned = "none"
  /\ phase = "done" => /\ image > Len(scenario.images) /\ layer = 1 /\ entry = 1
                       /\ returned = IF failed THEN "error" ELSE "ok"

\* What a scenario consists of.
LEMMA ScenarioIs ==
  ASSUME scenario \in Scenarios
  PROVE  /\ scenario.images \in Seq(Image) /\ Tree(scenario.tree)
         /\ \A i \in DOMAIN scenario.images :
              /\ scenario.images[i].layers \in Seq(Seq(TarEntry))
              /\ \A j \in DOMAIN scenario.images[i].layers :
                   /\ scenario.images[i].layers[j] \in Seq(TarEntry)
                   /\ \A k \in DOMAIN scenario.images[i].layers[j] :
                        scenario.images[i].layers[j][k] \in TarEntry
<1>1. scenario.images \in Seq(Image) /\ Tree(scenario.tree)
  BY UnpackAssumption
<1>2. ASSUME NEW i \in DOMAIN scenario.images
      PROVE  scenario.images[i].layers \in Seq(Seq(TarEntry))
  <2>1. scenario.images[i] \in Image
    BY <1>1
  <2> QED BY <2>1 DEF Image
<1>3. \A L \in Seq(Seq(TarEntry)) : \A j \in DOMAIN L :
        L[j] \in Seq(TarEntry) /\ \A k \in DOMAIN L[j] : L[j][k] \in TarEntry
  OBVIOUS
<1> QED BY <1>1, <1>2, <1>3

\* The entry that is extracted is one.
LEMMA CurrentIs ==
  ASSUME UnpackTypeOK, Whereabouts, NEW kinds, Extracting(kinds)
  PROVE  current \in TarEntry /\ current.kind \in kinds
<1>1. image \in DOMAIN scenario.images
  BY ScenarioIs DEF UnpackTypeOK, Whereabouts, Extracting
<1>2. layer \in DOMAIN Layers /\ entry \in DOMAIN Layers[layer]
  <2>1. Layers \in Seq(Seq(TarEntry)) /\ layer \in 1 .. Len(Layers)
    BY <1>1, ScenarioIs DEF UnpackTypeOK, Extracting, Layers
  <2>2. Layers[layer] \in Seq(TarEntry) /\ entry \in 1 .. Len(Layers[layer])
    BY <2>1 DEF UnpackTypeOK, Extracting
  <2> QED BY <2>1, <2>2
<1> QED BY <1>1, <1>2, ScenarioIs DEF UnpackTypeOK, Extracting, current, Layers

\* The directory of an entry.
LEMMA FrontOfEntry ==
  ASSUME NEW p \in Path
  PROVE  Front(p) \in Seq(Names) /\ p \in Seq(Names) /\ p # <<>>
BY FrontIs DEF Path

\* After an entry of each kind the target holds a tree.
LEMMA WhiteoutTree ==
  ASSUME UnpackTypeOK, Whereabouts, Whiteout
  PROVE  Tree(tree')
<1>1. current \in TarEntry /\ current.path \in Seq(Names)
  BY CurrentIs, TarEntryIs DEF Whiteout
<1>2. tree' \in PartlyWithout(tree, current.path) \cup {Without(tree, current.path)}
  BY DEF Whiteout
<1> QED BY <1>1, <1>2, RemovalIs DEF UnpackTypeOK

\* So does one named `.` or `..`.
LEMMA DotsTree ==
  ASSUME UnpackTypeOK, Whereabouts, WhiteoutDots
  PROVE  Tree(tree')
<1>1. current \in TarEntry /\ Tree(tree)
  BY CurrentIs DEF WhiteoutDots, UnpackTypeOK
<1>2. tree' \in Lessened(tree, Cleared(tree, current))
               \cup {Restrict(tree, DOMAIN tree \ Cleared(tree, current))}
  BY DEF WhiteoutDots
<1>3. /\ Cleared(tree, current) \subseteq DOMAIN tree
      /\ \A q \in Cleared(tree, current), r \in DOMAIN tree :
           IsPrefix(q, r) => r \in Cleared(tree, current)
  BY <1>1, ClearedIs
<1> QED BY <1>1, <1>2, <1>3, LessenedIs

\* An opaque whiteout: what is left when the directory has been removed is a tree,
\* and one in which it has been made anew.
LEMMA OpaqueTree ==
  ASSUME UnpackTypeOK, Whereabouts, Opaque
  PROVE  Tree(tree')
<1>1. current \in TarEntry /\ current.path \in Seq(Names)
  BY CurrentIs, TarEntryIs DEF Opaque
<1>2. ASSUME NEW left \in PartlyWithout(tree, current.path) \cup {Without(tree, current.path)}
      PROVE  Tree(left) /\ (CanMkdir(left, current.path) => Tree(WithDirs(left, current.path)))
  <2>1. Tree(left)
    BY <1>1, <1>2, RemovalIs DEF UnpackTypeOK
  <2> QED BY <1>1, <2>1, DirsMade
<1>3. \/ \E left \in PartlyWithout(tree, current.path) \cup {Without(tree, current.path)} :
             tree' = IF CanMkdir(left, current.path) THEN WithDirs(left, current.path) ELSE left
      \/ tree' \in PartlyWithout(tree, current.path)
  BY DEF Opaque
<1> QED BY <1>2, <1>3

\* A directory is made with those above it, or nothing is.
LEMMA DirectoryTree ==
  ASSUME UnpackTypeOK, Whereabouts, Directory
  PROVE  Tree(tree')
<1>1. current \in TarEntry /\ current.path \in Seq(Names)
  BY CurrentIs, TarEntryIs DEF Directory
<1>2. CanMkdir(tree, current.path) => Tree(WithDirs(tree, current.path))
  BY <1>1, DirsMade DEF UnpackTypeOK
<1> QED BY <1>2 DEF Directory, UnpackTypeOK

\* A link is put where nothing stands, in a directory.
LEMMA LinkTree ==
  ASSUME UnpackTypeOK, Whereabouts, Link
  PROVE  Tree(tree')
<1> DEFINE path == current.path
           ready == WithDirs(tree, Front(path))
           cleared == Removed(ready, path)
           node == [kind |-> "link", to |-> LinkTarget(current)]
<1>1. /\ current \in TarEntry /\ path \in Path /\ current.kind \in {"link", "hard"}
      /\ current.to \in Path
  <2>1. current \in TarEntry /\ current.kind \in {"link", "hard"}
    BY CurrentIs DEF Link
  <2> QED BY <2>1, TarEntryIs DEF Path
<1>2. Front(path) \in Seq(Names) /\ path \in Seq(Names) /\ path # <<>>
  BY <1>1, FrontOfEntry
<1>3. CASE CanMkdir(tree, Front(path))
  <2>1. Tree(ready)
    BY <1>2, <1>3, DirsMade DEF UnpackTypeOK
  <2>2. Tree(cleared)
    BY <1>2, <2>1, RemovedIs
  <2>3. CASE tree' = cleared
    BY <2>2, <2>3
  <2>4. CASE /\ Kind(cleared, At(cleared, path)) = "none"
             /\ Kind(cleared, Leads(cleared, Front(path))) = "dir"
             /\ tree' = Put(cleared, At(cleared, path), node)
    <3>1. LinkTarget(current) \in Path
      <4>1. Front(path) \o current.to \in Path
        BY <1>1, <1>2 DEF Path
      <4> QED BY <1>1, <4>1 DEF LinkTarget
    <3>2. node \in Node
      BY <3>1 DEF Node, LinkNode
    <3>3. At(cleared, path) \in Path /\ Front(At(cleared, path)) = Leads(cleared, Front(path))
      BY <1>2, <2>2, LeadsOn
    <3>4. IsDir(cleared, Front(At(cleared, path))) /\ ~ IsDir(cleared, At(cleared, path))
      <4>1. At(cleared, path) \in Seq(Names) /\ Leads(cleared, Front(path)) \in Seq(Names)
        BY <1>2, <2>2, <3>3, LeadsType DEF Path
      <4> QED BY <2>2, <2>4, <3>3, <4>1, KindIs
    <3> DEFINE to == At(cleared, path)
    <3>5. tree' = Put(cleared, to, node)
      BY <2>4
    <3> HIDE DEF to, node, cleared
    <3>6. to \in Path /\ IsDir(cleared, Front(to)) /\ ~ IsDir(cleared, to)
      BY <3>3, <3>4 DEF to
    <3> QED BY <2>2, <3>2, <3>5, <3>6, PutIs
  <2> QED BY <1>3, <2>3, <2>4 DEF Link
<1>4. CASE ~ CanMkdir(tree, Front(path))
  BY <1>4 DEF Link, UnpackTypeOK
<1> QED BY <1>3, <1>4

\* A file is put where no directory stands, in a directory.
LEMMA WrittenTree ==
  ASSUME UnpackTypeOK, Whereabouts, File
  PROVE  Tree(tree')
<1> DEFINE path == current.path
           ready == WithDirs(tree, Front(path))
           to == Leads(ready, path)
           writable == Kind(ready, to) # "dir" /\ Kind(ready, Front(to)) = "dir"
           old == IF Kind(ready, to) = "file" THEN ready[to].owner ELSE 0
           new == IF current.owner = 0 THEN old ELSE current.owner
<1>1. /\ current \in TarEntry /\ path \in Path /\ current.kind = "file"
      /\ current.data \in Data /\ current.owner \in Nat
  <2>1. current \in TarEntry /\ current.kind = "file"
    BY CurrentIs DEF File
  <2> QED BY <2>1, TarEntryIs DEF Path
<1>2. Front(path) \in Seq(Names) /\ path \in Seq(Names) /\ path # <<>>
  BY <1>1, FrontOfEntry
<1>3. CASE CanMkdir(tree, Front(path))
  <2>1. Tree(ready)
    BY <1>2, <1>3, DirsMade DEF UnpackTypeOK
  <2>2. CASE tree' = ready
    BY <2>1, <2>2
  <2>3. ASSUME writable, NEW data \in Data \cup {Partial}, NEW owner \in {old, new},
               tree' = Put(ready, to, [kind |-> "file", data |-> data, owner |-> owner])
        PROVE  Tree(tree')
    <3> DEFINE node == [kind |-> "file", data |-> data, owner |-> owner]
    <3>1. to \in Seq(Names)
      BY <1>2, <2>1, LeadsType
    <3>2. ~ IsDir(ready, to) /\ to # <<>>
      BY <2>1, <2>3, <3>1, KindIs DEF IsDir
    <3>3. Front(to) \in Seq(Names)
      BY <3>1, <3>2, FrontIs
    <3>4. IsDir(ready, Front(to))
      BY <2>1, <2>3, <3>3, KindIs
    <3>5. old \in Nat
      BY <2>1, <3>1, KindIs, NodeIs DEF Tree
    <3>6. node \in Node
      BY <1>1, <3>5 DEF Node, FileNode
    <3>7. tree' = Put(ready, to, node)
      BY <2>3
    <3>8. to \in Path
      BY <3>1, <3>2 DEF Path
    <3> HIDE DEF to, node, ready
    <3> QED BY <2>1, <3>2, <3>4, <3>6, <3>7, <3>8, PutIs
  <2>4. \/ tree' = ready
        \/ writable /\ tree' = Put(ready, to, [kind |-> "file", data |-> current.data, owner |-> new])
        \/ writable /\ tree' = Put(ready, to, [kind |-> "file", data |-> current.data, owner |-> old])
        \/ writable /\ tree' = Put(ready, to, [kind |-> "file", data |-> Partial, owner |-> old])
    BY <1>3 DEF File
  <2> QED BY <1>1, <2>2, <2>3, <2>4
<1>4. CASE ~ CanMkdir(tree, Front(path))
  BY <1>4 DEF File, UnpackTypeOK
<1> QED BY <1>3, <1>4

\* Extracting an entry.
Extract == Whiteout \/ WhiteoutDots \/ Opaque \/ Directory \/ Link \/ File \/ Skip

\* Whatever is extracted.
LEMMA ExtractTree ==
  ASSUME UnpackTypeOK, Whereabouts, Extract
  PROVE  Tree(tree')
BY WhiteoutTree, DotsTree, OpaqueTree, DirectoryTree, LinkTree, WrittenTree DEF Extract, Skip, UnpackTypeOK

\* How it may end.
LEMMA ExtractEnds ==
  ASSUME Extract
  PROVE  /\ phase = "extract" /\ layer <= Len(Layers) /\ entry <= Len(Layers[layer])
         /\ UNCHANGED <<scenario, returned, runs>>
         /\ NextEntry \/ Fail \/ GoDown
<1>1. CASE Whiteout
  BY <1>1 DEF Whiteout, Extracting
<1>2. CASE Opaque
  BY <1>2 DEF Opaque, Extracting
<1>3. CASE Directory
  BY <1>3 DEF Directory, Extracting
<1>4. CASE Link
  BY <1>4 DEF Link, Extracting
<1>5. CASE File
  BY <1>5 DEF File, Extracting
<1>6. CASE Skip
  BY <1>6 DEF Skip, Extracting
<1>7. CASE WhiteoutDots
  BY <1>7 DEF WhiteoutDots, Extracting
<1> QED BY <1>1, <1>2, <1>3, <1>4, <1>5, <1>6, <1>7 DEF Extract

\* The types and the place hold at the start.
LEMMA UnpackStart == UnpackInit => UnpackTypeOK /\ Whereabouts
<1> SUFFICES ASSUME UnpackInit
             PROVE  UnpackTypeOK /\ Whereabouts
  OBVIOUS
<1>1. Tree(tree) /\ 1 \in 1 .. MaxRuns
  BY UnpackAssumption, ScenarioIs DEF UnpackInit
<1>2. UnpackTypeOK
  <2>1. 1 \in Nat \ {0}
    OBVIOUS
  <2> QED BY <1>1, <2>1, Zenon DEF UnpackInit, UnpackTypeOK
<1>3. Whereabouts
  BY DEF UnpackInit, Whereabouts
<1> QED BY <1>2, <1>3

\* And every step keeps them.
LEMMA UnpackStep ==
  ASSUME UnpackTypeOK, Whereabouts, [UnpackNext]_unpackVars
  PROVE  UnpackTypeOK' /\ Whereabouts'
<1> USE DEF UnpackTypeOK, Whereabouts
<1>1. CASE Extract
  <2>1. Tree(tree')
    BY <1>1, ExtractTree
  <2>2. CASE NextEntry
    BY <1>1, <2>1, <2>2, ExtractEnds DEF NextEntry
  <2>3. CASE Fail
    BY <1>1, <2>1, <2>3, ExtractEnds DEF Fail, NextImage
  <2>4. CASE GoDown
    BY <1>1, <2>1, <2>4, ExtractEnds DEF GoDown
  <2> QED BY <1>1, <2>2, <2>3, <2>4, ExtractEnds
<1>2. CASE Fetch
  <2>1. UnpackTypeOK'
    <3>1. 1 \in Nat \ {0} /\ image + 1 \in Nat \ {0}
      OBVIOUS
    <3> QED BY <1>2, <3>1, Zenon DEF Fetch, NextImage, Fail
  <2>2. CASE NextImage
    BY <1>2, <2>1, <2>2 DEF Fetch, NextImage
  <2>3. CASE phase' = "extract" /\ image' = image /\ scenario.images[image].given
    BY <1>2, <2>1, <2>3 DEF Fetch
  <2> QED BY <1>2, <2>1, <2>2, <2>3 DEF Fetch, Fail
<1>3. CASE Refuse
  BY <1>3 DEF Refuse, NextImage, Fail
<1>4. CASE NextLayer
  BY <1>4 DEF NextLayer
<1>5. CASE ImageDone
  BY <1>5 DEF ImageDone, NextImage
<1>6. CASE Return
  BY <1>6 DEF Return, place
<1>7. CASE Crash
  BY <1>7 DEF Crash, place
<1>8. CASE RunAgain
  <2>1. UnpackTypeOK'
    <3>1. 1 \in Nat \ {0} /\ runs + 1 \in 1 .. MaxRuns
      BY <1>8, UnpackAssumption DEF RunAgain
    <3> QED BY <1>8, <3>1, Zenon DEF RunAgain
  <2>2. Whereabouts'
    BY <1>8 DEF RunAgain
  <2> QED BY <2>1, <2>2
<1>9. CASE UNCHANGED unpackVars
  BY <1>9 DEF unpackVars
<1> QED BY <1>1, <1>2, <1>3, <1>4, <1>5, <1>6, <1>7, <1>8, <1>9 DEF UnpackNext, Extract

\* The variables keep their types and the target holds a tree, in which every node
\* stands in a directory: whatever the layers hold, whichever removal or write
\* breaks off and wherever the machine goes down (unpack_image.rs, extract_layer).
THEOREM UnpackTypeCorrect == Unpack => []UnpackTypeOK
<1>1. UnpackInit => UnpackTypeOK /\ Whereabouts
  BY UnpackStart
<1>2. UnpackTypeOK /\ Whereabouts /\ [UnpackNext]_unpackVars => UnpackTypeOK' /\ Whereabouts'
  BY UnpackStep
<1> QED BY <1>1, <1>2, PTL DEF Unpack

\* Where a link has been, or an entry makes one.
LinkPaths ==
  {p \in DOMAIN scenario.tree : scenario.tree[p].kind = "link"}
    \cup {e.path : e \in {f \in Entries : f.kind \in {"link", "hard"}}}

\* An entry has a file, link or directory at a path, or on the way to it.
Brings(e, p) == e.kind \in {"file", "link", "hard", "dir", "opaque"} /\ IsPrefix(p, e.path)

\* Where what is in the target comes from.
Origins ==
  /\ \A p \in DOMAIN tree : p \in DOMAIN scenario.tree \/ \E e \in Entries : Brings(e, p)
  /\ \A p \in DOMAIN tree : tree[p].kind = "link" => p \in LinkPaths
  /\ \A p \in DOMAIN tree : tree[p].kind = "file" =>
       \E s \in Spots \cup {Bottom} :
         OwnersAt(s, p) # {} /\ (tree[p].owner = 0 \/ tree[p].owner \in OwnersAt(s, p))

Originated == LinksStay => Origins

\* The places of entries, and which of them this run is through with.
EntryAt(z) == LayerAt(<<z[1], z[2]>>)[z[3]]

Later(y, z) == \/ Above(y, z)
               \/ y[1] = z[1] /\ y[2] = z[2] /\ y[3] > z[3]

Sites == UNION {{<<s[1], s[2], pos>> : pos \in DOMAIN LayerAt(s)} : s \in Spots}

Passed == {z \in Sites : Later(<<image, layer, entry>>, z)}

\* A node is what an entry makes, but for the owner of a file of root's and owners
\* that cannot be set.
Agrees(node, e) ==
  /\ e.kind = "file" => /\ node.kind = "file" /\ node.data = e.data
                        /\ e.owner # 0 /\ ~ mayFail("chown") => node.owner = e.owner
  /\ e.kind # "file" => node = Made(e)

\* An entry makes p or a directory on the way to what it makes.
HasDir(e, p) == Implies(e, p) \/ (Makes(e, p) /\ e.kind \in {"dir", "opaque"})

\* When the entries S have been extracted: what entry z has made stands, what it
\* hides is gone, and its directories are there, as long as no later entry
\* changes this.
Stands(t, S, z, p) ==
  /\ Makes(EntryAt(z), p)
  /\ \A y \in S : Later(y, z) => ~ Makes(EntryAt(y), p) /\ ~ Hides(EntryAt(y), p)
  => p \in DOMAIN t /\ Agrees(t[p], EntryAt(z))

IsGone(t, S, z, p) ==
  /\ Hides(EntryAt(z), p)
  /\ \A y \in S : Later(y, z) => ~ Makes(EntryAt(y), p) /\ ~ Implies(EntryAt(y), p)
  => p \notin DOMAIN t

HoldsDir(t, S, z, p) ==
  /\ HasDir(EntryAt(z), p)
  /\ \A y \in S : Later(y, z) => ~ Hides(EntryAt(y), p)
  => p \in DOMAIN t /\ t[p] = Dir

StandIn(t, S) ==
  \A z \in S, p \in Path : Stands(t, S, z, p) /\ IsGone(t, S, z, p) /\ HoldsDir(t, S, z, p)

\* The scenarios the property is about.
Ordinary ==
  /\ LinksStay /\ HidesFirst /\ OwnersStay /\ OpaquesFit
  /\ PlainEntries /\ ~ mayFail("remove")

Stood == Ordinary /\ ~ failed /\ phase # "down" => StandIn(tree, Passed)

\* What the complete extraction of an entry does to a tree.
Effects(t, u, e) ==
  /\ \A q \in DOMAIN t \cup DOMAIN u : ~ Makes(e, q) /\ ~ Implies(e, q) /\ ~ Hides(e, q) =>
       q \in DOMAIN t /\ q \in DOMAIN u /\ u[q] = t[q]
  /\ \A q \in Path : Makes(e, q) => /\ q \in DOMAIN u /\ Agrees(u[q], e)
                                    /\ e.kind = "file" /\ q \in DOMAIN t => t[q] # Dir
  /\ \A q \in Path : Implies(e, q) =>
       q \in DOMAIN u /\ u[q] = Dir /\ (q \in DOMAIN t => t[q] = Dir)
  /\ \A q \in DOMAIN u : ~ Hides(e, q)

\* What an entry is to do, when nothing fails.
Does(e) ==
  phase' = "extract" /\ ~ mayFail("remove") /\ e.kind \notin {"hard", "here", "up"}
    => Effects(tree, tree', e)

\* Without links on the way, a path leads where it says.
LEMMA PlainPath ==
  ASSUME NEW t, Tree(t), NEW p \in Seq(Names),
         \A q \in Prefixes(p) : Kind(t, q) = "link" => q = p
  PROVE  /\ At(t, p) = p
         /\ p # <<>> => Leads(t, Front(p)) = Front(p)
         /\ Kind(t, p) # "link" => Leads(t, p) = p
<1>1. Kind(t, p) # "link" => Leads(t, p) = p
  <2>1. Kind(t, p) # "link" => Links(t, p) = {}
    BY DEF Links
  <2> QED BY <2>1, LeadsType
<1>2. CASE p = <<>>
  BY <1>1, <1>2 DEF At
<1>3. CASE p # <<>>
  <2>1. /\ Front(p) \in Seq(Names)
        /\ \A s \in Seq(Names) : IsPrefix(s, Front(p)) <=> IsPrefix(s, p) /\ s # p
    BY <1>3, FrontIs
  <2>2. Links(t, Front(p)) = {}
    BY <2>1, PrefixesAre DEF Links
  <2>3. Leads(t, Front(p)) = Front(p)
    BY <2>1, <2>2, LeadsType
  <2>4. At(t, p) = Append(Front(p), Last(p))
    BY <1>3, <2>3 DEF At
  <2>5. p = Append(Front(p), Last(p))
    BY <1>3 DEF Front, Last
  <2> QED BY <1>1, <1>3, <2>3, <2>4, <2>5
<1> QED BY <1>2, <1>3

\* Nor does mkdir_all make anything but the path's directories.
LEMMA PlainDirs ==
  ASSUME NEW t, Tree(t), NEW p \in Seq(Names), \A q \in Prefixes(p) : Kind(t, q) # "link"
  PROVE  /\ CanMkdir(t, p) <=> \A q \in Prefixes(p) : q \in DOMAIN t => t[q] = Dir
         /\ CanMkdir(t, p) =>
              /\ Tree(WithDirs(t, p))
              /\ DOMAIN WithDirs(t, p) = DOMAIN t \cup (Prefixes(p) \ {<<>>})
              /\ \A q \in DOMAIN t : WithDirs(t, p)[q] = t[q]
              /\ \A q \in Prefixes(p) \ {<<>>} : WithDirs(t, p)[q] = Dir
<1>1. ASSUME NEW q \in Prefixes(p)
      PROVE  q \in Seq(Names) /\ At(t, q) = q /\ Leads(t, q) = q
  <2>1. q \in Seq(Names) /\ IsPrefix(q, p)
    BY PrefixesAre
  <2>2. Prefixes(q) \subseteq Prefixes(p)
    BY <2>1, PrefixesAre, PrefixOrder
  <2> QED BY <2>1, <2>2, PlainPath
<1>2. CanMkdir(t, p) <=> \A q \in Prefixes(p) : Kind(t, q) = "dir" \/ Kind(t, q) = "none"
  BY <1>1 DEF CanMkdir
<1>3. \A q \in Prefixes(p) : Kind(t, q) = "dir" \/ Kind(t, q) = "none"
                              <=> (q \in DOMAIN t => t[q] = Dir)
  <2>1. <<>> \notin DOMAIN t
    BY DEF Tree, Path
  <2> QED BY <1>1, <2>1, KindIs DEF IsDir
<1>4. CanMkdir(t, p) <=> \A q \in Prefixes(p) : q \in DOMAIN t => t[q] = Dir
  BY <1>2, <1>3
<1>5. ASSUME CanMkdir(t, p)
      PROVE  /\ Tree(WithDirs(t, p))
             /\ DOMAIN WithDirs(t, p) = DOMAIN t \cup (Prefixes(p) \ {<<>>})
             /\ \A q \in DOMAIN t : WithDirs(t, p)[q] = t[q]
             /\ \A q \in Prefixes(p) \ {<<>>} : WithDirs(t, p)[q] = Dir
  <2>1. {Leads(t, r) : r \in Prefixes(p)} = Prefixes(p)
    BY <1>1
  <2>2. /\ Tree(WithDirs(t, p))
        /\ DOMAIN WithDirs(t, p) = DOMAIN t \cup (Prefixes(p) \ {<<>>})
        /\ \A q \in DOMAIN t : WithDirs(t, p)[q] = t[q]
        /\ \A q \in DOMAIN WithDirs(t, p) \ DOMAIN t : WithDirs(t, p)[q] = Dir
    BY <1>5, <2>1, DirsMade
  <2> QED BY <1>4, <1>5, <2>2
<1> QED BY <1>4, <1>5

-----------------------------------------------------------------------------

\* No link is on the way to an entry, nor where it writes.
Straight(t, e) ==
  \A q \in Prefixes(e.path) :
    Kind(t, q) = "link" => q = e.path /\ e.kind \in {"link", "hard", "white"}

\* What the extraction of an entry, complete or not, leaves as it is, where it
\* brings things, and where the links and the owners come from.
Frame(t, u, e) ==
  /\ \A q \in DOMAIN t :
       /\ ~ (e.kind \in {"file", "link", "hard"} /\ q = e.path)
       /\ ~ (e.kind \in {"white", "opaque"} /\ IsPrefix(e.path, q))
       /\ ~ (e.kind \in {"here", "up"} /\ IsStrictPrefix(Emptied(e), q))
       => q \in DOMAIN u /\ u[q] = t[q]
  /\ \A q \in DOMAIN u : q \in DOMAIN t \/ Brings(e, q)
  /\ \A q \in DOMAIN u : u[q].kind = "link" =>
       \/ q \in DOMAIN t /\ t[q].kind = "link"
       \/ e.kind \in {"link", "hard"} /\ q = e.path
  /\ \A q \in DOMAIN u : u[q].kind = "file" =>
       \/ q \in DOMAIN t /\ t[q].kind = "file" /\ u[q].owner = t[q].owner
       \/ e.kind = "file" /\ q = e.path /\ u[q].owner \in {0, e.owner}

\* An entry leaves all as it is.
LEMMA FrameSame ==
  ASSUME NEW t, NEW e
  PROVE  Frame(t, t, e)
BY DEF Frame

\* An entry takes away some of what it hides.
LEMMA WhiteoutFrame ==
  ASSUME NEW t, Tree(t), NEW e \in TarEntry, Straight(t, e), e.kind \in {"white", "opaque"},
         NEW u \in PartlyWithout(t, e.path) \cup {Without(t, e.path)}
  PROVE  /\ Tree(u) /\ DOMAIN u \subseteq DOMAIN t /\ \A q \in DOMAIN u : u[q] = t[q]
         /\ Frame(t, u, e)
         /\ u = Without(t, e.path) => \A q \in DOMAIN u : ~ IsPrefix(e.path, q)
<1>1. e.path \in Seq(Names)
  BY TarEntryIs
<1>2. At(t, e.path) = e.path
  BY <1>1, PlainPath DEF Straight
<1>3. /\ Tree(u) /\ DOMAIN u \subseteq DOMAIN t /\ \A q \in DOMAIN u : u[q] = t[q]
      /\ \A q \in DOMAIN t : ~ IsPrefix(e.path, q) => q \in DOMAIN u
      /\ u = Without(t, e.path) => \A q \in DOMAIN u : ~ IsPrefix(e.path, q)
  BY <1>1, <1>2, RemovalIs
<1> QED BY <1>3 DEF Frame

\* The directories of a path have been added.
AddsDirs(t, u, p) ==
  /\ DOMAIN u = DOMAIN t \cup (Prefixes(p) \ {<<>>})
  /\ \A q \in DOMAIN t : u[q] = t[q]
  /\ \A q \in Prefixes(p) \ {<<>>} : u[q] = Dir

\* An entry makes directories as well.
LEMMA DirsFrame ==
  ASSUME NEW t, Tree(t), NEW e \in TarEntry, Straight(t, e), e.kind \in {"dir", "opaque"},
         NEW left, Tree(left), DOMAIN left \subseteq DOMAIN t, \A q \in DOMAIN left : left[q] = t[q],
         Frame(t, left, e), CanMkdir(left, e.path)
  PROVE  /\ Frame(t, WithDirs(left, e.path), e)
         /\ AddsDirs(left, WithDirs(left, e.path), e.path)
<1> DEFINE u == WithDirs(left, e.path)
<1>1. e.path \in Seq(Names)
  BY TarEntryIs
<1>2. \A q \in Prefixes(e.path) : Kind(left, q) # "link"
  <2>1. \A q \in Prefixes(e.path) : q \in Seq(Names) /\ Kind(t, q) # "link"
    BY <1>1, PrefixesAre DEF Straight
  <2> QED BY <2>1, KindIs
<1>3. /\ DOMAIN u = DOMAIN left \cup (Prefixes(e.path) \ {<<>>})
      /\ \A q \in DOMAIN left : u[q] = left[q]
      /\ \A q \in Prefixes(e.path) \ {<<>>} : u[q] = Dir
  BY <1>1, <1>2, PlainDirs
<1>4. Dir.kind = "dir"
  BY DEF Dir
<1>5. \A q \in Prefixes(e.path) : Brings(e, q)
  BY <1>1, PrefixesAre DEF Brings
<1> HIDE DEF u
<1>6. Frame(t, u, e)
  BY <1>3, <1>4, <1>5 DEF Frame
<1> QED BY <1>3, <1>6 DEF u, AddsDirs

\* The directory of an entry that makes something in it.
LEMMA ReadyFrame ==
  ASSUME NEW t, Tree(t), NEW e \in TarEntry, Straight(t, e), e.kind \in {"link", "hard", "file"},
         CanMkdir(t, Front(e.path))
  PROVE  /\ Tree(WithDirs(t, Front(e.path))) /\ Straight(WithDirs(t, Front(e.path)), e)
         /\ Frame(t, WithDirs(t, Front(e.path)), e)
         /\ DOMAIN WithDirs(t, Front(e.path)) = DOMAIN t \cup (Prefixes(Front(e.path)) \ {<<>>})
         /\ \A q \in DOMAIN t : WithDirs(t, Front(e.path))[q] = t[q]
         /\ \A q \in Prefixes(Front(e.path)) \ {<<>>} :
              WithDirs(t, Front(e.path))[q] = Dir /\ (q \in DOMAIN t => t[q] = Dir)
         /\ \A q \in Seq(Names) : q \in Prefixes(Front(e.path)) <=> IsStrictPrefix(q, e.path)
<1> DEFINE p == e.path
           u == WithDirs(t, Front(p))
<1>1. p \in Path
  BY TarEntryIs DEF Path
<1>2. /\ p \in Seq(Names) /\ p # <<>> /\ Front(p) \in Seq(Names)
      /\ \A s \in Seq(Names) : IsPrefix(s, Front(p)) <=> IsPrefix(s, p) /\ s # p
  BY <1>1, FrontOfEntry, FrontIs
<1>3. \A q \in Prefixes(Front(p)) : q \in Prefixes(p) /\ q # p /\ q \in Seq(Names)
  BY <1>2, PrefixesAre
<1>4. \A q \in Prefixes(Front(p)) : Kind(t, q) # "link"
  BY <1>3 DEF Straight
<1>5. /\ Tree(u) /\ DOMAIN u = DOMAIN t \cup (Prefixes(Front(p)) \ {<<>>})
      /\ \A q \in DOMAIN t : u[q] = t[q]
      /\ \A q \in Prefixes(Front(p)) \ {<<>>} : u[q] = Dir
  BY <1>2, <1>4, PlainDirs
<1>6. \A q \in Seq(Names) : q \in Prefixes(Front(p)) <=> IsStrictPrefix(q, p)
  BY <1>2, PrefixesAre DEF IsStrictPrefix
<1>7. Frame(t, u, e)
  <2>1. Dir.kind = "dir"
    BY DEF Dir
  <2>2. \A q \in Prefixes(Front(p)) : Brings(e, q)
    BY <1>2, <1>3, PrefixesAre DEF Brings
  <2> QED BY <1>5, <2>1, <2>2 DEF Frame
<1>8. Straight(u, e)
  <2> SUFFICES ASSUME NEW q \in Prefixes(p), Kind(u, q) = "link"
               PROVE  Kind(t, q) = "link"
    BY DEF Straight
  <2>1. q \in Seq(Names) /\ q \in DOMAIN u /\ u[q].kind = "link"
    BY <1>2, <1>5, PrefixesAre, KindIs
  <2>2. Dir.kind # "link"
    BY DEF Dir
  <2>3. q \in DOMAIN t
    BY <1>5, <2>1, <2>2
  <2> QED BY <1>5, <2>1, <2>3, KindIs
<1> QED BY <1>5, <1>8, <1>6, <1>7

\* A whiteout takes away what it hides, and nothing else.
LEMMA WhiteoutDoes ==
  ASSUME UnpackTypeOK, Whereabouts, Whiteout, Straight(tree, current)
  PROVE  Frame(tree, tree', current) /\ Does(current)
<1>1. current \in TarEntry /\ current.kind = "white" /\ current.path \in Seq(Names)
  BY CurrentIs, TarEntryIs DEF Whiteout
<1>2. tree' \in PartlyWithout(tree, current.path) \cup {Without(tree, current.path)}
  BY DEF Whiteout
<1>3. /\ DOMAIN tree' \subseteq DOMAIN tree /\ \A q \in DOMAIN tree' : tree'[q] = tree[q]
      /\ Frame(tree, tree', current)
      /\ tree' = Without(tree, current.path) => \A q \in DOMAIN tree' : ~ IsPrefix(current.path, q)
  BY <1>1, <1>2, WhiteoutFrame DEF UnpackTypeOK
<1>4. phase' = "extract" /\ ~ mayFail("remove") => tree' = Without(tree, current.path)
  BY DEF Whiteout, GoDown
<1>5. ASSUME tree' = Without(tree, current.path)
      PROVE  Effects(tree, tree', current)
  <2>1. \A q : ~ Makes(current, q) /\ ~ Implies(current, q)
    BY <1>1 DEF Makes, Implies
  <2>2. \A q : Hides(current, q) <=> IsPrefix(current.path, q)
    BY <1>1 DEF Hides
  <2>3. \A q \in DOMAIN tree : ~ IsPrefix(current.path, q) => q \in DOMAIN tree'
    BY <1>1, <1>3 DEF Frame
  <2> QED BY <1>3, <1>5, <2>1, <2>2, <2>3 DEF Effects
<1> QED BY <1>3, <1>4, <1>5 DEF Does

\* One named `.` or `..` takes away only what is in the directory that it empties.
LEMMA DotsDoes ==
  ASSUME UnpackTypeOK, Whereabouts, WhiteoutDots, Straight(tree, current)
  PROVE  Frame(tree, tree', current) /\ Does(current)
<1>1. /\ current \in TarEntry /\ current.kind \in {"here", "up"} /\ current.path \in Seq(Names)
      /\ Tree(tree)
  BY CurrentIs, TarEntryIs DEF WhiteoutDots, UnpackTypeOK
<1>2. Leads(tree, current.path) = current.path
  <2>1. \A q \in Prefixes(current.path) : Kind(tree, q) # "link"
    BY <1>1 DEF Straight
  <2>2. current.path \in Prefixes(current.path)
    BY <1>1, PrefixOrder, PrefixesAre
  <2> QED BY <1>1, <2>1, <2>2, PlainPath
<1>3. \A q \in Cleared(tree, current) : IsStrictPrefix(Emptied(current), q)
  BY <1>2 DEF Cleared, Emptied
<1>4. /\ Cleared(tree, current) \subseteq DOMAIN tree
      /\ \A q \in Cleared(tree, current), r \in DOMAIN tree :
           IsPrefix(q, r) => r \in Cleared(tree, current)
  BY <1>1, ClearedIs
<1>5. tree' \in Lessened(tree, Cleared(tree, current))
               \cup {Restrict(tree, DOMAIN tree \ Cleared(tree, current))}
  BY DEF WhiteoutDots
<1>6. /\ DOMAIN tree' \subseteq DOMAIN tree
      /\ \A q \in DOMAIN tree' : tree'[q] = tree[q]
      /\ \A q \in DOMAIN tree : q \notin Cleared(tree, current) => q \in DOMAIN tree'
  BY <1>1, <1>4, <1>5, LessenedIs
<1>7. Frame(tree, tree', current)
  BY <1>1, <1>3, <1>6 DEF Frame
<1> QED BY <1>1, <1>7 DEF Does

\* An opaque whiteout makes its directory when there is no file on the way.
LEMMA OpaqueDoes ==
  ASSUME UnpackTypeOK, Whereabouts, Opaque, Straight(tree, current)
  PROVE  /\ Frame(tree, tree', current)
         /\ (\A q \in Path : IsStrictPrefix(q, current.path) /\ q \in DOMAIN tree => tree[q] = Dir)
              => Does(current)
<1> DEFINE p == current.path
           gone == Without(tree, p)
<1>1. current \in TarEntry /\ current.kind = "opaque" /\ p \in Seq(Names)
  BY CurrentIs, TarEntryIs DEF Opaque
<1>2. ASSUME NEW left \in PartlyWithout(tree, p) \cup {gone}
      PROVE  /\ Tree(left) /\ DOMAIN left \subseteq DOMAIN tree
             /\ \A q \in DOMAIN left : left[q] = tree[q]
             /\ Frame(tree, left, current)
             /\ left = gone => \A q \in DOMAIN left : ~ IsPrefix(p, q)
  BY <1>1, <1>2, WhiteoutFrame DEF UnpackTypeOK
<1>3. ASSUME NEW left \in PartlyWithout(tree, p) \cup {gone}, CanMkdir(left, p)
      PROVE  /\ Frame(tree, WithDirs(left, p), current)
             /\ DOMAIN WithDirs(left, p) = DOMAIN left \cup (Prefixes(p) \ {<<>>})
             /\ \A q \in DOMAIN left : WithDirs(left, p)[q] = left[q]
             /\ \A q \in Prefixes(p) \ {<<>>} : WithDirs(left, p)[q] = Dir
  <2>1. /\ Tree(tree) /\ Tree(left) /\ DOMAIN left \subseteq DOMAIN tree
        /\ \A q \in DOMAIN left : left[q] = tree[q]
        /\ Frame(tree, left, current) /\ current.kind \in {"dir", "opaque"}
    BY <1>1, <1>2, <1>3 DEF UnpackTypeOK
  <2> HIDE DEF gone
  <2>2. Frame(tree, WithDirs(left, p), current) /\ AddsDirs(left, WithDirs(left, p), p)
    BY <1>1, <1>3, <2>1, DirsFrame
  <2> QED BY <2>2 DEF AddsDirs
<1>4. Frame(tree, tree', current)
  <2>1. \/ \E left \in PartlyWithout(tree, p) \cup {gone} :
             tree' = IF CanMkdir(left, p) THEN WithDirs(left, p) ELSE left
        \/ tree' \in PartlyWithout(tree, p)
    BY DEF Opaque
  <2> HIDE DEF gone, p
  <2> QED BY <1>2, <1>3, <2>1
<1>5. ASSUME \A q \in Path : IsStrictPrefix(q, p) /\ q \in DOMAIN tree => tree[q] = Dir,
             phase' = "extract", ~ mayFail("remove")
      PROVE  Effects(tree, tree', current)
  <2>1. tree' = IF CanMkdir(gone, p) THEN WithDirs(gone, p) ELSE gone
    BY <1>5 DEF Opaque, GoDown
  <2> HIDE DEF gone
  <2>2. /\ Tree(gone) /\ DOMAIN gone \subseteq DOMAIN tree
        /\ \A q \in DOMAIN gone : gone[q] = tree[q]
        /\ \A q \in DOMAIN tree : ~ IsPrefix(p, q) => q \in DOMAIN gone
        /\ \A q \in DOMAIN gone : ~ IsPrefix(p, q) /\ q \in Path
    BY <1>1, <1>2 DEF Frame, Tree
  <2>3. \A q \in Prefixes(p) : q \in DOMAIN gone => gone[q] = Dir
    <3>1. \A q \in Prefixes(p) : q \in DOMAIN gone => q \in Path /\ IsStrictPrefix(q, p)
      BY <1>1, <2>2, PrefixesAre, PrefixOrder DEF IsStrictPrefix
    <3> QED BY <1>5, <2>2, <3>1
  <2>4. CanMkdir(gone, p)
    <3>1. \A q \in Prefixes(p) : Kind(gone, q) # "link"
      <4>1. Dir.kind = "dir"
        BY DEF Dir
      <4> QED BY <1>1, <2>2, <2>3, <4>1, PrefixesAre, KindIs
    <3> QED BY <1>1, <2>2, <2>3, <3>1, PlainDirs
  <2>5. /\ DOMAIN tree' = DOMAIN gone \cup (Prefixes(p) \ {<<>>})
        /\ \A q \in DOMAIN gone : tree'[q] = gone[q]
        /\ \A q \in Prefixes(p) \ {<<>>} : tree'[q] = Dir
    BY <1>3, <2>1, <2>4 DEF gone
  <2>6. \A q \in Path : /\ Makes(current, q) <=> q = p
                        /\ Implies(current, q) <=> IsStrictPrefix(q, p)
                        /\ Hides(current, q) <=> IsStrictPrefix(p, q)
    BY <1>1 DEF Makes, Implies, Hides
  <2>7. \A q \in Path : /\ q \in Prefixes(p) \ {<<>>} <=> q = p \/ IsStrictPrefix(q, p)
                        /\ IsPrefix(p, q) <=> q = p \/ IsStrictPrefix(p, q)
    BY <1>1, PrefixesAre, PrefixOrder DEF Path, IsStrictPrefix
  <2>8. DOMAIN tree \subseteq Path /\ DOMAIN tree' \subseteq Path
    BY <1>1, <2>2, <2>5, PrefixesAre DEF UnpackTypeOK, Tree, Path
  <2>9. \A q \in Path : ~ (IsStrictPrefix(q, p) /\ IsStrictPrefix(p, q)) /\ ~ IsStrictPrefix(p, p)
    BY <1>1, PrefixOrder DEF IsStrictPrefix, Path
  <2>10. Agrees(Dir, current)
    BY <1>1 DEF Agrees, Made
  <2> HIDE DEF p
  <2>11. \A q \in DOMAIN tree \cup DOMAIN tree' :
           q # p /\ ~ IsStrictPrefix(q, p) /\ ~ IsStrictPrefix(p, q) =>
             q \in DOMAIN tree /\ q \in DOMAIN tree' /\ tree'[q] = tree[q]
    BY <2>2, <2>5, <2>7, <2>8
  <2>12. \A q \in Path : q = p \/ IsStrictPrefix(q, p) => q \in DOMAIN tree' /\ tree'[q] = Dir
    BY <2>5, <2>7
  <2>13. \A q \in DOMAIN tree' : ~ IsStrictPrefix(p, q)
    BY <2>2, <2>5, <2>7, <2>8, <2>9
  <2>14. current.kind # "file"
    BY <1>1
  <2> HIDE <2>1, <2>5
  <2> QED BY <1>5, <2>6, <2>8, <2>10, <2>11, <2>12, <2>13, <2>14 DEF Effects
<1> QED BY <1>4, <1>5 DEF Does

\* A directory is made where it can be.
LEMMA DirectoryDoes ==
  ASSUME UnpackTypeOK, Whereabouts, Directory, Straight(tree, current)
  PROVE  Frame(tree, tree', current) /\ Does(current)
<1> DEFINE p == current.path
<1>1. current \in TarEntry /\ current.kind = "dir" /\ p \in Seq(Names)
  BY CurrentIs, TarEntryIs DEF Directory
<1>2. CASE CanMkdir(tree, p)
  <2>1. tree' = WithDirs(tree, p) /\ Tree(tree) /\ Frame(tree, tree, current)
    BY <1>2, FrameSame DEF Directory, UnpackTypeOK
  <2>2. /\ Frame(tree, tree', current)
        /\ DOMAIN tree' = DOMAIN tree \cup (Prefixes(p) \ {<<>>})
        /\ \A q \in DOMAIN tree : tree'[q] = tree[q]
        /\ \A q \in Prefixes(p) \ {<<>>} : tree'[q] = Dir
    <3>1. Frame(tree, WithDirs(tree, p), current) /\ AddsDirs(tree, WithDirs(tree, p), p)
      BY <1>1, <1>2, <2>1, DirsFrame
    <3> QED BY <2>1, <3>1 DEF AddsDirs
  <2>3. \A q \in Path : /\ Makes(current, q) <=> q = p
                        /\ Implies(current, q) <=> IsStrictPrefix(q, p)
                        /\ ~ Hides(current, q)
    BY <1>1 DEF Makes, Implies, Hides
  <2>4. \A q \in Path : q \in Prefixes(p) \ {<<>>} <=> q = p \/ IsStrictPrefix(q, p)
    BY <1>1, PrefixesAre, PrefixOrder DEF Path, IsStrictPrefix
  <2>5. DOMAIN tree \subseteq Path /\ DOMAIN tree' \subseteq Path
    BY <1>1, <2>1, <2>2, PrefixesAre DEF Tree, Path
  <2>6. Agrees(Dir, current) /\ current.kind # "file"
    BY <1>1 DEF Agrees, Made
  <2> HIDE DEF p
  <2>7. Effects(tree, tree', current)
    BY <2>2, <2>3, <2>4, <2>5, <2>6 DEF Effects
  <2> QED BY <2>2, <2>7 DEF Does
<1>3. CASE ~ CanMkdir(tree, p)
  <2>1. tree' = tree /\ phase' = "fetch"
    BY <1>3 DEF Directory, Fail, NextImage
  <2> QED BY <2>1, FrameSame DEF Does
<1> QED BY <1>2, <1>3

\* What a link or a file does, once its directory is there.
LEMMA PutDoes ==
  ASSUME NEW t, Tree(t), NEW e \in TarEntry, e.kind \in {"link", "hard", "file"}, Straight(t, e),
         CanMkdir(t, Front(e.path)), NEW ready, ready = WithDirs(t, Front(e.path)),
         NEW cleared, DOMAIN cleared \subseteq DOMAIN ready,
         \A q \in DOMAIN ready : q # e.path => q \in DOMAIN cleared /\ cleared[q] = ready[q],
         NEW node \in Node, NEW u, u = Put(cleared, e.path, node),
         node.kind = "link" => e.kind \in {"link", "hard"},
         node.kind = "file" =>
           \/ e.kind = "file" /\ node.owner \in {0, e.owner}
           \/ /\ e.path \in DOMAIN ready /\ ready[e.path].kind = "file"
              /\ node.owner = ready[e.path].owner
  PROVE  /\ Frame(t, u, e)
         /\ /\ e.kind # "hard" /\ Agrees(node, e)
            /\ e.kind = "file" /\ e.path \in DOMAIN t => t[e.path] # Dir
            => Effects(t, u, e)
<1> DEFINE p == e.path
<1>1. p \in Path /\ p \in Seq(Names)
  BY TarEntryIs DEF Path
<1>2. /\ Tree(ready) /\ Frame(t, ready, e)
      /\ DOMAIN ready = DOMAIN t \cup (Prefixes(Front(p)) \ {<<>>})
      /\ \A q \in DOMAIN t : ready[q] = t[q]
      /\ \A q \in Prefixes(Front(p)) \ {<<>>} : ready[q] = Dir /\ (q \in DOMAIN t => t[q] = Dir)
      /\ \A q \in Seq(Names) : q \in Prefixes(Front(p)) <=> IsStrictPrefix(q, p)
  <2> DEFINE made == WithDirs(t, Front(p))
  <2>1. /\ Tree(made) /\ Frame(t, made, e)
        /\ DOMAIN made = DOMAIN t \cup (Prefixes(Front(p)) \ {<<>>})
        /\ \A q \in DOMAIN t : made[q] = t[q]
        /\ \A q \in Prefixes(Front(p)) \ {<<>>} : made[q] = Dir /\ (q \in DOMAIN t => t[q] = Dir)
        /\ \A q \in Seq(Names) : q \in Prefixes(Front(p)) <=> IsStrictPrefix(q, p)
    BY ReadyFrame
  <2> QED BY <2>1
<1>3. /\ DOMAIN u = DOMAIN cleared \cup {p} /\ u[p] = node
      /\ \A q \in DOMAIN cleared : q # p => u[q] = cleared[q]
  BY DEF Put
<1>4. IsPrefix(p, p) /\ ~ IsStrictPrefix(p, p)
  BY <1>1, PrefixOrder DEF IsStrictPrefix
<1>5. DOMAIN ready \subseteq Path
  BY <1>2 DEF Tree
<1>6. p \in DOMAIN ready => p \in DOMAIN t
  BY <1>1, <1>2, <1>4
<1> HIDE DEF p
<1>7. Frame(t, u, e)
  <2>1. \A q \in DOMAIN ready : q # p => q \in DOMAIN u /\ u[q] = ready[q]
    BY <1>3 DEF p
  <2>2. \A q \in DOMAIN u : q # p => q \in DOMAIN ready
    BY <1>3
  <2>3. Brings(e, p)
    BY <1>4 DEF Brings, p
  <2>4. node.kind = "link" => e.kind \in {"link", "hard"}
    OBVIOUS
  <2>5. node.kind = "file" =>
          \/ e.kind = "file" /\ node.owner \in {0, e.owner}
          \/ p \in DOMAIN t /\ t[p].kind = "file" /\ node.owner = t[p].owner
    BY <1>2, <1>6 DEF p
  <2>6. ASSUME NEW q \in DOMAIN t, ~ (e.kind \in {"file", "link", "hard"} /\ q = p)
        PROVE  q \in DOMAIN u /\ u[q] = t[q]
    BY <1>2, <2>1, <2>6
  <2>7. \A q \in DOMAIN u : q \in DOMAIN t \/ Brings(e, q)
    BY <1>2, <2>2, <2>3 DEF Frame
  <2>8. ASSUME NEW q \in DOMAIN u, u[q].kind = "link"
        PROVE  (q \in DOMAIN t /\ t[q].kind = "link") \/ (e.kind \in {"link", "hard"} /\ q = p)
    <3>1. CASE q = p
      BY <1>3, <2>4, <2>8, <3>1
    <3>2. CASE q # p
      <4>1. q \in DOMAIN ready /\ u[q] = ready[q]
        BY <2>1, <2>2, <3>2
      <4> QED BY <1>2, <2>8, <3>2, <4>1 DEF Frame, p
    <3> QED BY <3>1, <3>2
  <2>9. ASSUME NEW q \in DOMAIN u, u[q].kind = "file"
        PROVE  \/ q \in DOMAIN t /\ t[q].kind = "file" /\ u[q].owner = t[q].owner
               \/ e.kind = "file" /\ q = p /\ u[q].owner \in {0, e.owner}
    <3>1. CASE q = p
      BY <1>3, <2>5, <2>9, <3>1
    <3>2. CASE q # p
      <4>1. q \in DOMAIN ready /\ u[q] = ready[q]
        BY <2>1, <2>2, <3>2
      <4>2. \/ q \in DOMAIN t /\ t[q].kind = "file" /\ ready[q].owner = t[q].owner
            \/ e.kind = "file" /\ q = e.path /\ ready[q].owner \in {0, e.owner}
        BY <1>2, <2>9, <4>1 DEF Frame
      <4> QED BY <3>2, <4>1, <4>2 DEF p
    <3> QED BY <3>1, <3>2
  <2> QED BY <2>6, <2>7, <2>8, <2>9 DEF Frame, p
<1>8. ASSUME e.kind # "hard", Agrees(node, e), e.kind = "file" /\ p \in DOMAIN t => t[p] # Dir
      PROVE  Effects(t, u, e)
  <2>1. \A q \in Path : /\ Makes(e, q) <=> q = p
                        /\ Implies(e, q) <=> IsStrictPrefix(q, p)
                        /\ ~ Hides(e, q)
    BY <1>8 DEF Makes, Implies, Hides, p
  <2>2. \A q \in Path : q \in Prefixes(Front(p)) \ {<<>>} <=> IsStrictPrefix(q, p)
    BY <1>2 DEF Path
  <2>3. DOMAIN t \subseteq Path /\ DOMAIN u \subseteq Path
    BY <1>1, <1>3, <1>5 DEF Tree
  <2>4. \A q \in DOMAIN ready : q # p => q \in DOMAIN u /\ u[q] = ready[q]
    BY <1>3 DEF p
  <2>5. \A q \in DOMAIN u : q # p => q \in DOMAIN ready
    BY <1>3
  <2>6. \A q \in Path : IsStrictPrefix(q, p) =>
          q \in DOMAIN u /\ u[q] = Dir /\ (q \in DOMAIN t => t[q] = Dir)
    BY <1>2, <1>4, <2>2, <2>4
  <2>7. \A q \in DOMAIN t \cup DOMAIN u : q # p /\ ~ IsStrictPrefix(q, p) =>
          q \in DOMAIN t /\ q \in DOMAIN u /\ u[q] = t[q]
    BY <1>2, <2>2, <2>3, <2>4, <2>5
  <2> QED BY <1>3, <1>8, <2>1, <2>3, <2>6, <2>7 DEF Effects
<1> QED BY <1>7, <1>8 DEF p

\* A link is put at its path, and what stood there is removed before.
LEMMA LinkDoes ==
  ASSUME UnpackTypeOK, Whereabouts, Link, Straight(tree, current)
  PROVE  Frame(tree, tree', current) /\ Does(current)
<1> DEFINE p == current.path
           ready == WithDirs(tree, Front(p))
           cleared == Removed(ready, p)
           node == [kind |-> "link", to |-> LinkTarget(current)]
<1>1. /\ current \in TarEntry /\ current.kind \in {"link", "hard"} /\ current.to \in Path
      /\ p \in Path /\ p \in Seq(Names) /\ p # <<>> /\ Front(p) \in Seq(Names)
  <2>1. current \in TarEntry /\ current.kind \in {"link", "hard"}
    BY CurrentIs DEF Link
  <2>2. p \in Path /\ current.to \in Path
    BY <2>1, TarEntryIs DEF Path
  <2> QED BY <2>1, <2>2, FrontOfEntry
<1>2. node \in Node /\ node.kind = "link"
  <2>1. Front(p) \o current.to \in Path
    BY <1>1 DEF Path
  <2>2. LinkTarget(current) \in Path
    BY <1>1, <2>1 DEF LinkTarget
  <2> QED BY <2>2 DEF Node, LinkNode
<1>3. CASE CanMkdir(tree, Front(p))
  <2>1. Tree(ready) /\ Straight(ready, current) /\ Frame(tree, ready, current)
    BY <1>1, <1>3, ReadyFrame DEF UnpackTypeOK
  <2>2. At(ready, p) = p
    BY <1>1, <2>1, PlainPath DEF Straight
  <2>3. /\ Tree(cleared) /\ DOMAIN cleared \subseteq DOMAIN ready
        /\ \A q \in DOMAIN cleared : cleared[q] = ready[q]
        /\ \A q \in DOMAIN ready : q # p => q \in DOMAIN cleared
    BY <1>1, <2>1, <2>2, RemovedIs
  <2>4. At(cleared, p) = p
    <3>1. \A q \in Prefixes(p) : q \in Seq(Names)
      BY <1>1, PrefixesAre
    <3>2. \A q \in Prefixes(p) : Kind(cleared, q) = "link" => Kind(ready, q) = "link"
      <4> HIDE DEF cleared, ready
      <4> QED BY <2>1, <2>3, <3>1, KindIs
    <3> HIDE DEF cleared, ready
    <3>3. \A q \in Prefixes(p) : Kind(cleared, q) = "link" => q = p
      BY <2>1, <3>2 DEF Straight
    <3> QED BY <1>1, <2>3, <3>3, PlainPath
  <2>5. Frame(tree, cleared, current)
    <3> HIDE DEF cleared, ready
    <3>1. current.kind \in {"link", "hard"} /\ current.path = p
      BY <1>1
    <3> HIDE DEF p
    <3> QED BY <2>1, <2>3, <3>1 DEF Frame
  <2>6. ASSUME tree' = Put(cleared, p, node)
        PROVE  Frame(tree, tree', current) /\ Does(current)
    <3> DEFINE u == Put(cleared, p, node)
    <3>0. u = Put(cleared, p, node) /\ ready = WithDirs(tree, Front(p))
      OBVIOUS
    <3>1. Agrees(node, current) \/ current.kind = "hard"
      BY <1>1 DEF Agrees, Made, LinkTarget
    <3>2. /\ current.kind \in {"link", "hard", "file"} /\ current.kind # "file"
          /\ node.kind # "file" /\ node.kind = "link"
      BY <1>1, <1>2
    <3>3. \A q \in DOMAIN ready : q # p => q \in DOMAIN cleared /\ cleared[q] = ready[q]
      BY <2>3
    <3>4. Tree(tree)
      BY DEF UnpackTypeOK
    <3> HIDE DEF u, cleared, ready, node
    <3>5. Frame(tree, u, current) /\ (Agrees(node, current) /\ current.kind # "hard" => Effects(tree, u, current))
      BY <1>1, <1>2, <1>3, <2>3, <3>0, <3>2, <3>3, <3>4, PutDoes
    <3> QED BY <2>6, <3>0, <3>1, <3>5 DEF Does
  <2>7. \/ tree' = Put(cleared, p, node)
        \/ tree' = cleared /\ phase' # "extract"
    BY <1>3, <2>4 DEF Link, Fail, NextImage
  <2> QED BY <2>5, <2>6, <2>7 DEF Does
<1>4. CASE ~ CanMkdir(tree, Front(p))
  <2>1. tree' = tree /\ phase' # "extract"
    BY <1>4 DEF Link, Fail, NextImage
  <2> QED BY <2>1, FrameSame DEF Does
<1> QED BY <1>3, <1>4

\* A file is written at its path, and its owner is its entry's, root or who had it.
LEMMA FileDoes ==
  ASSUME UnpackTypeOK, Whereabouts, File, Straight(tree, current)
  PROVE  Frame(tree, tree', current) /\ Does(current)
<1> DEFINE p == current.path
           ready == WithDirs(tree, Front(p))
           old == IF Kind(ready, p) = "file" THEN ready[p].owner ELSE 0
           new == IF current.owner = 0 THEN old ELSE current.owner
           Written(data, owner) ==
             Put(ready, p, [kind |-> "file", data |-> data, owner |-> owner])
<1>1. /\ current \in TarEntry /\ current.kind = "file"
      /\ current.data \in Data /\ current.owner \in Nat
      /\ p \in Path /\ p \in Seq(Names) /\ p # <<>> /\ Front(p) \in Seq(Names)
  <2>1. current \in TarEntry /\ current.kind = "file"
    BY CurrentIs DEF File
  <2>2. p \in Path /\ current.data \in Data /\ current.owner \in Nat
    BY <2>1, TarEntryIs DEF Path
  <2> QED BY <2>1, <2>2, FrontOfEntry
<1>2. CASE CanMkdir(tree, Front(p))
  <2>1. /\ Tree(ready) /\ Straight(ready, current) /\ Frame(tree, ready, current)
        /\ \A q \in DOMAIN tree : ready[q] = tree[q]
        /\ DOMAIN ready = DOMAIN tree \cup (Prefixes(Front(p)) \ {<<>>})
    BY <1>1, <1>2, ReadyFrame DEF UnpackTypeOK
  <2>2. Leads(ready, p) = p
    <3>1. p \in Prefixes(p)
      BY <1>1, PrefixOrder, PrefixesAre
    <3> HIDE DEF ready
    <3>2. Kind(ready, p) # "link"
      BY <1>1, <2>1, <3>1 DEF Straight
    <3> QED BY <1>1, <2>1, <3>2, PlainPath DEF Straight
  <2>3. ASSUME Kind(ready, p) # "dir", NEW data \in Data \cup {Partial}, NEW owner \in {old, new}
        PROVE  /\ Frame(tree, Written(data, owner), current)
               /\ data = current.data /\ (owner = new \/ mayFail("chown"))
                    => Effects(tree, Written(data, owner), current)
    <3> DEFINE node == [kind |-> "file", data |-> data, owner |-> owner]
               u == Put(ready, p, node)
    <3>0. u = Put(ready, p, node) /\ ready = WithDirs(tree, Front(p)) /\ u = Written(data, owner)
      OBVIOUS
    <3>1. Kind(ready, p) = "file" <=> p \in DOMAIN ready /\ ready[p].kind = "file"
      BY <1>1, <2>1, KindIs
    <3>2. old \in Nat /\ new \in Nat
      <4> HIDE DEF ready
      <4>1. Kind(ready, p) = "file" => ready[p].owner \in Nat
        BY <2>1, <3>1, NodeIs DEF Tree
      <4> QED BY <1>1, <4>1
    <3>3. node \in Node /\ node.kind = "file" /\ node.owner = owner /\ node.data = data
      BY <1>1, <3>2 DEF Node, FileNode
    <3>4. \/ node.owner \in {0, current.owner}
          \/ p \in DOMAIN ready /\ ready[p].kind = "file" /\ node.owner = ready[p].owner
      <4> HIDE DEF ready, node
      <4> QED BY <2>3, <3>1, <3>3
    <3>5. data = current.data /\ (owner = new \/ mayFail("chown")) => Agrees(node, current)
      <4> HIDE DEF ready, node
      <4> QED BY <1>1, <3>3 DEF Agrees
    <3>6. p \in DOMAIN tree => tree[p] # Dir
      <4>1. ~ IsDir(ready, p)
        BY <1>1, <2>1, <2>3, KindIs
      <4> HIDE DEF ready
      <4> QED BY <2>1, <4>1 DEF IsDir
    <3>7. /\ current.kind \in {"link", "hard", "file"} /\ Tree(tree) /\ node.kind # "link"
          /\ \A q \in DOMAIN ready : q # p => q \in DOMAIN ready /\ ready[q] = ready[q]
          /\ DOMAIN ready \subseteq DOMAIN ready /\ current.kind # "hard"
      BY <1>1, <3>3 DEF UnpackTypeOK
    <3> HIDE DEF u, node, ready, new, old
    <3>8. Frame(tree, u, current) /\ (Agrees(node, current) => Effects(tree, u, current))
      BY <1>1, <1>2, <3>0, <3>3, <3>4, <3>6, <3>7, PutDoes
    <3> HIDE DEF Written
    <3> QED BY <3>0, <3>5, <3>8
  <2>4. \/ Kind(ready, p) # "dir" /\ tree' = Written(current.data, new)
        \/ Kind(ready, p) # "dir" /\ mayFail("chown") /\ tree' = Written(current.data, old)
        \/ Kind(ready, p) # "dir" /\ tree' = Written(Partial, old) /\ phase' # "extract"
        \/ tree' = ready /\ phase' # "extract"
    BY <1>2, <2>2 DEF File, Fail, NextImage, GoDown
  <2> HIDE DEF Written, ready, old, new
  <2> QED BY <1>1, <2>1, <2>3, <2>4 DEF Does
<1>3. CASE ~ CanMkdir(tree, Front(p))
  <2>1. tree' = tree /\ phase' # "extract"
    BY <1>3 DEF File, Fail, NextImage
  <2> QED BY <2>1, FrameSame DEF Does
<1> QED BY <1>2, <1>3

\* The layers' places, and the entries'.
LEMMA SpotsAre ==
  ASSUME scenario \in Scenarios
  PROVE  /\ \A i, j : <<i, j>> \in Spots <=> /\ i \in DOMAIN scenario.images
                                             /\ scenario.images[i].given
                                             /\ j \in DOMAIN scenario.images[i].layers
         /\ \A s \in Spots : /\ s = <<s[1], s[2]>> /\ s[1] \in Nat \ {0} /\ s[2] \in Nat \ {0}
                             /\ s[1] <= Len(scenario.images)
                             /\ s[2] <= Len(scenario.images[s[1]].layers)
                             /\ LayerAt(s) \in Seq(TarEntry) /\ s # Bottom
<1>1. scenario.images \in Seq(Image)
  BY ScenarioIs
<1>2. \A i \in DOMAIN scenario.images :
        /\ i \in Nat \ {0} /\ i <= Len(scenario.images)
        /\ scenario.images[i].layers \in Seq(Seq(TarEntry))
        /\ \A j \in DOMAIN scenario.images[i].layers :
             /\ j \in Nat \ {0} /\ j <= Len(scenario.images[i].layers)
             /\ scenario.images[i].layers[j] \in Seq(TarEntry)
  <2>1. \A i \in DOMAIN scenario.images : i \in Nat \ {0} /\ i <= Len(scenario.images)
    BY <1>1
  <2>2. ASSUME NEW i \in DOMAIN scenario.images
        PROVE  /\ scenario.images[i].layers \in Seq(Seq(TarEntry))
               /\ \A j \in DOMAIN scenario.images[i].layers :
                    /\ j \in Nat \ {0} /\ j <= Len(scenario.images[i].layers)
                    /\ scenario.images[i].layers[j] \in Seq(TarEntry)
    <3>1. /\ scenario.images[i].layers \in Seq(Seq(TarEntry))
          /\ \A j \in DOMAIN scenario.images[i].layers :
               scenario.images[i].layers[j] \in Seq(TarEntry)
      BY <2>2, ScenarioIs
    <3> QED BY <3>1
  <2> QED BY <2>1, <2>2
<1>3. \A i, j : <<i, j>> \in Spots <=> /\ i \in DOMAIN scenario.images
                                       /\ scenario.images[i].given
                                       /\ j \in DOMAIN scenario.images[i].layers
  BY DEF Spots
<1>4. ASSUME NEW s \in Spots
      PROVE  /\ s = <<s[1], s[2]>> /\ s[1] \in Nat \ {0} /\ s[2] \in Nat \ {0}
             /\ s[1] <= Len(scenario.images)
             /\ s[2] <= Len(scenario.images[s[1]].layers)
             /\ LayerAt(s) \in Seq(TarEntry) /\ s # Bottom
  <2>0. PICK i \in DOMAIN scenario.images : s \in {i} \X DOMAIN scenario.images[i].layers
    BY DEF Spots
  <2>1. PICK j \in DOMAIN scenario.images[i].layers : s = <<i, j>>
    BY <2>0
  <2>2. /\ s = <<s[1], s[2]>> /\ s[1] = i /\ s[2] = j
    BY <2>1
  <2>3. LayerAt(s) \in Seq(TarEntry)
    BY <1>2, <2>1, <2>2 DEF LayerAt
  <2>4. s # Bottom
    <3>1. i # 0
      BY <1>2
    <3> QED BY <2>2, <3>1 DEF Bottom
  <2> QED BY <1>2, <2>1, <2>2, <2>3, <2>4
<1> QED BY <1>3, <1>4

\* The entries are those of the layers.
LEMMA SitesAre ==
  ASSUME scenario \in Scenarios
  PROVE  /\ \A z \in Sites : /\ z = <<z[1], z[2], z[3]>> /\ <<z[1], z[2]>> \in Spots
                             /\ z[1] \in Nat \ {0} /\ z[2] \in Nat \ {0} /\ z[3] \in Nat \ {0}
                             /\ z[3] \in DOMAIN LayerAt(<<z[1], z[2]>>)
                             /\ EntryAt(z) \in Range(LayerAt(<<z[1], z[2]>>))
                             /\ EntryAt(z) \in TarEntry /\ EntryAt(z) \in Entries
         /\ \A s \in Spots : \A pos \in DOMAIN LayerAt(s) :
              <<s[1], s[2], pos>> \in Sites /\ EntryAt(<<s[1], s[2], pos>>) = LayerAt(s)[pos]
<1>1. ASSUME NEW s \in Spots, NEW pos \in DOMAIN LayerAt(s)
      PROVE  /\ <<s[1], s[2], pos>> \in Sites /\ EntryAt(<<s[1], s[2], pos>>) = LayerAt(s)[pos]
             /\ pos \in Nat \ {0} /\ LayerAt(s)[pos] \in TarEntry
             /\ LayerAt(s)[pos] \in Range(LayerAt(s)) /\ LayerAt(s)[pos] \in Entries
  <2>1. s = <<s[1], s[2]>> /\ LayerAt(s) \in Seq(TarEntry)
    BY SpotsAre
  <2>2. <<s[1], s[2], pos>> \in Sites
    BY DEF Sites
  <2>3. pos \in Nat \ {0} /\ LayerAt(s)[pos] \in TarEntry
    BY <2>1
  <2>4. LayerAt(s)[pos] \in Range(LayerAt(s))
    BY DEF Range
  <2>5. LayerAt(s)[pos] \in Entries
    BY <2>4 DEF Entries
  <2>6. EntryAt(<<s[1], s[2], pos>>) = LayerAt(s)[pos]
    BY <2>1 DEF EntryAt
  <2> QED BY <2>2, <2>3, <2>4, <2>5, <2>6
<1>2. ASSUME NEW z \in Sites
      PROVE  /\ z = <<z[1], z[2], z[3]>> /\ <<z[1], z[2]>> \in Spots
             /\ z[1] \in Nat \ {0} /\ z[2] \in Nat \ {0} /\ z[3] \in Nat \ {0}
             /\ z[3] \in DOMAIN LayerAt(<<z[1], z[2]>>)
             /\ EntryAt(z) \in Range(LayerAt(<<z[1], z[2]>>))
             /\ EntryAt(z) \in TarEntry /\ EntryAt(z) \in Entries
  <2>1. PICK s \in Spots : \E pos \in DOMAIN LayerAt(s) : z = <<s[1], s[2], pos>>
    BY DEF Sites
  <2>2. PICK pos \in DOMAIN LayerAt(s) : z = <<s[1], s[2], pos>>
    BY <2>1
  <2>3. s = <<s[1], s[2]>> /\ s[1] \in Nat \ {0} /\ s[2] \in Nat \ {0}
    BY SpotsAre
  <2>4. z[1] = s[1] /\ z[2] = s[2] /\ z[3] = pos
    BY <2>2
  <2>5. s = <<z[1], z[2]>> /\ EntryAt(z) = LayerAt(s)[pos]
    BY <2>3, <2>4 DEF EntryAt
  <2> QED BY <1>1, <2>2, <2>3, <2>4, <2>5
<1> QED BY <1>1, <1>2

\* The current place.
Here == <<image, layer, entry>>

\* The current place is one of them while an entry is extracted.
LEMMA HereIs ==
  ASSUME UnpackTypeOK, Whereabouts, NEW kinds, Extracting(kinds)
  PROVE  Here \in Sites /\ EntryAt(Here) = current /\ current \in Entries
<1>1. image \in DOMAIN scenario.images /\ scenario.images[image].given
  BY ScenarioIs DEF UnpackTypeOK, Whereabouts, Extracting
<1>2. layer \in DOMAIN Layers /\ entry \in DOMAIN Layers[layer]
  <2>1. Layers \in Seq(Seq(TarEntry)) /\ layer \in 1 .. Len(Layers)
    BY <1>1, ScenarioIs DEF UnpackTypeOK, Extracting, Layers
  <2>2. Layers[layer] \in Seq(TarEntry) /\ entry \in 1 .. Len(Layers[layer])
    BY <2>1 DEF UnpackTypeOK, Extracting
  <2> QED BY <2>1, <2>2
<1>3. <<image, layer>> \in Spots /\ LayerAt(<<image, layer>>) = Layers[layer]
  BY <1>1, <1>2, SpotsAre DEF LayerAt, Layers, UnpackTypeOK
<1>4. Here \in Sites /\ EntryAt(Here) = current
  <2>1. entry \in DOMAIN LayerAt(<<image, layer>>)
    BY <1>2, <1>3
  <2>2. <<image, layer>>[1] = image /\ <<image, layer>>[2] = layer
    OBVIOUS
  <2> QED BY <1>3, <2>1, <2>2, SitesAre DEF Here, current, UnpackTypeOK
<1> QED BY <1>4, SitesAre DEF UnpackTypeOK

\* No link is in the way of an entry, unless it is there for another one.
LEMMA StraightWay ==
  ASSUME UnpackTypeOK, Whereabouts, LinksStay, Origins,
         Extracting({"file", "link", "hard", "dir", "white", "opaque", "here", "up"})
  PROVE  Straight(tree, current)
<1>1. current \in TarEntry /\ current.path \in Seq(Names) /\ current \in Entries
      /\ current.kind \in {"file", "link", "hard", "dir", "white", "opaque", "here", "up"}
  BY CurrentIs, TarEntryIs, HereIs
<1> SUFFICES ASSUME NEW q \in Prefixes(current.path), Kind(tree, q) = "link"
             PROVE  q = current.path /\ current.kind \in {"link", "hard", "white"}
  BY DEF Straight
<1>2. q \in Seq(Names) /\ IsPrefix(q, current.path)
  BY <1>1, PrefixesAre
<1>3. q \in LinkPaths
  BY <1>2, KindIs DEF Origins, UnpackTypeOK
<1>4. /\ current.kind \in {"file", "dir", "opaque", "here", "up"} => ~ IsPrefix(q, current.path)
      /\ current.kind \in {"link", "hard", "white"} => ~ IsStrictPrefix(q, current.path)
  BY <1>1, <1>3 DEF LinksStay, LinkPaths
<1> QED BY <1>1, <1>2, <1>4 DEF IsStrictPrefix

\* What each entry does, when no link is in its way.
LEMMA ExtractDoes ==
  ASSUME UnpackTypeOK, Whereabouts, LinksStay, Origins, Extract
  PROVE  /\ current \in Entries /\ current \in TarEntry /\ Frame(tree, tree', current)
         /\ current.kind # "opaque" => Does(current)
         /\ current.kind = "opaque" =>
              /\ Straight(tree, current)
              /\ (\A q \in Path : IsStrictPrefix(q, current.path) /\ q \in DOMAIN tree => tree[q] = Dir)
                    => Does(current)
<1> DEFINE kinds == {"file", "link", "hard", "dir", "white", "opaque", "here", "up"}
<1>1. CASE Extracting(kinds)
  <2>1. current \in Entries /\ current \in TarEntry /\ Straight(tree, current)
    BY <1>1, HereIs, CurrentIs, StraightWay
  <2>2. CASE Whiteout
    BY <2>1, <2>2, WhiteoutDoes DEF Whiteout, Extracting
  <2>3. CASE Opaque
    BY <2>1, <2>3, OpaqueDoes DEF Opaque, Extracting
  <2>4. CASE Directory
    BY <2>1, <2>4, DirectoryDoes DEF Directory, Extracting
  <2>5. CASE Link
    BY <2>1, <2>5, LinkDoes DEF Link, Extracting
  <2>6. CASE File
    BY <2>1, <2>6, FileDoes DEF File, Extracting
  <2>7. CASE WhiteoutDots
    BY <2>1, <2>7, DotsDoes DEF WhiteoutDots, Extracting
  <2>8. ~ Skip
    BY <1>1 DEF Skip, Extracting
  <2> QED BY <2>1, <2>2, <2>3, <2>4, <2>5, <2>6, <2>7, <2>8 DEF Extract
<1>2. CASE Skip
  <2>1. current \in Entries /\ current \in TarEntry /\ current.kind = "other" /\ tree' = tree
    BY <1>2, HereIs, CurrentIs DEF Skip
  <2>2. Effects(tree, tree, current)
    BY <2>1 DEF Effects, Makes, Implies, Hides
  <2> QED BY <2>1, <2>2, FrameSame DEF Does
<1>3. CASE ~ Skip
  <2>1. Extracting(kinds)
    BY <1>3 DEF Extract, Whiteout, WhiteoutDots, Opaque, Directory, Link, File, Extracting
  <2> QED BY <1>1, <2>1
<1> QED BY <1>2, <1>3

\* What the scenario says stays as it is.
LEMMA SameScenario ==
  ASSUME scenario' = scenario
  PROVE  /\ Spots' = Spots /\ Entries' = Entries /\ Sites' = Sites /\ LinkPaths' = LinkPaths
         /\ \A z : EntryAt(z)' = EntryAt(z)
         /\ \A s, p : OwnersAt(s, p)' = OwnersAt(s, p)
         /\ LinksStay' <=> LinksStay
         /\ Ordinary' <=> Ordinary
         /\ \A node, e : Agrees(node, e)' <=> Agrees(node, e)
<1>1. Spots' = Spots
  BY DEF Spots
<1>2. \A s : LayerAt(s)' = LayerAt(s)
  BY DEF LayerAt
<1>3. Entries' = Entries
  BY <1>1, <1>2 DEF Entries
<1>4. Sites' = Sites
  BY <1>1, <1>2 DEF Sites
<1>5. LinkPaths' = LinkPaths
  BY <1>3 DEF LinkPaths
<1>6. \A z : EntryAt(z)' = EntryAt(z)
  BY <1>2 DEF EntryAt
<1>7. \A s, p : OwnersAt(s, p)' = OwnersAt(s, p)
  BY <1>2 DEF OwnersAt
<1>8. LinksStay' <=> LinksStay
  BY <1>3 DEF LinksStay
<1>9. HidesFirst' <=> HidesFirst
  BY <1>1, <1>2 DEF HidesFirst
<1>10. OwnersStay' <=> OwnersStay
  BY <1>1, <1>2, <1>7 DEF OwnersStay
<1>11. OpaquesFit' <=> OpaquesFit
  BY <1>1, <1>2, <1>7 DEF OpaquesFit
<1>12. Ordinary' <=> Ordinary
  BY <1>3, <1>8, <1>9, <1>10, <1>11 DEF Ordinary, PlainEntries, mayFail
<1>13. \A node, e : Agrees(node, e)' <=> Agrees(node, e)
  BY DEF Agrees, Made, mayFail
<1> QED BY <1>1, <1>3, <1>4, <1>5, <1>6, <1>7, <1>8, <1>12, <1>13

\* Only the extraction of an entry changes the tree.
LEMMA ElseSame ==
  ASSUME [UnpackNext]_unpackVars
  PROVE  scenario' = scenario /\ (Extract \/ tree' = tree)
<1>1. CASE Extract
  BY <1>1, ExtractEnds
<1>2. CASE Fetch \/ Refuse \/ NextLayer \/ ImageDone
  BY <1>2 DEF Fetch, Refuse, NextLayer, ImageDone
<1>3. CASE Return \/ Crash \/ RunAgain \/ UNCHANGED unpackVars
  BY <1>3 DEF Return, Crash, RunAgain, unpackVars
<1> QED BY <1>1, <1>2, <1>3 DEF UnpackNext, Extract

\* What is in the target at first was there before.
LEMMA OriginatedStart == UnpackInit => Originated
<1> SUFFICES ASSUME UnpackInit
             PROVE  Origins
  BY DEF Originated
<1>1. tree = scenario.tree
  BY DEF UnpackInit
<1>2. ASSUME NEW p \in DOMAIN tree, tree[p].kind = "file"
      PROVE  tree[p].owner \in OwnersAt(Bottom, p)
  BY <1>1, <1>2 DEF OwnersAt
<1>3. \A p \in DOMAIN tree : tree[p].kind = "link" => p \in LinkPaths
  BY <1>1 DEF LinkPaths
<1> QED BY <1>1, <1>2, <1>3 DEF Origins

\* And what an entry adds comes from it.
LEMMA OriginatedStep ==
  ASSUME UnpackTypeOK, Whereabouts, Originated, [UnpackNext]_unpackVars
  PROVE  Originated'
<1>1. scenario' = scenario
  BY ElseSame
<1>2. /\ Spots' = Spots /\ Entries' = Entries /\ LinkPaths' = LinkPaths
      /\ \A s, p : OwnersAt(s, p)' = OwnersAt(s, p)
      /\ LinksStay' <=> LinksStay
  BY <1>1, SameScenario
<1>3. ASSUME LinksStay, NEW e \in Entries, Frame(tree, tree', e)
      PROVE  Origins'
  <2>1. Origins
    BY <1>3 DEF Originated
  <2>2. \A p \in DOMAIN tree' : p \in DOMAIN scenario.tree \/ \E f \in Entries : Brings(f, p)
    BY <1>3, <2>1 DEF Origins, Frame
  <2>3. \A p \in DOMAIN tree' : tree'[p].kind = "link" => p \in LinkPaths
    <3>1. e.kind \in {"link", "hard"} => e.path \in LinkPaths
      BY <1>3 DEF LinkPaths
    <3> QED BY <1>3, <2>1, <3>1 DEF Origins, Frame
  <2>4. ASSUME NEW p \in DOMAIN tree', tree'[p].kind = "file"
        PROVE  \E s \in Spots \cup {Bottom} :
                 OwnersAt(s, p) # {} /\ (tree'[p].owner = 0 \/ tree'[p].owner \in OwnersAt(s, p))
    <3>1. CASE p \in DOMAIN tree /\ tree[p].kind = "file" /\ tree'[p].owner = tree[p].owner
      BY <2>1, <3>1 DEF Origins
    <3>2. CASE e.kind = "file" /\ p = e.path /\ tree'[p].owner \in {0, e.owner}
      <4>1. PICK s \in Spots : e \in Range(LayerAt(s))
        BY <1>3 DEF Entries
      <4>2. s # Bottom
        BY SpotsAre DEF UnpackTypeOK
      <4>3. e.owner \in OwnersAt(s, p)
        BY <3>2, <4>1, <4>2 DEF OwnersAt
      <4> QED BY <3>2, <4>3
    <3> QED BY <1>3, <2>4, <3>1, <3>2 DEF Frame
  <2>5. \A f, p : Brings(f, p)' = Brings(f, p)
    BY DEF Brings
  <2> QED BY <1>1, <1>2, <2>2, <2>3, <2>4 DEF Origins, Brings, Bottom
<1>4. CASE Extract
  <2>1. LinksStay => current \in Entries /\ Frame(tree, tree', current)
    BY <1>4, ExtractDoes DEF Originated
  <2> QED BY <1>2, <1>3, <2>1 DEF Originated
<1>5. CASE tree' = tree
  BY <1>1, <1>2, <1>5 DEF Originated, Origins, Brings, Bottom
<1> QED BY <1>4, <1>5, ElseSame

\* What is in no layer's way is there at first.
LEMMA OthersStart == UnpackInit => OthersUntouched
BY DEF UnpackInit, OthersUntouched

\* And no step takes it away or changes it.
LEMMA OthersStep ==
  ASSUME UnpackTypeOK, Whereabouts, Originated, OthersUntouched, [UnpackNext]_unpackVars
  PROVE  OthersUntouched'
<1>1. scenario' = scenario
  BY ElseSame
<1>2. Entries' = Entries /\ (LinksStay' <=> LinksStay)
  BY <1>1, SameScenario
<1>3. CASE Extract
  <2> SUFFICES ASSUME LinksStay, NEW p \in DOMAIN scenario.tree,
                      \A e \in Entries :
                        /\ e.kind \in {"file", "link", "hard"} => e.path # p
                        /\ e.kind \in {"white", "opaque"} => ~ IsPrefix(e.path, p)
                        /\ e.kind \in {"here", "up"} => ~ IsStrictPrefix(Emptied(e), p)
               PROVE  p \in DOMAIN tree' /\ tree'[p] = scenario.tree[p]
    BY <1>1, <1>2 DEF OthersUntouched, Emptied
  <2>1. p \in DOMAIN tree /\ tree[p] = scenario.tree[p]
    BY DEF OthersUntouched
  <2>2. current \in Entries /\ Frame(tree, tree', current)
    BY <1>3, ExtractDoes DEF Originated
  <2>3. /\ ~ (current.kind \in {"file", "link", "hard"} /\ p = current.path)
        /\ ~ (current.kind \in {"white", "opaque"} /\ IsPrefix(current.path, p))
        /\ ~ (current.kind \in {"here", "up"} /\ IsStrictPrefix(Emptied(current), p))
    BY <2>2
  <2> QED BY <2>1, <2>2, <2>3 DEF Frame
<1>4. CASE tree' = tree
  BY <1>1, <1>2, <1>4 DEF OthersUntouched, Emptied
<1> QED BY <1>3, <1>4, ElseSame

\* What stands after one more entry.
LEMMA OneMore ==
  ASSUME scenario \in Scenarios, LinksStay, \A e \in Entries : e.kind # "hard",
         NEW S, S \subseteq Sites, NEW x \in Sites, ~ Later(x, x),
         \A z \in S : Later(x, z) /\ ~ Later(z, x),
         NEW t, NEW u, DOMAIN t \subseteq Path, DOMAIN u \subseteq Path,
         StandIn(t, S), Effects(t, u, EntryAt(x))
  PROVE  StandIn(u, S \cup {x})
<1> DEFINE e == EntryAt(x)
           T == S \cup {x}
<1>1. e \in TarEntry /\ e \in Entries /\ e.kind # "hard"
  BY SitesAre
<1>2. \A p \in DOMAIN t \cup DOMAIN u : ~ Makes(e, p) /\ ~ Implies(e, p) /\ ~ Hides(e, p) =>
        p \in DOMAIN t /\ p \in DOMAIN u /\ u[p] = t[p]
  BY DEF Effects
<1>3. \A p \in Path : Makes(e, p) => /\ p \in DOMAIN u /\ Agrees(u[p], e)
                                     /\ e.kind = "file" /\ p \in DOMAIN t => t[p] # Dir
  BY DEF Effects
<1>4. \A p \in Path : Implies(e, p) => p \in DOMAIN u /\ u[p] = Dir /\ (p \in DOMAIN t => t[p] = Dir)
  BY DEF Effects
<1>5. \A p \in DOMAIN u : ~ Hides(e, p)
  BY DEF Effects
<1>6. \A p \in Path : Makes(e, p) /\ e.kind \in {"dir", "opaque"} => u[p] = Dir
  <2>1. \A node : Agrees(node, e) /\ e.kind \in {"dir", "opaque"} => node = Dir
    BY DEF Agrees, Made
  <2> QED BY <1>3, <2>1
<1> HIDE DEF e
<1>7. ASSUME NEW z \in S, NEW p \in Path
      PROVE  Stands(u, T, z, p) /\ IsGone(u, T, z, p) /\ HoldsDir(u, T, z, p)
  <2>1. /\ Stands(t, S, z, p) /\ IsGone(t, S, z, p) /\ HoldsDir(t, S, z, p)
        /\ x \in T /\ S \subseteq T /\ Later(x, z) /\ e = EntryAt(x)
    BY DEF StandIn, e
  <2>2. EntryAt(z) \in TarEntry /\ EntryAt(z) \in Entries /\ EntryAt(z).kind # "hard"
    BY SitesAre
  <2> DEFINE f == EntryAt(z)
  <2>3. Stands(u, T, z, p)
    <3> SUFFICES ASSUME Makes(f, p),
                        \A y \in T : Later(y, z) => ~ Makes(EntryAt(y), p) /\ ~ Hides(EntryAt(y), p)
                 PROVE  p \in DOMAIN u /\ Agrees(u[p], f)
      BY DEF Stands
    <3>1. p \in DOMAIN t /\ Agrees(t[p], f) /\ ~ Makes(e, p) /\ ~ Hides(e, p)
      BY <2>1 DEF Stands
    <3>2. CASE Implies(e, p)
      BY <1>4, <3>1, <3>2
    <3>3. CASE ~ Implies(e, p)
      BY <1>2, <3>1, <3>3
    <3> QED BY <3>2, <3>3
  <2>4. IsGone(u, T, z, p)
    <3> SUFFICES ASSUME Hides(f, p),
                        \A y \in T : Later(y, z) => ~ Makes(EntryAt(y), p) /\ ~ Implies(EntryAt(y), p)
                 PROVE  p \notin DOMAIN u
      BY DEF IsGone
    <3>1. p \notin DOMAIN t /\ ~ Makes(e, p) /\ ~ Implies(e, p)
      BY <2>1 DEF IsGone
    <3> QED BY <1>2, <1>5, <3>1
  <2>5. HoldsDir(u, T, z, p)
    <3> SUFFICES ASSUME HasDir(f, p), \A y \in T : Later(y, z) => ~ Hides(EntryAt(y), p)
                 PROVE  p \in DOMAIN u /\ u[p] = Dir
      BY DEF HoldsDir
    <3>1. p \in DOMAIN t /\ t[p] = Dir /\ ~ Hides(e, p)
      BY <2>1 DEF HoldsDir
    <3>2. CASE Implies(e, p)
      BY <1>4, <3>2
    <3>3. CASE Makes(e, p)
      <4>1. e.kind # "file"
        BY <1>3, <3>1, <3>3
      <4>2. e.kind # "link"
        <5> SUFFICES ASSUME e.kind = "link" PROVE FALSE
          OBVIOUS
        <5>1. e.path = p
          BY <3>3 DEF Makes
        <5>2. p \in LinkPaths
          BY <1>1, <5>1 DEF LinkPaths
        <5>3. /\ f.kind \in {"file", "dir", "opaque"} => ~ IsPrefix(p, f.path)
              /\ f.kind = "link" => ~ IsStrictPrefix(p, f.path)
          BY <2>2, <5>2 DEF LinksStay, LinkPaths
        <5>4. p \in Seq(Names) /\ IsPrefix(p, p)
          BY PrefixOrder DEF Path
        <5> QED BY <5>3, <5>4 DEF HasDir, Implies, Makes, IsStrictPrefix
      <4>3. e.kind \in {"dir", "opaque"}
        BY <3>3, <4>1, <4>2 DEF Makes
      <4> QED BY <1>3, <1>6, <3>3, <4>3
    <3>4. CASE ~ Implies(e, p) /\ ~ Makes(e, p)
      BY <1>2, <3>1, <3>4
    <3> QED BY <3>2, <3>3, <3>4
  <2> QED BY <2>3, <2>4, <2>5
<1>8. ASSUME NEW p \in Path
      PROVE  Stands(u, T, x, p) /\ IsGone(u, T, x, p) /\ HoldsDir(u, T, x, p)
  <2>1. Stands(u, T, x, p)
    BY <1>3 DEF Stands, e
  <2>2. IsGone(u, T, x, p)
    BY <1>5 DEF IsGone, e
  <2>3. HoldsDir(u, T, x, p)
    BY <1>3, <1>4, <1>6 DEF HoldsDir, HasDir, e
  <2> QED BY <2>1, <2>2, <2>3
<1> QED BY <1>7, <1>8 DEF StandIn

\* What hides a path hides all that is below it.
LEMMA HidesBelow ==
  ASSUME NEW f \in TarEntry, NEW q \in Seq(Names), NEW p \in Seq(Names), IsPrefix(q, p), Hides(f, q)
  PROVE  Hides(f, p)
<1>1. f.path \in Seq(Names)
  BY TarEntryIs
<1>2. IsPrefix(f.path, q) => IsPrefix(f.path, p)
  BY <1>1, PrefixOrder
<1>3. IsStrictPrefix(f.path, q) => IsStrictPrefix(f.path, p)
  BY <1>1, PrefixOrder DEF IsStrictPrefix
<1> QED BY <1>2, <1>3 DEF Hides

\* The order of places is that of images, layers and entries.
LEMMA LaterIs ==
  ASSUME NEW i, NEW l, NEW pos, NEW z
  PROVE  Later(<<i, l, pos>>, z) <=> \/ i > z[1]
                                     \/ i = z[1] /\ l > z[2]
                                     \/ i = z[1] /\ l = z[2] /\ pos > z[3]
BY DEF Later, Above

\* The entries passed are those before the current place.
LEMMA PassedIs ==
  ASSUME UnpackTypeOK
  PROVE  /\ \A z \in Passed : Later(Here, z) /\ ~ Later(z, Here)
         /\ ~ Later(Here, Here) /\ Passed \subseteq Sites
<1>1. image \in Nat /\ layer \in Nat /\ entry \in Nat /\ scenario \in Scenarios
  BY DEF UnpackTypeOK
<1>2. ASSUME NEW z \in Passed
      PROVE  Later(Here, z) /\ ~ Later(z, Here)
  <2>1. z \in Sites /\ Later(Here, z)
    BY DEF Passed, Here
  <2>2. z[1] \in Nat /\ z[2] \in Nat /\ z[3] \in Nat
    BY <1>1, <2>1, SitesAre
  <2>3. ~ Later(z, Here)
    BY <1>1, <2>1, <2>2 DEF Later, Above, Here
  <2> QED BY <2>1, <2>3
<1>3. ~ Later(Here, Here)
  BY <1>1 DEF Later, Above, Here
<1> QED BY <1>2, <1>3 DEF Passed

\* Another entry.
LEMMA PassedMore ==
  ASSUME UnpackTypeOK, Here \in Sites, NextEntry, scenario' = scenario
  PROVE  Passed' = Passed \cup {Here}
<1>1. Sites' = Sites
  BY SameScenario
<1>2. image \in Nat /\ layer \in Nat /\ entry \in Nat /\ scenario \in Scenarios
  BY DEF UnpackTypeOK
<1>3. ASSUME NEW z \in Sites
      PROVE  Later(<<image, layer, entry + 1>>, z) <=> Later(<<image, layer, entry>>, z) \/ z = Here
  <2>1. z[1] \in Nat /\ z[2] \in Nat /\ z[3] \in Nat /\ z = <<z[1], z[2], z[3]>>
    BY <1>2, SitesAre
  <2>2. z = Here <=> z[1] = image /\ z[2] = layer /\ z[3] = entry
    BY <2>1 DEF Here
  <2> QED BY <1>2, <2>1, <2>2, LaterIs
<1>4. Passed' = {z \in Sites : Later(<<image, layer, entry + 1>>, z)}
  BY <1>1 DEF Passed, NextEntry, Later, Above
<1> QED BY <1>3, <1>4 DEF Passed

\* Nothing is passed by going on to the next layer or image.
LEMMA PassedSame ==
  ASSUME UnpackTypeOK, Whereabouts, [UnpackNext]_unpackVars, ~ Extract, ~ failed', phase' # "down"
  PROVE  \/ Passed' = Passed /\ ~ failed /\ phase # "down"
         \/ Passed' = {}
<1>1. scenario' = scenario /\ Sites' = Sites
  BY ElseSame, SameScenario
<1>2. image \in Nat /\ layer \in Nat /\ entry \in Nat /\ scenario \in Scenarios
  BY DEF UnpackTypeOK
<1>3. Passed' = {z \in Sites : Later(<<image', layer', entry'>>, z)}
  BY <1>1 DEF Passed, Later, Above
<1>4. \A z \in Sites : /\ z[1] \in Nat \ {0} /\ z[2] \in Nat \ {0} /\ z[3] \in Nat \ {0}
                       /\ scenario.images[z[1]].given
                       /\ z[2] <= Len(scenario.images[z[1]].layers)
                       /\ z[3] <= Len(scenario.images[z[1]].layers[z[2]])
  <2> SUFFICES ASSUME NEW z \in Sites
               PROVE  /\ z[1] \in Nat \ {0} /\ z[2] \in Nat \ {0} /\ z[3] \in Nat \ {0}
                      /\ scenario.images[z[1]].given
                      /\ z[2] <= Len(scenario.images[z[1]].layers)
                      /\ z[3] <= Len(scenario.images[z[1]].layers[z[2]])
    OBVIOUS
  <2>1. /\ z[1] \in Nat \ {0} /\ z[2] \in Nat \ {0} /\ z[3] \in Nat \ {0}
        /\ <<z[1], z[2]>> \in Spots /\ z[3] \in DOMAIN LayerAt(<<z[1], z[2]>>)
    BY <1>2, SitesAre
  <2>2. /\ scenario.images[z[1]].given /\ z[2] \in DOMAIN scenario.images[z[1]].layers
        /\ z[1] \in DOMAIN scenario.images
    BY <1>2, <2>1, SpotsAre
  <2>3. /\ scenario.images[z[1]].layers \in Seq(Seq(TarEntry))
        /\ scenario.images[z[1]].layers[z[2]] \in Seq(TarEntry)
    BY <1>2, <2>2, ScenarioIs
  <2>4. LayerAt(<<z[1], z[2]>>) = scenario.images[z[1]].layers[z[2]]
    BY DEF LayerAt
  <2> QED BY <2>1, <2>2, <2>3, <2>4
<1>5. ASSUME \A z \in Sites : Later(<<image', layer', entry'>>, z) <=> Later(<<image, layer, entry>>, z)
      PROVE  Passed' = Passed
  BY <1>3, <1>5 DEF Passed
<1>6. ASSUME image' = image /\ layer' = layer /\ entry' = entry
      PROVE  Passed' = Passed
  BY <1>3, <1>6 DEF Passed
<1>7. CASE Fetch
  <2>1. layer = 1 /\ entry = 1 /\ ~ failed /\ phase # "down"
    BY <1>7 DEF Whereabouts, Fetch, Fail
  <2>2. CASE NextImage /\ ~ scenario.images[image].given
    <3>1. \A z \in Sites : Later(<<image', layer', entry'>>, z) <=> Later(<<image, layer, entry>>, z)
      <4>1. image' = image + 1 /\ layer' = 1 /\ entry' = 1
        BY <2>2 DEF NextImage
      <4>2. \A z \in Sites : z[1] # image
        BY <1>4, <2>2
      <4> QED BY <1>2, <1>4, <2>1, <4>1, <4>2, LaterIs
    <3> QED BY <1>5, <2>1, <3>1
  <2>3. CASE image' = image /\ layer' = 1 /\ entry' = 1
    BY <1>6, <2>1, <2>3
  <2> QED BY <1>7, <2>2, <2>3 DEF Fetch, Fail
<1>8. CASE NextLayer
  <2>1. \A z \in Sites : Later(<<image', layer', entry'>>, z) <=> Later(<<image, layer, entry>>, z)
    <3>1. image' = image /\ layer' = layer + 1 /\ entry' = 1
      BY <1>8 DEF NextLayer
    <3>2. \A z \in Sites : z[1] = image /\ z[2] = layer => z[3] < entry
      <4>1. entry > Len(scenario.images[image].layers[layer])
        BY <1>8 DEF NextLayer, Layers
      <4>2. ASSUME NEW z \in Sites, z[1] = image, z[2] = layer
            PROVE  z[3] < entry
        <5>1. z[3] <= Len(scenario.images[image].layers[layer]) /\ z[3] \in Nat
          BY <1>4, <4>2
        <5>2. z[3] \in DOMAIN LayerAt(<<z[1], z[2]>>) /\ <<z[1], z[2]>> \in Spots
          BY <1>2, <4>2, SitesAre
        <5>3. Len(scenario.images[image].layers[layer]) \in Nat
          <6>1. LayerAt(<<z[1], z[2]>>) \in Seq(TarEntry)
            BY <1>2, <5>2, SpotsAre
          <6> QED BY <4>2, <6>1 DEF LayerAt
        <5> QED BY <1>2, <4>1, <5>1, <5>3
      <4> QED BY <4>2
    <3> QED BY <1>2, <1>4, <3>1, <3>2, LaterIs
  <2>2. ~ failed /\ phase # "down"
    BY <1>8 DEF NextLayer
  <2> QED BY <1>5, <2>1, <2>2
<1>9. CASE ImageDone
  <2>1. \A z \in Sites : Later(<<image', layer', entry'>>, z) <=> Later(<<image, layer, entry>>, z)
    <3>1. image' = image + 1 /\ layer' = 1 /\ entry' = 1
      BY <1>9 DEF ImageDone, NextImage
    <3>2. ASSUME NEW z \in Sites, z[1] = image
          PROVE  z[2] < layer
      <4>1. z[2] <= Len(scenario.images[image].layers) /\ z[2] \in Nat
        BY <1>4, <3>2
      <4>2. Len(scenario.images[image].layers) \in Nat
        <5>1. <<z[1], z[2]>> \in Spots
          BY <1>2, SitesAre
        <5>2. image \in DOMAIN scenario.images
          BY <1>2, <3>2, <5>1, SpotsAre
        <5>3. scenario.images[image].layers \in Seq(Seq(TarEntry))
          BY <1>2, <5>2, ScenarioIs
        <5> QED BY <5>3
      <4>3. layer > Len(scenario.images[image].layers)
        BY <1>9 DEF ImageDone, Layers
      <4> QED BY <1>2, <4>1, <4>2, <4>3
    <3> QED BY <1>2, <1>4, <3>1, <3>2, LaterIs
  <2>2. ~ failed /\ phase # "down"
    BY <1>9 DEF ImageDone
  <2> QED BY <1>5, <2>1, <2>2
<1>10. CASE RunAgain
  <2>1. image' = 1 /\ layer' = 1 /\ entry' = 1
    BY <1>10 DEF RunAgain
  <2>2. \A z \in Sites : ~ Later(<<image', layer', entry'>>, z)
    BY <1>4, <2>1, LaterIs
  <2> QED BY <1>3, <2>2
<1>11. CASE Return \/ UNCHANGED unpackVars
  <2>1. image' = image /\ layer' = layer /\ entry' = entry /\ ~ failed /\ phase # "down"
    BY <1>11 DEF Return, unpackVars, place
  <2> QED BY <1>6, <2>1
<1>12. ~ Refuse /\ ~ Crash
  BY DEF Refuse, Fail, Crash
<1> QED BY <1>7, <1>8, <1>9, <1>10, <1>11, <1>12 DEF UnpackNext, Extract

\* An opaque whiteout finds no file where it makes directories.
LEMMA OpaqueFits ==
  ASSUME UnpackTypeOK, Whereabouts, Opaque, LinksStay, HidesFirst, OpaquesFit, Origins,
         StandIn(tree, Passed), Straight(tree, current),
         NEW q \in Path, IsStrictPrefix(q, current.path), q \in DOMAIN tree
  PROVE  tree[q] = Dir
<1> DEFINE s == <<image, layer>>
<1>1. /\ current \in TarEntry /\ current.path \in Seq(Names) /\ current.kind = "opaque"
      /\ Here \in Sites /\ EntryAt(Here) = current
  BY CurrentIs, TarEntryIs, HereIs DEF Opaque
<1>2. scenario \in Scenarios /\ image \in Nat /\ layer \in Nat /\ entry \in Nat \ {0}
  BY DEF UnpackTypeOK
<1>3. /\ s \in Spots /\ s[1] = image /\ s[2] = layer
      /\ entry \in DOMAIN LayerAt(s) /\ LayerAt(s)[entry] = current
  <2>1. Here[1] = image /\ Here[2] = layer /\ Here[3] = entry
    BY DEF Here
  <2>2. <<Here[1], Here[2]>> \in Spots /\ Here[3] \in DOMAIN LayerAt(<<Here[1], Here[2]>>)
    BY <1>1, <1>2, SitesAre
  <2>3. EntryAt(Here) = LayerAt(<<Here[1], Here[2]>>)[Here[3]]
    BY DEF EntryAt
  <2> QED BY <1>1, <2>1, <2>2, <2>3
<1> HIDE DEF s
<1>4. q \in Seq(Names) /\ q \in Prefixes(current.path) \ {<<>>, current.path}
  BY <1>1, PrefixesAre DEF Path, IsStrictPrefix
<1>5. \/ \E m \in 1 .. entry - 1 :
           \/ LayerAt(s)[m].kind = "dir" /\ LayerAt(s)[m].path = q
           \/ Implies(LayerAt(s)[m], q)
      \/ \A r \in Spots \cup {Bottom} : OwnersAt(r, q) = {}
  BY <1>1, <1>3, <1>4 DEF OpaquesFit
<1>6. ASSUME NEW m \in 1 .. entry - 1,
             \/ LayerAt(s)[m].kind = "dir" /\ LayerAt(s)[m].path = q
             \/ Implies(LayerAt(s)[m], q)
      PROVE  tree[q] = Dir
  <2> DEFINE z == <<image, layer, m>>
             e == LayerAt(s)[m]
  <2>1. m \in DOMAIN LayerAt(s) /\ m \in Nat /\ m < entry
    <3>1. LayerAt(s) \in Seq(TarEntry)
      BY <1>2, <1>3, SpotsAre
    <3> QED BY <1>2, <1>3, <3>1
  <2>2. z \in Sites /\ EntryAt(z) = e /\ e \in TarEntry
    BY <1>2, <1>3, <2>1, SitesAre
  <2>3. z \in Passed /\ z[1] = image /\ z[2] = layer /\ z[3] = m
    <3>1. Later(<<image, layer, entry>>, z)
      BY <2>1, LaterIs
    <3> QED BY <2>2, <3>1 DEF Passed
  <2>4. HasDir(e, q)
    BY <1>6 DEF HasDir, Makes
  <2>5. e.path \in Seq(Names) /\ IsPrefix(q, e.path)
    <3>1. e.path \in Seq(Names)
      BY <2>2, TarEntryIs
    <3>2. IsPrefix(q, q)
      BY <1>4, PrefixOrder
    <3> QED BY <1>6, <3>1, <3>2 DEF Implies, IsStrictPrefix
  <2> HIDE DEF z, e
  <2>6. ASSUME NEW y \in Passed, Later(y, z)
        PROVE  ~ Hides(EntryAt(y), q)
    <3>1. /\ y \in Sites /\ Later(Here, y) /\ y = <<y[1], y[2], y[3]>>
          /\ y[1] \in Nat /\ y[2] \in Nat /\ y[3] \in Nat
          /\ y[3] \in DOMAIN LayerAt(<<y[1], y[2]>>)
      BY <1>2, PassedIs, SitesAre DEF Passed
    <3>2. y[1] = image /\ y[2] = layer /\ m < y[3]
      BY <1>2, <2>1, <2>3, <2>6, <3>1 DEF Later, Above, Here
    <3>3. y[3] \in DOMAIN LayerAt(s) /\ EntryAt(y) = LayerAt(s)[y[3]]
      BY <3>1, <3>2 DEF s, EntryAt
    <3>4. ~ Hides(EntryAt(y), e.path)
      BY <1>3, <2>1, <3>2, <3>3 DEF HidesFirst, e
    <3>5. EntryAt(y) \in TarEntry
      BY <1>2, <3>1, SitesAre
    <3> QED BY <1>4, <2>5, <3>4, <3>5, HidesBelow
  <2>7. HoldsDir(tree, Passed, z, q)
    BY <2>3 DEF StandIn
  <2> QED BY <2>2, <2>4, <2>6, <2>7 DEF HoldsDir
<1>7. CASE \A r \in Spots \cup {Bottom} : OwnersAt(r, q) = {}
  <2>1. tree[q].kind # "file"
    BY <1>7 DEF Origins
  <2>2. tree[q].kind # "link"
    <3>1. Kind(tree, q) # "link"
      BY <1>1, <1>4 DEF Straight
    <3> QED BY <1>4, <3>1, KindIs DEF UnpackTypeOK
  <2> QED BY <2>1, <2>2, NodeIs DEF UnpackTypeOK, Tree
<1> QED BY <1>5, <1>6, <1>7

\* At first, no entry has been passed.
LEMMA StoodStart == UnpackInit => Stood
<1> SUFFICES ASSUME UnpackInit
             PROVE  Passed = {}
  BY DEF Stood, StandIn
<1>1. \A z \in Sites : z[1] \in Nat \ {0} /\ z[2] \in Nat \ {0} /\ z[3] \in Nat \ {0}
  BY SitesAre DEF UnpackInit
<1> QED BY <1>1, LaterIs DEF UnpackInit, Passed

\* And whatever entry is extracted next, what was to stand still does.
LEMMA StoodStep ==
  ASSUME UnpackTypeOK, Whereabouts, Originated, Stood, [UnpackNext]_unpackVars
  PROVE  Stood'
<1> SUFFICES ASSUME Ordinary, ~ failed', phase' # "down"
             PROVE  StandIn(tree, Passed)'
  <2>1. Ordinary' <=> Ordinary
    BY ElseSame, SameScenario
  <2> QED BY <2>1 DEF Stood
<1>1. /\ \A z : EntryAt(z)' = EntryAt(z)
      /\ \A node, e : Agrees(node, e)' <=> Agrees(node, e)
  BY ElseSame, SameScenario
<1>2. ASSUME StandIn(tree', Passed')
      PROVE  StandIn(tree, Passed)'
  BY <1>1, <1>2 DEF StandIn, Stands, IsGone, HoldsDir, Makes, Hides, Implies, HasDir, Later, Above
<1>3. CASE Extract
  <2>1. phase = "extract" /\ NextEntry /\ phase' = "extract" /\ ~ failed
    <3>1. ~ Fail /\ ~ GoDown
      BY DEF Fail, GoDown
    <3>2. phase = "extract" /\ NextEntry
      BY <1>3, <3>1, ExtractEnds
    <3> QED BY <3>2 DEF NextEntry
  <2>2. StandIn(tree, Passed)
    BY <2>1 DEF Stood
  <2>3. /\ LinksStay /\ HidesFirst /\ OpaquesFit /\ ~ mayFail("remove")
        /\ \A e \in Entries : e.kind \notin {"hard", "here", "up"}
        /\ Origins
    BY DEF Ordinary, PlainEntries, Originated
  <2>4. /\ current \in Entries
        /\ current.kind # "opaque" => Does(current)
        /\ current.kind = "opaque" =>
             /\ Straight(tree, current)
             /\ (\A q \in Path : IsStrictPrefix(q, current.path) /\ q \in DOMAIN tree => tree[q] = Dir)
                   => Does(current)
    BY <1>3, <2>3, ExtractDoes
  <2>5. current.kind = "opaque" => Opaque
    BY <1>3 DEF Extract, Whiteout, WhiteoutDots, Directory, Link, File, Skip, Extracting
  <2>6. Does(current)
    BY <2>2, <2>3, <2>4, <2>5, OpaqueFits
  <2>7. Effects(tree, tree', current)
    BY <2>1, <2>3, <2>4, <2>6 DEF Does
  <2>8. Here \in Sites /\ EntryAt(Here) = current
    <3>1. \E kinds : Extracting(kinds)
      BY <1>3 DEF Extract, Whiteout, WhiteoutDots, Opaque, Directory, Link, File, Skip
    <3> QED BY <3>1, HereIs
  <2>9. Passed' = Passed \cup {Here}
    BY <2>1, <2>8, ElseSame, PassedMore
  <2>10. Tree(tree) /\ Tree(tree') /\ scenario \in Scenarios
    BY <1>3, ExtractTree DEF UnpackTypeOK
  <2>11. DOMAIN tree \subseteq Path /\ DOMAIN tree' \subseteq Path
    BY <2>10 DEF Tree
  <2>12. StandIn(tree', Passed \cup {Here})
    BY <2>2, <2>3, <2>7, <2>8, <2>10, <2>11, PassedIs, OneMore
  <2> QED BY <1>2, <2>9, <2>12
<1>4. CASE ~ Extract
  <2>1. tree' = tree
    BY <1>4, ElseSame
  <2>2. CASE Passed' = Passed /\ ~ failed /\ phase # "down"
    BY <1>2, <2>1, <2>2 DEF Stood
  <2>3. CASE Passed' = {}
    BY <1>2, <2>3 DEF StandIn
  <2> QED BY <1>4, <2>2, <2>3, PassedSame
<1> QED BY <1>3, <1>4

\* All layers, and what was there before.
All == Spots \cup {Bottom}

\* The layers are in a line.
LEMMA InLine ==
  ASSUME scenario \in Scenarios
  PROVE  /\ \A s \in All : s = <<s[1], s[2]>> /\ s[1] \in Nat /\ s[2] \in Nat
         /\ \A r, s \in All : r = s \/ Above(r, s) \/ Above(s, r)
         /\ \A r, s \in All : ~ (Above(r, s) /\ Above(s, r)) /\ ~ Above(s, s)
         /\ \A q, r, s \in All : Above(q, r) /\ Above(r, s) => Above(q, s)
         /\ \A s \in Spots : Above(s, Bottom)
<1>1. ASSUME NEW s \in All
      PROVE  s = <<s[1], s[2]>> /\ s[1] \in Nat /\ s[2] \in Nat
  <2>1. CASE s \in Spots
    BY <2>1, SpotsAre
  <2>2. CASE s = Bottom
    BY <2>2 DEF Bottom
  <2> QED BY <2>1, <2>2 DEF All
<1>2. \A r, s \in All : r[1] = s[1] /\ r[2] = s[2] => r = s
  BY <1>1
<1>3. \A r, s \in All : r = s \/ Above(r, s) \/ Above(s, r)
  BY <1>1, <1>2 DEF Above
<1>4. \A r, s \in All : ~ (Above(r, s) /\ Above(s, r)) /\ ~ Above(s, s)
  BY <1>1 DEF Above
<1>5. \A q, r, s \in All : Above(q, r) /\ Above(r, s) => Above(q, s)
  <2> SUFFICES ASSUME NEW q \in All, NEW r \in All, NEW s \in All, Above(q, r), Above(r, s)
               PROVE  Above(q, s)
    OBVIOUS
  <2>1. /\ q[1] \in Nat /\ q[2] \in Nat /\ r[1] \in Nat /\ r[2] \in Nat
        /\ s[1] \in Nat /\ s[2] \in Nat
    BY <1>1
  <2> QED BY <2>1 DEF Above
<1>6. \A s \in Spots : Above(s, Bottom)
  <2>1. \A s \in Spots : s[1] \in Nat \ {0}
    BY SpotsAre
  <2> QED BY <2>1 DEF Above, Bottom
<1> QED BY <1>1, <1>3, <1>4, <1>5, <1>6

\* Some of them is the highest.
LEMMA Highest ==
  ASSUME scenario \in Scenarios, NEW H, H \subseteq All, H # {}
  PROVE  \E s \in H : \A r \in H : r = s \/ Above(s, r)
<1>1. \A s \in H : s = <<s[1], s[2]>> /\ s[1] \in Nat /\ s[2] \in Nat
  BY InLine
<1> DEFINE most == Len(scenario.images)
           I == {s[1] : s \in H}
<1>2. most \in Nat
  BY ScenarioIs
<1>3. I \subseteq 0 .. most /\ I # {}
  <2> SUFFICES ASSUME NEW s \in H PROVE s[1] \in 0 .. most
    OBVIOUS
  <2>1. CASE s \in Spots
    BY <1>2, <2>1, SpotsAre
  <2>2. CASE s = Bottom
    BY <1>2, <2>2 DEF Bottom
  <2> QED BY <2>1, <2>2 DEF All
<1>4. PICK i \in I : \A j \in I : j <= i
  <2> HIDE DEF most, I
  <2> QED BY <1>2, <1>3, Greatest
<1> DEFINE J == {s[2] : s \in {r \in H : r[1] = i}}
<1>5. PICK m \in Nat : J \subseteq 0 .. m
  <2>1. CASE i \in DOMAIN scenario.images
    <3> DEFINE k == Len(scenario.images[i].layers)
    <3>1. k \in Nat
      <4>1. scenario.images[i].layers \in Seq(Seq(TarEntry))
        BY <2>1, ScenarioIs
      <4> QED BY <4>1
    <3>2. ASSUME NEW s \in H, s[1] = i
          PROVE  s[2] \in 0 .. k
      <4>1. CASE s \in Spots
        BY <3>1, <3>2, <4>1, SpotsAre
      <4>2. CASE s = Bottom
        BY <3>1, <4>2 DEF Bottom
      <4> QED BY <4>1, <4>2 DEF All
    <3> HIDE DEF k
    <3>3. J \subseteq 0 .. k
      BY <3>2
    <3> QED BY <3>1, <3>3
  <2>2. CASE i \notin DOMAIN scenario.images
    <3>1. ASSUME NEW s \in H, s[1] = i
          PROVE  s[2] = 0
      <4>1. s \notin Spots
        BY <2>2, <3>1, <1>1, SpotsAre
      <4>2. s = Bottom
        BY <4>1 DEF All
      <4> QED BY <4>2 DEF Bottom
    <3>2. J \subseteq 0 .. 0
      BY <3>1
    <3>3. 0 \in Nat
      OBVIOUS
    <3> HIDE DEF J
    <3> QED BY <3>2, <3>3
  <2> QED BY <2>1, <2>2
<1>6. PICK j \in J : \A l \in J : l <= j
  <2>1. J # {}
    OBVIOUS
  <2> HIDE DEF J
  <2> QED BY <1>5, <2>1, Greatest
<1>7. PICK s \in H : s[1] = i /\ s[2] = j
  OBVIOUS
<1>8. ASSUME NEW r \in H
      PROVE  r = s \/ Above(s, r)
  <2>1. r[1] <= i /\ (r[1] = i => r[2] <= j)
    BY <1>4, <1>6
  <2>2. /\ r = <<r[1], r[2]>> /\ s = <<s[1], s[2]>> /\ r[1] \in Nat /\ r[2] \in Nat
        /\ s[1] \in Nat /\ s[2] \in Nat
    BY <1>1
  <2> HIDE DEF I, J
  <2> QED BY <1>7, <2>1, <2>2 DEF Above
<1> QED BY <1>8

\* A later entry is in a layer above, or in the same one.
LEMMA LaterSpot ==
  ASSUME scenario \in Scenarios, NEW s \in Spots, NEW pos \in DOMAIN LayerAt(s),
         NEW y \in Sites, Later(y, <<s[1], s[2], pos>>)
  PROVE  \E r \in Spots : /\ EntryAt(y) \in Range(LayerAt(r)) /\ EntryAt(y) \in TarEntry
                          /\ \/ Above(r, s)
                             \/ r = s /\ \E m \in DOMAIN LayerAt(s) : m > pos /\ EntryAt(y) = LayerAt(s)[m]
<1> DEFINE r == <<y[1], y[2]>>
<1>1. /\ r \in Spots /\ y[3] \in DOMAIN LayerAt(r) /\ EntryAt(y) \in Range(LayerAt(r))
      /\ EntryAt(y) \in TarEntry /\ EntryAt(y) = LayerAt(r)[y[3]]
  BY SitesAre DEF EntryAt
<1>2. s = <<s[1], s[2]>> /\ r[1] = y[1] /\ r[2] = y[2]
  BY SpotsAre
<1>3. Above(r, s) \/ (r = s /\ y[3] > pos)
  BY <1>2 DEF Later, Above
<1> QED BY <1>1, <1>3

\* What is known of the tree when all entries have been extracted.
Settled ==
  /\ scenario \in Scenarios /\ Tree(tree) /\ Ordinary /\ Origins /\ OthersUntouched
  /\ StandIn(tree, Sites)

\* What a layer has is not hidden by what comes later.
LEMMA NotHiddenLater ==
  ASSUME Settled, NEW s \in Spots, NEW p \in Path, Shows(s, p),
         NEW pos \in DOMAIN LayerAt(s), NEW q \in Seq(Names), q = LayerAt(s)[pos].path, IsPrefix(p, q),
         NEW y \in Sites, Later(y, <<s[1], s[2], pos>>)
  PROVE  ~ Hides(EntryAt(y), p)
<1>1. scenario \in Scenarios /\ HidesFirst
  BY DEF Settled, Ordinary
<1>2. PICK r \in Spots :
        /\ EntryAt(y) \in Range(LayerAt(r)) /\ EntryAt(y) \in TarEntry
        /\ \/ Above(r, s)
           \/ r = s /\ \E m \in DOMAIN LayerAt(s) : m > pos /\ EntryAt(y) = LayerAt(s)[m]
  BY <1>1, LaterSpot
<1>3. CASE Above(r, s)
  BY <1>2, <1>3 DEF Shows
<1>4. CASE \E m \in DOMAIN LayerAt(s) : m > pos /\ EntryAt(y) = LayerAt(s)[m]
  <2>1. PICK m \in DOMAIN LayerAt(s) : m > pos /\ EntryAt(y) = LayerAt(s)[m]
    BY <1>4
  <2>2. LayerAt(s) \in Seq(TarEntry)
    BY <1>1, SpotsAre
  <2>3. pos < m
    BY <2>1, <2>2
  <2>4. ~ Hides(EntryAt(y), q)
    BY <1>1, <2>1, <2>3 DEF HidesFirst
  <2>5. p \in Seq(Names)
    BY DEF Path
  <2> QED BY <1>2, <2>4, <2>5, HidesBelow
<1> QED BY <1>2, <1>3, <1>4

\* The owner of a file that layer s shows is the one it has there.
LEMMA OwnerIs ==
  ASSUME Settled, NEW s \in Spots, NEW p \in Path, Shows(s, p), p \in DOMAIN tree,
         tree[p].kind = "file", NEW e \in Range(LayerAt(s)), e.kind = "file", e.path = p,
         e.owner = 0
  PROVE  tree[p].owner = 0
<1>1. scenario \in Scenarios /\ OwnersStay /\ Origins
  BY DEF Settled, Ordinary
<1>2. PICK r \in Spots \cup {Bottom} :
        OwnersAt(r, p) # {} /\ (tree[p].owner = 0 \/ tree[p].owner \in OwnersAt(r, p))
  BY <1>1 DEF Origins
<1>3. CASE Above(r, s)
  <2>1. r \in Spots
    <3>1. ~ Above(Bottom, s)
      BY <1>1, InLine DEF All
    <3> QED BY <1>2, <1>3, <3>1
  <2>2. r # Bottom
    BY <1>1, <2>1, SpotsAre
  <2>3. PICK f \in Range(LayerAt(r)) : f.kind = "file" /\ f.path = p
    BY <1>2, <2>2 DEF OwnersAt
  <2>4. Has(r, p)
    BY <2>2, <2>3 DEF Has, Makes
  <2> QED BY <1>3, <2>1, <2>4 DEF Shows
<1>4. CASE ~ Above(r, s)
  <2>1. OwnersAt(r, p) \subseteq {0}
    BY <1>1, <1>4 DEF OwnersStay
  <2> QED BY <1>2, <2>1
<1> QED BY <1>3, <1>4

\* Where layer s shows a path, the target has what it has.
LEMMA ShownIsThere ==
  ASSUME Settled, NEW s \in Spots, NEW p \in Path, Shows(s, p)
  PROVE  p \in DOMAIN tree /\ AsIs(tree[p], Content(s, p))
<1> DEFINE L == LayerAt(s)
           made == {pos \in DOMAIN L : Makes(L[pos], p)}
<1>1. scenario \in Scenarios /\ StandIn(tree, Sites) /\ Tree(tree) /\ s # Bottom /\ L \in Seq(TarEntry)
  BY SpotsAre DEF Settled
<1>2. ASSUME NEW pos \in DOMAIN L
      PROVE  /\ <<s[1], s[2], pos>> \in Sites /\ EntryAt(<<s[1], s[2], pos>>) = L[pos]
             /\ L[pos] \in TarEntry /\ L[pos].path \in Seq(Names) /\ L[pos] \in Range(L)
  <2>1. /\ <<s[1], s[2], pos>> \in Sites /\ EntryAt(<<s[1], s[2], pos>>) = L[pos]
    BY <1>1, SitesAre
  <2>2. L[pos] \in TarEntry /\ L[pos] \in Range(L)
    BY <1>1 DEF Range
  <2> QED BY <2>1, <2>2, TarEntryIs
<1>3. PICK k \in DOMAIN L : Makes(L[k], p) \/ Implies(L[k], p)
  BY <1>1 DEF Shows, Has, Range
<1> HIDE DEF L
<1>4. CASE made = {}
  <2>1. Implies(L[k], p)
    BY <1>3, <1>4
  <2>2. HasDir(L[k], p) /\ IsPrefix(p, L[k].path)
    BY <2>1 DEF HasDir, Implies, IsStrictPrefix
  <2>3. HoldsDir(tree, Sites, <<s[1], s[2], k>>, p)
    BY <1>1, <1>2 DEF StandIn
  <2>4. \A y \in Sites : Later(y, <<s[1], s[2], k>>) => ~ Hides(EntryAt(y), p)
    BY <1>2, <2>2, NotHiddenLater DEF L
  <2>5. p \in DOMAIN tree /\ tree[p] = Dir
    BY <1>2, <2>2, <2>3, <2>4 DEF HoldsDir
  <2>6. Content(s, p) = Dir
    BY <1>1, <1>4 DEF Content, L
  <2> QED BY <2>5, <2>6 DEF AsIs
<1>5. CASE made # {}
  <2> DEFINE pos == CHOOSE m \in made : \A j \in made : j <= m
             z == <<s[1], s[2], pos>>
             e == L[pos]
  <2>1. pos \in made /\ \A j \in made : j <= pos
    <3>1. Len(L) \in Nat /\ made \subseteq 0 .. Len(L)
      BY <1>1
    <3> HIDE DEF made
    <3>2. \E m \in made : \A j \in made : j <= m
      BY <1>5, <3>1, Greatest
    <3> QED BY <3>2
  <2>2. pos \in DOMAIN L /\ Makes(e, p)
    BY <2>1
  <2>3. Content(s, p) = Made(e)
    BY <1>1, <1>5 DEF Content, L
  <2> HIDE DEF pos
  <2>4. e \in TarEntry /\ e.path = p /\ z \in Sites /\ EntryAt(z) = e /\ e \in Range(L)
    BY <1>2, <2>2 DEF Makes
  <2>5. ASSUME NEW y \in Sites, Later(y, z)
        PROVE  ~ Makes(EntryAt(y), p) /\ ~ Hides(EntryAt(y), p)
    <3>1. ~ Hides(EntryAt(y), p)
      <4>1. IsPrefix(p, p) /\ p \in Seq(Names)
        BY PrefixOrder DEF Path
      <4> QED BY <1>2, <2>2, <2>4, <2>5, <4>1, NotHiddenLater DEF L
    <3>2. PICK r \in Spots :
            /\ EntryAt(y) \in Range(LayerAt(r)) /\ EntryAt(y) \in TarEntry
            /\ \/ Above(r, s)
               \/ r = s /\ \E m \in DOMAIN L : m > pos /\ EntryAt(y) = L[m]
      BY <1>1, <2>2, <2>5, LaterSpot DEF L
    <3>3. CASE Above(r, s)
      <4>1. r # Bottom /\ ~ Has(r, p)
        BY <1>1, <3>3, SpotsAre DEF Shows
      <4> QED BY <3>1, <3>2, <4>1 DEF Has
    <3>4. CASE \E m \in DOMAIN L : m > pos /\ EntryAt(y) = L[m]
      <4>1. PICK m \in DOMAIN L : m > pos /\ EntryAt(y) = L[m]
        BY <3>4
      <4>2. m \in Nat /\ pos \in Nat
        BY <1>1, <2>2
      <4>3. m \notin made
        BY <2>1, <4>1, <4>2
      <4> QED BY <3>1, <4>1, <4>3
    <3> QED BY <3>2, <3>3, <3>4
  <2>6. p \in DOMAIN tree /\ Agrees(tree[p], e)
    <3>1. Stands(tree, Sites, z, p)
      BY <1>1, <2>4 DEF StandIn
    <3> HIDE DEF z, e
    <3> QED BY <2>2, <2>4, <2>5, <3>1 DEF Stands
  <2>7. CASE e.kind = "file"
    <3>0. CASE mayFail("chown")
      <4>1. /\ Made(e) = [kind |-> "file", data |-> e.data, owner |-> e.owner]
            /\ tree[p].kind = "file" /\ tree[p].data = e.data
        BY <2>6, <2>7 DEF Made, Agrees
      <4> HIDE DEF e
      <4> QED BY <2>3, <2>6, <3>0, <4>1 DEF AsIs
    <3> SUFFICES ASSUME ~ mayFail("chown")
                 PROVE  p \in DOMAIN tree /\ AsIs(tree[p], Content(s, p))
      BY <3>0
    <3>1. tree[p].kind = "file" /\ tree[p].data = e.data /\ (e.owner # 0 => tree[p].owner = e.owner)
      BY <2>6, <2>7 DEF Agrees
    <3>2. e.owner = 0 => tree[p].owner = 0
      BY <2>4, <2>6, <2>7, <3>1, OwnerIs DEF L
    <3>3. tree[p] \in Node
      BY <1>1, <2>6 DEF Tree
    <3>4. tree[p] \in FileNode
      BY <3>1, <3>3 DEF Node, Dir, LinkNode
    <3>5. tree[p] = [kind |-> "file", data |-> e.data, owner |-> e.owner]
      BY <3>1, <3>2, <3>4 DEF FileNode
    <3> QED BY <2>3, <2>6, <2>7, <3>5 DEF Made, AsIs
  <2>8. CASE e.kind # "file"
    BY <2>3, <2>6, <2>8 DEF Agrees, AsIs
  <2> QED BY <2>7, <2>8
<1> QED BY <1>4, <1>5

\* Where no layer shows a path, the target has what it had.
LEMMA BottomIsThere ==
  ASSUME Settled, NEW p \in Path, Shows(Bottom, p)
  PROVE  p \in DOMAIN tree /\ tree[p] = Content(Bottom, p)
<1>1. /\ scenario \in Scenarios /\ OthersUntouched /\ LinksStay
      /\ \A e \in Entries : e.kind \notin {"hard", "here", "up"}
  BY DEF Settled, Ordinary, PlainEntries
<1>2. p \in DOMAIN scenario.tree
  BY DEF Shows, Has
<1>3. ASSUME NEW e \in Entries
      PROVE  /\ e.kind \in {"file", "link", "hard"} => e.path # p
             /\ e.kind \in {"white", "opaque"} => ~ IsPrefix(e.path, p)
             /\ e.kind \in {"here", "up"} => ~ IsStrictPrefix(Emptied(e), p)
  <2>1. PICK r \in Spots : e \in Range(LayerAt(r))
    BY DEF Entries
  <2>2. Above(r, Bottom) /\ r # Bottom
    BY <1>1, InLine, SpotsAre
  <2>3. ~ Has(r, p) /\ ~ Hides(e, p)
    BY <2>1, <2>2 DEF Shows
  <2>4. ~ Makes(e, p)
    BY <2>1, <2>2, <2>3 DEF Has
  <2> QED BY <1>1, <2>3, <2>4 DEF Makes, Hides, IsStrictPrefix
<1>4. p \in DOMAIN tree /\ tree[p] = scenario.tree[p]
  BY <1>1, <1>2, <1>3 DEF OthersUntouched
<1>5. Content(Bottom, p) = scenario.tree[p]
  BY DEF Content
<1> QED BY <1>4, <1>5

\* What is there is shown by some layer, and is of its paths.
LEMMA ThereIsShown ==
  ASSUME Settled, NEW p \in DOMAIN tree
  PROVE  /\ \E s \in All : Shows(s, p)
         /\ p \in Path
         /\ p \in DOMAIN scenario.tree
                    \cup ((UNION {Prefixes(e.path) : e \in Entries}) \ {<<>>})
<1>1. /\ scenario \in Scenarios /\ Origins /\ StandIn(tree, Sites) /\ Tree(tree)
      /\ \A e \in Entries : e.kind # "hard"
  BY DEF Settled, Ordinary, PlainEntries
<1>2. p \in Path /\ p \in Seq(Names) /\ p # <<>>
  BY <1>1 DEF Tree, Path
<1>3. p \in DOMAIN scenario.tree \/ \E e \in Entries : Brings(e, p)
  BY <1>1 DEF Origins
<1>4. ASSUME NEW e \in Entries, Brings(e, p)
      PROVE  p \in Prefixes(e.path) /\ \E s \in Spots : Has(s, p)
  <2>1. PICK s \in Spots : e \in Range(LayerAt(s))
    BY DEF Entries
  <2>2. s # Bottom
    BY <1>1, SpotsAre
  <2>3. e \in TarEntry
    <3>1. LayerAt(s) \in Seq(TarEntry)
      BY <1>1, SpotsAre
    <3> QED BY <2>1, <3>1 DEF Range
  <2>4. e.path \in Seq(Names) /\ IsPrefix(p, e.path) /\ e.kind \in {"file", "link", "dir", "opaque"}
    BY <1>1, <1>4, <2>3, TarEntryIs DEF Brings
  <2>5. Makes(e, p) \/ Implies(e, p)
    BY <2>4 DEF Makes, Implies, IsStrictPrefix
  <2>6. Has(s, p)
    BY <2>1, <2>2, <2>5 DEF Has
  <2> QED BY <1>2, <2>4, <2>6, PrefixesAre
<1>5. p \in DOMAIN scenario.tree
                \cup ((UNION {Prefixes(e.path) : e \in Entries}) \ {<<>>})
  BY <1>2, <1>3, <1>4
<1> DEFINE H == {s \in All : Has(s, p)}
<1>6. H # {} /\ H \subseteq All
  <2>1. CASE p \in DOMAIN scenario.tree
    <3>1. Bottom \in H
      BY <2>1 DEF All, Has
    <3> QED BY <3>1
  <2>2. CASE \E e \in Entries : Brings(e, p)
    BY <1>4, <2>2 DEF All
  <2> QED BY <1>3, <2>1, <2>2
<1>7. PICK s \in H : \A r \in H : r = s \/ Above(s, r)
  <2> HIDE DEF H
  <2> QED BY <1>1, <1>6, Highest
<1>8. \A r \in Spots : Above(r, s) => r \in All /\ ~ Has(r, p)
  BY <1>1, <1>7, InLine DEF All
<1>9. ASSUME NEW r \in Spots, Above(r, s), NEW e \in Range(LayerAt(r))
      PROVE  ~ Hides(e, p)
  <2> SUFFICES ASSUME Hides(e, p) PROVE FALSE
    OBVIOUS
  <2>1. PICK pos \in DOMAIN LayerAt(r) : e = LayerAt(r)[pos]
    BY DEF Range
  <2> DEFINE z == <<r[1], r[2], pos>>
  <2>2. z \in Sites /\ EntryAt(z) = e
    BY <1>1, <2>1, SitesAre
  <2>3. ASSUME NEW y \in Sites, Later(y, z)
        PROVE  ~ Makes(EntryAt(y), p) /\ ~ Implies(EntryAt(y), p)
    <3>1. PICK q \in Spots : /\ EntryAt(y) \in Range(LayerAt(q)) /\ (Above(q, r) \/ q = r)
      BY <1>1, <2>3, LaterSpot
    <3>2. Above(q, s)
      BY <1>1, <1>7, <1>9, <3>1, InLine DEF All
    <3>3. ~ Has(q, p) /\ q # Bottom
      BY <1>1, <1>8, <3>2, SpotsAre
    <3> QED BY <3>1, <3>3 DEF Has
  <2>4. IsGone(tree, Sites, z, p)
    BY <1>1, <1>2, <2>2 DEF StandIn
  <2> HIDE DEF z
  <2> QED BY <2>2, <2>3, <2>4 DEF IsGone
<1>10. Shows(s, p)
  BY <1>7, <1>8, <1>9 DEF Shows
<1> QED BY <1>2, <1>5, <1>7, <1>10

\* At most one layer shows a path.
LEMMA OneShows ==
  ASSUME scenario \in Scenarios, NEW p, NEW r \in All, NEW s \in All, Shows(r, p), Shows(s, p)
  PROVE  r = s
<1>1. ASSUME NEW q \in All, NEW o \in All, Above(q, o), Shows(q, p), Shows(o, p)
      PROVE  FALSE
  <2>1. q \in Spots
    BY <1>1, InLine DEF All
  <2> QED BY <1>1, <2>1 DEF Shows
<1> QED BY <1>1, InLine

\* So the target holds what the layers show, each path as it is there.
LEMMA SettledIsUnion ==
  ASSUME Settled
  PROVE  DOMAIN tree = DOMAIN Union /\ \A p \in DOMAIN tree : AsIs(tree[p], Union[p])
<1> DEFINE paths == DOMAIN scenario.tree
                      \cup ((UNION {Prefixes(e.path) : e \in Entries}) \ {<<>>})
           shown == {q \in paths : \E s \in All : Shows(s, q)}
           by(p) == CHOOSE s \in All : Shows(s, p)
<1>1. Union = [p \in shown |-> Content(by(p), p)]
  BY DEF Union, All
<1>2. scenario \in Scenarios /\ Tree(tree) /\ Tree(scenario.tree)
  BY ScenarioIs DEF Settled
<1>3. \A p \in paths : p \in Path
  <2>1. ASSUME NEW e \in Entries, NEW p \in Prefixes(e.path), p # <<>>
        PROVE  p \in Path
    <3>1. PICK s \in Spots : e \in Range(LayerAt(s))
      BY DEF Entries
    <3>2. LayerAt(s) \in Seq(TarEntry)
      BY <1>2, SpotsAre
    <3>3. e \in TarEntry
      BY <3>1, <3>2 DEF Range
    <3>4. e.path \in Seq(Names)
      BY <3>3, TarEntryIs
    <3> QED BY <2>1, <3>4, PrefixesAre DEF Path
  <2>2. \A p \in DOMAIN scenario.tree : p \in Path
    BY <1>2 DEF Tree
  <2> QED BY <2>1, <2>2
<1>4. ASSUME NEW p \in shown
      PROVE  p \in DOMAIN tree /\ AsIs(tree[p], Content(by(p), p))
  <2>1. p \in Path /\ by(p) \in All /\ Shows(by(p), p)
    BY <1>3
  <2> HIDE DEF by
  <2> QED BY <2>1, ShownIsThere, BottomIsThere DEF All, AsIs
<1>5. \A p \in DOMAIN tree : p \in shown
  BY ThereIsShown
<1> HIDE DEF shown, by
<1>6. DOMAIN tree = shown
  BY <1>4, <1>5
<1>7. DOMAIN Union = shown /\ \A p \in shown : Union[p] = Content(by(p), p)
  BY <1>1
<1> QED BY <1>4, <1>6, <1>7

\* A run that returns Ok has been through all entries.
LEMMA AllPassed ==
  ASSUME UnpackTypeOK, Whereabouts, returned = "ok"
  PROVE  phase = "done" /\ ~ failed /\ Passed = Sites
<1>1. phase = "done" /\ ~ failed /\ image > Len(scenario.images)
  BY DEF Whereabouts, UnpackTypeOK
<1>2. ASSUME NEW z \in Sites
      PROVE  Later(<<image, layer, entry>>, z)
  <2>1. <<z[1], z[2]>> \in Spots /\ z[1] \in Nat
    BY SitesAre DEF UnpackTypeOK
  <2>2. z[1] <= Len(scenario.images) /\ Len(scenario.images) \in Nat
    <3>1. scenario.images \in Seq(Image) /\ z[1] \in DOMAIN scenario.images
      BY <2>1, ScenarioIs, SpotsAre DEF UnpackTypeOK
    <3> QED BY <3>1
  <2>3. image > z[1]
    BY <1>1, <2>1, <2>2 DEF UnpackTypeOK
  <2> QED BY <2>3, LaterIs
<1> QED BY <1>1, <1>2 DEF Passed

\* The invariant is strong enough.
LEMMA UnionIsLeft ==
  ASSUME UnpackTypeOK, Whereabouts, Originated, OthersUntouched, Stood
  PROVE  UnionExtracted
<1> SUFFICES ASSUME returned = "ok", Ordinary
             PROVE  DOMAIN tree = DOMAIN Union /\ \A p \in DOMAIN tree : AsIs(tree[p], Union[p])
  BY DEF UnionExtracted, Ordinary
<1>1. phase = "done" /\ ~ failed /\ Passed = Sites
  BY AllPassed
<1>2. StandIn(tree, Sites)
  BY <1>1 DEF Stood
<1>3. Origins
  BY DEF Originated, Ordinary
<1>4. Settled
  BY <1>2, <1>3 DEF Settled, UnpackTypeOK
<1> QED BY <1>4, SettledIsUnion

\* The inductive invariant: beyond the property itself, where the run is, where
\* what is in the target comes from, and what the entries passed have left there.
UnionInv == UnpackTypeOK /\ Whereabouts /\ Originated /\ OthersUntouched /\ Stood

\* Nothing but the layers' paths is changed, whatever is refused, breaks off or
\* goes down, and a run that returns Ok leaves the union of the layers, in their
\* order and with their whiteouts applied, whatever runs came before it; only
\* owners may differ, where they could not be set
\* (unpack_image.rs: run, unpack_one, extract_layer).
THEOREM LayersUnited == Unpack => []UnionExtracted
<1>1. UnpackInit => UnionInv
  BY UnpackStart, OriginatedStart, OthersStart, StoodStart DEF UnionInv
<1>2. UnionInv /\ [UnpackNext]_unpackVars => UnionInv'
  BY UnpackStep, OriginatedStep, OthersStep, StoodStep DEF UnionInv
<1>3. UnionInv => UnionExtracted
  BY UnionIsLeft DEF UnionInv
<1> QED BY <1>1, <1>2, <1>3, PTL DEF Unpack

=============================================================================
