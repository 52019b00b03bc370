--------------------------- MODULE FileTreeProofs ---------------------------
(***************************************************************************)
(* Theorems about FileTree, for any stage, tree, faults and number of      *)
(* runs: what there is stays a tree, what is no entry's own stays as it    *)
(* is, an entry apart from the others that does not fail is in its place,  *)
(* and a run that returns Ok leaves what the stage asks for.               *)
(***************************************************************************)
EXTENDS FileTree, SubsequenceProofs

\* Above a path that is there, everything is there and a directory.
LEMMA TreeAbove ==
  ASSUME NEW t, Tree(t), NEW p \in DOMAIN t, NEW q \in Seq(Names), IsPrefix(q, p), q # p
  PROVE  IsDir(t, q)
<1>1. p \in Seq(Names) /\ p # <<>> /\ \A r \in DOMAIN t : r \in Seq(Names)
  BY DEF Tree, Path
<1> DEFINE part(l) == SubSeq(p, 1, l)
           missing == {l \in 1 .. Len(p) : part(l) \notin DOMAIN t}
<1>2. /\ Len(p) \in Nat /\ part(Len(p)) = p
      /\ \A l \in 1 .. Len(p) : part(l) \in Seq(Names) /\ Len(part(l)) = l
  BY <1>1
<1>3. \A l \in 1 .. Len(p) : l # 1 => Front(part(l)) = part(l - 1)
  BY <1>1, <1>2 DEF Front
<1> HIDE DEF part
<1>4. missing = {}
  <2>1. SUFFICES ASSUME missing # {} PROVE FALSE
    OBVIOUS
  <2>2. missing \subseteq 0 .. Len(p)
    OBVIOUS
  <2>3. PICK l \in missing : \A k \in missing : k <= l
    BY <1>2, <2>1, <2>2, Greatest
  <2>4. l # Len(p) /\ l \in 1 .. Len(p)
    BY <1>2
  <2>5. l + 1 \in 1 .. Len(p) /\ l + 1 \notin missing
    BY <1>2, <2>3, <2>4
  <2>6. part(l + 1) \in DOMAIN t /\ Len(part(l + 1)) > 1 /\ Front(part(l + 1)) = part(l)
    BY <1>2, <1>3, <2>4, <2>5
  <2>7. part(l) \in DOMAIN t
    BY <2>6 DEF Tree
  <2> QED BY <2>7
<1>5. CASE q # <<>>
  <2>1. Len(q) \in 1 .. Len(p) /\ \A k \in 1 .. Len(q) : q[k] = p[k]
    BY <1>1, <1>5, PrefixIs
  <2>2. q = part(Len(q))
    BY <1>1, <2>1 DEF part
  <2>3. Len(q) # Len(p)
    BY <1>2, <2>2
  <2>4. Len(q) + 1 \in 1 .. Len(p)
    BY <1>2, <2>1, <2>3
  <2>5. /\ part(Len(q) + 1) \in DOMAIN t /\ Len(part(Len(q) + 1)) > 1
        /\ Front(part(Len(q) + 1)) = q
    BY <1>2, <1>3, <1>4, <2>1, <2>2, <2>4
  <2> QED BY <2>5 DEF Tree, IsDir
<1> QED BY <1>5 DEF IsDir

\* A node that changes and stays what it is leaves a tree.
LEMMA TreeChanged ==
  ASSUME NEW t, Tree(t), NEW p \in DOMAIN t, NEW node \in Node, node.kind = t[p].kind
  PROVE  Tree([t EXCEPT ![p] = node])
BY DEF Tree

\* Making the directories of a path.
LEMMA DirsMade ==
  ASSUME NEW t, Tree(t), NEW p \in Seq(Names), CanMkdir(t, p)
  PROVE  /\ Tree(WithDirs(t, p)) /\ IsDir(WithDirs(t, p), p)
         /\ DOMAIN WithDirs(t, p) = DOMAIN t \cup (Prefixes(p) \ {<<>>})
         /\ \A q \in DOMAIN t : WithDirs(t, p)[q] = t[q]
         /\ \A q \in DOMAIN WithDirs(t, p) \ DOMAIN t : WithDirs(t, p)[q] = NewDir
<1> DEFINE u == WithDirs(t, p)
<1>1. /\ DOMAIN u = DOMAIN t \cup (Prefixes(p) \ {<<>>})
      /\ \A q \in DOMAIN t : u[q] = t[q]
      /\ \A q \in DOMAIN u \ DOMAIN t : u[q] = NewDir
  BY DEF WithDirs, With
<1>2. NewDir \in Node /\ NewDir.kind = "dir"
  <2>1. DirBits \in Bits
    BY FileAssumption
  <2> QED BY <2>1 DEF NewDir, Node, Mode, Plain, Root
<1> HIDE DEF u
<1>3. Prefixes(p) = {q \in Seq(Names) : IsPrefix(q, p)}
  BY PrefixesAre
<1>4. \A q \in Prefixes(p) : IsDir(u, q)
  <2>1. \A q \in Prefixes(p) : q \in DOMAIN t => IsDir(t, q)
    BY DEF CanMkdir
  <2> QED BY <1>1, <1>2, <2>1 DEF IsDir
<1>5. ASSUME NEW q \in DOMAIN u
      PROVE  /\ q \in Path /\ u[q] \in Node
             /\ Len(q) > 1 => Front(q) \in DOMAIN u /\ u[Front(q)].kind = "dir"
  <2>1. CASE q \in DOMAIN t
    BY <1>1, <2>1 DEF Tree
  <2>2. CASE q \notin DOMAIN t
    <3>1. q \in Seq(Names) /\ q # <<>> /\ IsPrefix(q, p)
      BY <1>1, <1>3, <2>2
    <3>2. Front(q) \in Seq(Names) /\ Len(Front(q)) = Len(q) - 1 /\ IsPrefix(Front(q), q)
      BY <3>1, FrontIs
    <3>3. Front(q) \in Prefixes(p)
      BY <1>3, <3>1, <3>2, PrefixOrder
    <3>4. Len(q) > 1 => Front(q) # <<>>
      BY <3>1, <3>2
    <3> QED BY <1>1, <1>2, <1>4, <2>2, <3>1, <3>3, <3>4 DEF IsDir, Path
  <2> QED BY <2>1, <2>2
<1>6. Tree(u)
  BY <1>5 DEF Tree
<1>7. IsDir(u, p)
  <2>1. p \in Prefixes(p)
    BY <1>3, PrefixOrder
  <2> QED BY <1>4, <2>1
<1> QED BY <1>1, <1>6, <1>7 DEF u

\* Making or replacing a file in a directory.
LEMMA FileMade ==
  ASSUME NEW t, Tree(t), NEW to \in Path, IsDir(t, Front(to)), ~ IsDir(t, to),
         NEW node \in Node, node.kind = "file"
  PROVE  LET u == [With(t, {to}, node) EXCEPT ![to] = node]
         IN  /\ Tree(u) /\ DOMAIN u = DOMAIN t \cup {to} /\ u[to] = node
             /\ \A q \in DOMAIN t \ {to} : u[q] = t[q]
<1> DEFINE u == [With(t, {to}, node) EXCEPT ![to] = node]
<1>1. /\ DOMAIN u = DOMAIN t \cup {to} /\ u[to] = node
      /\ \A q \in DOMAIN t \ {to} : u[q] = t[q]
  BY DEF With
<1> HIDE DEF u
<1>2. ASSUME NEW q \in DOMAIN u
      PROVE  /\ q \in Path /\ u[q] \in Node
             /\ Len(q) > 1 => Front(q) \in DOMAIN u /\ u[Front(q)].kind = "dir"
  <2>1. CASE q = to
    <3>1. to \in Seq(Names) /\ to # <<>>
      BY DEF Path
    <3>2. Front(to) # to /\ Front(to) \in Seq(Names) /\ Len(Front(to)) = Len(to) - 1
      BY <3>1, FrontIs
    <3>3. Len(to) > 1 => Front(to) # <<>>
      BY <3>1, <3>2
    <3> QED BY <1>1, <2>1, <3>2, <3>3 DEF IsDir
  <2>2. CASE q # to
    BY <1>1, <2>2 DEF Tree, IsDir
  <2> QED BY <2>1, <2>2
<1>3. Tree(u)
  BY <1>2 DEF Tree
<1> QED BY <1>1, <1>3 DEF u

-----------------------------------------------------------------------------

\* The paths to which an entry gives its content, mode or owner.
Touches(e, p) ==
  \/ p = e.path
  \/ e.plugin = "download" /\ p = Append(e.path, e.url)
  \/ e.plugin = "directory" /\ IsPrefix(p, e.path) /\ p \notin DOMAIN scenario.tree

\* What was there before is there and is of its kind.
Stays == \A p \in DOMAIN scenario.tree :
           p \in DOMAIN tree /\ tree[p].kind = scenario.tree[p].kind

ModeGiven(p) == current.mode # None => tree[p].mode.bits = current.mode.bits

\* The file or directory that the current entry is about to give its mode or
\* owner.
Working ==
  /\ pc \in {"chmod", "chown"} =>
       /\ n <= Len(entries) /\ current.plugin # "directory"
       /\ dest \in DOMAIN tree /\ tree[dest].kind = "file" /\ Touches(current, dest)
       /\ tree[dest].data = current.data
       /\ Apart(n) => dest = Target(n)
       /\ pc = "chown" => ModeGiven(dest)
  /\ pc \in {"segment", "chmodDir", "chownDir"} =>
       /\ n <= Len(entries) /\ current.plugin = "directory" /\ depth <= Len(current.path)
  /\ pc \in {"chmodDir", "chownDir"} =>
       /\ segment \in DOMAIN tree /\ tree[segment].kind = "dir" /\ Touches(current, segment)
       /\ pc = "chownDir" => ModeGiven(segment)
  /\ pc = "done" => n > Len(entries)

\* A download that goes to its path finds no directory there.
Fresh ==
  \A i \in DOMAIN entries :
    Apart(i) /\ entries[i].plugin = "download" /\ Target(i) = entries[i].path
      => ~ IsDir(tree, Target(i))

\* Entry i is where it is meant to be.
InPlace(i) ==
  /\ Target(i) \in DOMAIN tree
  /\ entries[i].plugin # "directory" =>
       tree[Target(i)].kind = "file" /\ tree[Target(i)].data = entries[i].data
  /\ entries[i].mode # None => tree[Target(i)].mode.bits = entries[i].mode.bits

\* So are the entries that had their turn and did not fail.
MadeApart ==
  \A i \in DOMAIN entries \ failures :
    i < n /\ Apart(i) /\ Target(i) # <<>> => InPlace(i)

Inv == TypeOK /\ Stays /\ Working /\ OthersUntouched /\ Fresh /\ MadeApart

\* The entries of a stage, and what there was before it.
LEMMA EntriesType ==
  ASSUME scenario \in Scenarios
  PROVE  /\ entries \in Seq(Entry) /\ Len(entries) \in Nat
         /\ DOMAIN entries = 1 .. Len(entries)
         /\ Tree(scenario.tree)
<1>1. scenario.downloads \in Seq(Entry) /\ scenario.directories \in Seq(Entry)
      /\ scenario.files \in Seq(Entry) /\ Tree(scenario.tree)
  BY FileAssumption
<1>2. entries \in Seq(Entry)
  BY <1>1 DEF entries
<1> QED BY <1>1, <1>2

\* The parts of an entry.
LEMMA EntryParts ==
  ASSUME NEW e \in Entry
  PROVE  /\ e.plugin \in {"download", "directory", "file"} /\ e.path \in Seq(Names)
         /\ e.mode # None => e.mode \in Mode
         /\ e.owner # None => e.owner \in (Nat \cup {-1}) \X (Nat \cup {-1})
         /\ e.url # None => e.url \in Names
         /\ e.data \in Data /\ e.slash \in BOOLEAN /\ e.decodes \in BOOLEAN
         /\ e.path \in Seq(Names \cup {None}) /\ e.url \in Names \cup {None}
<1>1. e.path \in Seq(Names) /\ Seq(Names) \subseteq Seq(Names \cup {None})
  BY DEF Entry
<1> QED BY <1>1 DEF Entry, Owner

\* What an entry is meant to be and to concern is a matter of the stage.
LEMMA SameStage ==
  ASSUME scenario' = scenario
  PROVE  /\ entries' = entries
         /\ \A i : Target(i)' = Target(i) /\ Apart(i)' = Apart(i)
         /\ \A e, p : Touches(e, p)' = Touches(e, p)
<1>1. entries' = entries
  BY DEF entries
<1>2. \A i : Needed(i)' = Needed(i)
  BY <1>1 DEF Needed
<1>3. \A i : Target(i)' = Target(i)
  BY <1>1, <1>2 DEF Target, IsDir
<1>4. \A i : Apart(i)' = Apart(i)
  BY <1>1, <1>2, <1>3 DEF Apart, Makes, IsDir
<1>5. \A e, p : Touches(e, p)' = Touches(e, p)
  BY DEF Touches
<1> QED BY <1>1, <1>3, <1>4, <1>5

\* An entry's path and its target.
LEMMA TargetIs ==
  ASSUME scenario \in Scenarios, NEW i \in DOMAIN entries
  PROVE  /\ entries[i] \in Entry
         /\ Target(i) \in {entries[i].path, Append(entries[i].path, entries[i].url)}
         /\ entries[i].plugin # "download" => Target(i) = entries[i].path
         /\ Target(i) \in Seq(Names \cup {None})
         /\ IsPrefix(entries[i].path, Target(i))
<1>1. entries[i] \in Entry
  BY EntriesType
<1>2. PICK e \in Entry : e = entries[i]
  BY <1>1
<1>3. e.path \in Seq(Names \cup {None}) /\ e.url \in Names \cup {None}
  BY EntryParts
<1>4. Target(i) \in {e.path, Append(e.path, e.url)}
      /\ (e.plugin # "download" => Target(i) = e.path)
  BY <1>2 DEF Target
<1>5. IsPrefix(e.path, e.path) /\ IsPrefix(e.path, Append(e.path, e.url))
      /\ Append(e.path, e.url) \in Seq(Names \cup {None})
  BY <1>3, PrefixOrder, AppendIs
<1> QED BY <1>1, <1>2, <1>3, <1>4, <1>5

\* An entry that shares no path with others is not touched by them.
LEMMA LeftAlone ==
  ASSUME scenario \in Scenarios, NEW i \in DOMAIN entries, NEW j \in DOMAIN entries, i # j,
         Apart(i)
  PROVE  ~ Touches(entries[j], Target(i)) /\ ~ IsPrefix(Target(i), entries[j].path)
<1> DEFINE All == Names \cup {None}
<1>1. PICK p \in Seq(All) : p = Target(i)
  BY TargetIs
<1>2. PICK q \in Seq(All) : q = Target(j)
  BY TargetIs
<1>3. PICK e \in Entry : e = entries[j]
  BY EntriesType
<1>4. e.path \in Seq(All) /\ e.url \in All
  BY EntryParts
<1>5. ~ IsPrefix(p, q) /\ ~ IsPrefix(q, p)
  BY <1>1, <1>2 DEF Apart, Makes
<1>6. q \in {e.path, Append(e.path, e.url)} /\ IsPrefix(e.path, q)
  BY <1>2, <1>3, TargetIs
<1>7. ~ IsPrefix(p, e.path)
  BY <1>4, <1>5, <1>6, PrefixOrder
<1>8. p # e.path
  BY <1>7, PrefixOrder
<1>9. p # Append(e.path, e.url)
  <2> SUFFICES ASSUME p = Append(e.path, e.url)
               PROVE  FALSE
    OBVIOUS
  <2>1. IsPrefix(e.path, p)
    BY <1>4, AppendIs
  <2>2. IsPrefix(p, p)
    BY PrefixOrder
  <2> QED BY <1>5, <1>6, <2>1, <2>2
<1> QED BY <1>1, <1>3, <1>7, <1>8, <1>9 DEF Touches

-----------------------------------------------------------------------------

\* What a step of the current entry does to the tree: nothing disappears or
\* becomes another kind, only what it touches changes, and the directories it
\* makes are on its path.
Framed ==
  /\ \A p \in DOMAIN tree : /\ p \in DOMAIN tree' /\ tree'[p].kind = tree[p].kind
                            /\ Touches(current, p) \/ tree'[p] = tree[p]
  /\ \A p \in Seq(Names) :
       IsDir(tree', p) /\ ~ IsDir(tree, p) =>
         /\ IsPrefix(p, current.path)
         /\ current.plugin = "download" /\ Resolved(tree, current) = current.path
              => p # current.path

\* Such a step keeps what is said of the tree.
LEMMA FrameKeeps ==
  ASSUME Inv, scenario' = scenario, n \in DOMAIN entries, Framed
  PROVE  /\ Stays' /\ OthersUntouched' /\ Fresh'
         /\ \A i \in DOMAIN entries \ failures :
              i < n /\ Apart(i) /\ Target(i) # <<>> => InPlace(i)'
<1>1. /\ scenario \in Scenarios /\ Tree(tree) /\ Stays /\ OthersUntouched /\ Fresh /\ MadeApart
  BY DEF Inv, TypeOK
<1>2. /\ entries' = entries /\ \A i : Target(i)' = Target(i) /\ Apart(i)' = Apart(i)
  BY SameStage
<1>3. Stays'
  BY <1>1 DEF Stays, Framed
<1>4. OthersUntouched'
  <2>1. ASSUME NEW p \in DOMAIN scenario.tree,
               \A i \in DOMAIN entries :
                  LET e == entries[i]
                  IN  p # e.path /\ (e.plugin = "download" => p # Append(e.path, e.url))
        PROVE  p \in DOMAIN tree' /\ tree'[p] = scenario.tree[p]
    <3>1. p \in DOMAIN tree /\ tree[p] = scenario.tree[p]
      BY <1>1, <2>1 DEF OthersUntouched
    <3>2. ~ Touches(current, p)
      BY <2>1 DEF Touches, current
    <3> QED BY <3>1, <3>2 DEF Framed
  <2> QED BY <1>2, <2>1 DEF OthersUntouched
<1>5. Fresh'
  <2> SUFFICES ASSUME NEW i \in DOMAIN entries, Apart(i), entries[i].plugin = "download",
                      Target(i) = entries[i].path, IsDir(tree', Target(i))
               PROVE  FALSE
    BY <1>2 DEF Fresh, IsDir
  <2>1. ~ IsDir(tree, Target(i))
    BY <1>1 DEF Fresh
  <2>2. Target(i) \in Seq(Names)
    BY <1>1, EntriesType, EntryParts
  <2>3. IsPrefix(Target(i), current.path)
    BY <2>1, <2>2 DEF Framed
  <2>4. i = n
    BY <1>1, <2>3, LeftAlone DEF current
  <2>5. entries[i] \in Entry
    BY <1>1, EntriesType
  <2>6. ~ entries[i].slash
    <3>1. entries[i].path \in Seq(Names \cup {None}) /\ entries[i].url \in Names \cup {None}
      BY <2>5, EntryParts
    <3>2. Append(entries[i].path, entries[i].url) # entries[i].path
      BY <3>1, AppendIs
    <3> QED BY <3>2 DEF Target
  <2>7. Resolved(tree, current) = current.path
    BY <2>1, <2>4, <2>6 DEF Resolved, current
  <2> QED BY <2>1, <2>2, <2>4, <2>7 DEF Framed, current
<1>6. ASSUME NEW i \in DOMAIN entries \ failures, i < n, Apart(i), Target(i) # <<>>
      PROVE  InPlace(i)'
  <2>1. InPlace(i)
    BY <1>1, <1>6 DEF MadeApart
  <2>2. ~ Touches(current, Target(i))
    <3>1. i # n
      BY <1>1, <1>6, EntriesType
    <3> QED BY <1>1, <1>6, <3>1, LeftAlone DEF current
  <2>3. Target(i) \in DOMAIN tree' /\ tree'[Target(i)] = tree[Target(i)]
    BY <2>1, <2>2 DEF InPlace, Framed
  <2> QED BY <1>2, <2>1, <2>3 DEF InPlace
<1> QED BY <1>3, <1>4, <1>5, <1>6

\* What making a file does: its directories are there, then it is, unless the
\* entry fails or the machine goes down.
LEMMA MakeIs ==
  ASSUME Tree(tree), n \in DOMAIN entries, current \in Entry, NEW to \in Path,
         NEW writable, writable => ~ IsDir(tree, to), NEW comes, Make(to, writable, comes)
  PROVE  /\ Tree(tree')
         /\ \A p \in DOMAIN tree :
              /\ p \in DOMAIN tree' /\ tree'[p].kind = tree[p].kind
              /\ tree'[p].mode = tree[p].mode /\ tree'[p].owner = tree[p].owner
              /\ (p = to /\ tree[p].kind = "file") \/ tree'[p] = tree[p]
         /\ \A p \in DOMAIN tree' \ DOMAIN tree :
              /\ IsPrefix(p, to) /\ (p # to => tree'[p] = NewDir)
              /\ p = to => /\ tree'[p].kind = "file" /\ tree'[p].mode = Plain(FileBits)
                           /\ tree'[p].owner = Root
         /\ \A p \in Seq(Names) :
              IsDir(tree', p) /\ ~ IsDir(tree, p) => IsPrefix(p, to) /\ p # to
         /\ \/ /\ pc' = "chmod" /\ UNCHANGED <<n, failures>>
               /\ to \in DOMAIN tree' /\ tree'[to].kind = "file" /\ tree'[to].data = current.data
            \/ Fail \/ GoDown
<1> DEFINE front == Front(to)
           ready == WithDirs(tree, front)
           old == IF to \in DOMAIN tree THEN tree[to]
                  ELSE [mode |-> Plain(FileBits), owner |-> Root]
           file(data) == [kind |-> "file", data |-> data, mode |-> old.mode, owner |-> old.owner]
           Written(data) == [With(ready, {to}, file(data)) EXCEPT ![to] = file(data)]
<1>1. to \in Seq(Names) /\ to # <<>>
  BY DEF Path
<1>2. /\ front \in Seq(Names) /\ front # to
      /\ \A p \in Seq(Names) : IsPrefix(p, front) <=> IsPrefix(p, to) /\ p # to
  BY <1>1, FrontIs
<1>3. CASE UNCHANGED tree /\ Fail
  BY <1>3
<1>4. CASE CanMkdir(tree, front)
  <2>1. /\ Tree(ready) /\ IsDir(ready, front)
        /\ DOMAIN ready = DOMAIN tree \cup (Prefixes(front) \ {<<>>})
        /\ \A p \in DOMAIN tree : ready[p] = tree[p]
        /\ \A p \in DOMAIN ready \ DOMAIN tree : ready[p] = NewDir
    BY <1>2, <1>4, DirsMade
  <2>2. Prefixes(front) = {p \in Seq(Names) : IsPrefix(p, front)}
    BY <1>2, PrefixesAre
  <2>3. \A p \in Seq(Names) : IsDir(ready, p) /\ ~ IsDir(tree, p) => IsPrefix(p, to) /\ p # to
    BY <1>2, <2>1, <2>2 DEF IsDir
  <2>4. to \in DOMAIN ready => to \in DOMAIN tree
    BY <1>1, <1>2, <2>1, <2>2
  <2>5. \A p \in DOMAIN ready \ DOMAIN tree : IsPrefix(p, to) /\ p # to /\ ready[p] = NewDir
    BY <1>2, <2>1, <2>2
  <2>6. ASSUME writable, NEW data \in Data \cup {Partial}
        PROVE  /\ Tree(Written(data)) /\ DOMAIN Written(data) = DOMAIN ready \cup {to}
               /\ Written(data)[to] = file(data)
               /\ \A p \in DOMAIN ready \ {to} : Written(data)[p] = ready[p]
    <3>1. ~ IsDir(ready, to)
      BY <1>1, <2>1, <2>3, <2>6
    <3>2. old.mode \in Mode /\ old.owner \in Nat \X Nat
      <4>1. CASE to \in DOMAIN tree
        BY <4>1 DEF Tree, Node
      <4>2. CASE to \notin DOMAIN tree
        <5>1. FileBits \in Bits
          BY FileAssumption
        <5> QED BY <4>2, <5>1 DEF Plain, Mode, Root
      <4> QED BY <4>1, <4>2
    <3>3. file(data) \in Node /\ file(data).kind = "file"
      BY <2>6, <3>2 DEF Node
    <3> HIDE DEF file, ready
    <3> QED BY <2>1, <3>1, <3>3, FileMade
  <2>7. to \in DOMAIN tree /\ writable => tree[to].kind = "file"
    BY DEF IsDir, Tree, Node
  <2>8. CASE tree' = ready /\ (Fail \/ GoDown)
    BY <2>1, <2>3, <2>8, <2>5
  <2>9. ASSUME writable, NEW data \in Data \cup {Partial}, tree' = Written(data)
        PROVE  /\ Tree(tree')
               /\ \A p \in DOMAIN tree :
                    /\ p \in DOMAIN tree' /\ tree'[p].kind = tree[p].kind
                    /\ tree'[p].mode = tree[p].mode /\ tree'[p].owner = tree[p].owner
                    /\ (p = to /\ tree[p].kind = "file") \/ tree'[p] = tree[p]
               /\ \A p \in DOMAIN tree' \ DOMAIN tree :
                    /\ IsPrefix(p, to) /\ (p # to => tree'[p] = NewDir)
                    /\ p = to => /\ tree'[p].kind = "file" /\ tree'[p].mode = Plain(FileBits)
                                 /\ tree'[p].owner = Root
               /\ \A p \in Seq(Names) :
                    IsDir(tree', p) /\ ~ IsDir(tree, p) => IsPrefix(p, to) /\ p # to
               /\ to \in DOMAIN tree' /\ tree'[to].kind = "file" /\ tree'[to].data = data
    <3>1. /\ Tree(tree') /\ DOMAIN tree' = DOMAIN ready \cup {to}
          /\ tree'[to] = file(data)
          /\ \A p \in DOMAIN ready \ {to} : tree'[p] = ready[p]
      BY <2>6, <2>9
    <3>2. /\ file(data).kind = "file" /\ file(data).data = data
          /\ to \in DOMAIN tree => /\ file(data).mode = tree[to].mode
                                   /\ file(data).owner = tree[to].owner
          /\ to \notin DOMAIN tree => /\ file(data).mode = Plain(FileBits)
                                      /\ file(data).owner = Root
      OBVIOUS
    <3> HIDE DEF file, ready, Written
    <3>3. \A p \in DOMAIN tree :
            /\ p \in DOMAIN tree' /\ tree'[p].kind = tree[p].kind
            /\ tree'[p].mode = tree[p].mode /\ tree'[p].owner = tree[p].owner
            /\ (p = to /\ tree[p].kind = "file") \/ tree'[p] = tree[p]
      BY <2>1, <2>7, <2>9, <3>1, <3>2
    <3>4. ASSUME NEW p \in DOMAIN tree' \ DOMAIN tree
          PROVE  /\ IsPrefix(p, to) /\ (p # to => tree'[p] = NewDir)
                 /\ p = to => /\ tree'[p].kind = "file" /\ tree'[p].mode = Plain(FileBits)
                              /\ tree'[p].owner = Root
      <4>1. CASE p = to
        BY <1>1, <3>1, <3>2, <4>1, PrefixOrder
      <4>2. CASE p # to
        BY <2>5, <3>1, <4>2
      <4> QED BY <4>1, <4>2
    <3>5. \A p \in Seq(Names) : IsDir(tree', p) => IsDir(ready, p)
      BY <1>1, <3>1, <3>2 DEF IsDir
    <3> QED BY <2>3, <3>1, <3>2, <3>3, <3>5, <3>4
  <2>10. CASE /\ writable
             /\ \/ tree' = Written(current.data) /\ pc' = "chmod" /\ UNCHANGED <<n, failures>>
                \/ tree' = Written(Partial) /\ (Fail \/ GoDown)
    <3>1. current.data \in Data
      BY EntryParts
    <3> HIDE DEF Written
    <3> QED BY <2>9, <2>10, <3>1
  <2> QED BY <1>3, <2>8, <2>10 DEF Make
<1> QED BY <1>3, <1>4 DEF Make

-----------------------------------------------------------------------------

\* How a step may go on: with the same entry, or with the next one if this
\* one has failed or is in its place.
GoesOn ==
  /\ failures \subseteq failures'
  /\ \/ n' = n
     \/ /\ n' = n + 1
        /\ \A i \in DOMAIN entries \ failures' :
             i = n /\ Apart(i) /\ Target(i) # <<>> => InPlace(i)'

\* A step that only touches what is its own and goes on like that keeps the
\* invariant.
LEMMA StepKeeps ==
  ASSUME Inv, scenario' = scenario, tree' = tree \/ (n \in DOMAIN entries /\ Framed),
         TypeOK', Working', GoesOn
  PROVE  Inv'
<1>1. scenario \in Scenarios /\ n \in Nat /\ DOMAIN entries = 1 .. Len(entries)
      /\ Stays /\ OthersUntouched /\ Fresh /\ MadeApart
  BY EntriesType DEF Inv, TypeOK
<1>2. /\ entries' = entries /\ \A i : Target(i)' = Target(i) /\ Apart(i)' = Apart(i)
  BY SameStage
<1>3. /\ Stays' /\ OthersUntouched' /\ Fresh'
      /\ \A i \in DOMAIN entries \ failures :
           i < n /\ Apart(i) /\ Target(i) # <<>> => InPlace(i)'
  <2>1. CASE tree' = tree
    <3>1. \A i : InPlace(i)' = InPlace(i)
      BY <1>2, <2>1 DEF InPlace
    <3>2. Stays' /\ OthersUntouched' /\ Fresh'
      BY <1>1, <1>2, <2>1 DEF Stays, OthersUntouched, Fresh, IsDir
    <3> QED BY <1>1, <3>1, <3>2 DEF MadeApart
  <2>2. CASE n \in DOMAIN entries /\ Framed
    BY <2>2, FrameKeeps
  <2> QED BY <2>1, <2>2
<1>4. MadeApart'
  <2> SUFFICES ASSUME NEW i \in DOMAIN entries, i \notin failures', i < n', Apart(i),
                      Target(i) # <<>>
               PROVE  InPlace(i)'
    BY <1>2 DEF MadeApart
  <2>1. i \notin failures
    BY DEF GoesOn
  <2>2. CASE i < n
    BY <1>3, <2>1, <2>2
  <2>3. CASE ~ (i < n)
    <3>1. i = n /\ n' = n + 1
      BY <1>1, <2>3 DEF GoesOn
    <3> QED BY <3>1 DEF GoesOn
  <2> QED BY <2>2, <2>3
<1> QED BY <1>3, <1>4 DEF Inv

\* The current entry.
LEMMA CurrentIs ==
  ASSUME Inv, n <= Len(entries)
  PROVE  /\ n \in DOMAIN entries /\ current = entries[n] /\ current \in Entry
         /\ n + 1 \in 1 .. Len(entries) + 1
<1>1. /\ n \in DOMAIN entries /\ entries[n] \in Entry /\ n \in Nat /\ Len(entries) \in Nat
      /\ n + 1 \in 1 .. Len(entries) + 1
  BY EntriesType DEF Inv, TypeOK
<1> QED BY <1>1 DEF current

\* An entry that fails, or one over which the machine goes down, keeps the
\* invariant if what it has done to the tree does.
LEMMA BreaksOff ==
  ASSUME Inv, n <= Len(entries), Fail \/ GoDown,
         UNCHANGED history, dest' \in Seq(Names), depth' \in Nat \ {0},
         tree' = tree \/ (Framed /\ Tree(tree'))
  PROVE  Inv'
<1>1. entries' = entries /\ scenario' = scenario
  BY SameStage DEF history
<1>2. n \in DOMAIN entries /\ n + 1 \in 1 .. Len(entries) + 1
  BY CurrentIs
<1>3. n' \in 1 .. Len(entries) + 1 /\ failures' \subseteq DOMAIN entries
  BY <1>2 DEF Inv, TypeOK, Fail, NextEntry, GoDown
<1>4. pc' \in {"entry", "down"}
  BY DEF Fail, NextEntry, GoDown
<1>5. TypeOK'
  BY <1>1, <1>3, <1>4 DEF Inv, TypeOK, history
<1>6. Working'
  BY <1>4 DEF Working
<1>7. GoesOn
  BY DEF GoesOn, Fail, NextEntry, GoDown
<1> QED BY <1>1, <1>2, <1>5, <1>6, <1>7, StepKeeps

\* Making the file of an entry keeps the invariant.
LEMMA MakeKeeps ==
  ASSUME Inv, n <= Len(entries), current.plugin # "directory",
         NEW to \in Path, dest' = to, UNCHANGED <<history, depth>>,
         Touches(current, to), Apart(n) => to = Target(n),
         current.plugin = "download" /\ Resolved(tree, current) = current.path
           => to = current.path,
         NEW writable, writable => ~ IsDir(tree, to), NEW comes, Make(to, writable, comes)
  PROVE  Inv'
<1>1. /\ entries' = entries /\ scenario' = scenario
      /\ \A i : Target(i)' = Target(i) /\ Apart(i)' = Apart(i)
      /\ \A e, p : Touches(e, p)' = Touches(e, p)
  BY SameStage DEF history
<1>2. /\ n \in DOMAIN entries /\ current \in Entry /\ Tree(tree) /\ to \in Seq(Names)
  BY CurrentIs DEF Inv, TypeOK, Path
<1>3. /\ Tree(tree')
      /\ \A p \in DOMAIN tree : /\ p \in DOMAIN tree' /\ tree'[p].kind = tree[p].kind
                                /\ p = to \/ tree'[p] = tree[p]
      /\ \A p \in Seq(Names) : IsDir(tree', p) /\ ~ IsDir(tree, p) => IsPrefix(p, to) /\ p # to
      /\ \/ /\ pc' = "chmod" /\ UNCHANGED <<n, failures>>
            /\ to \in DOMAIN tree' /\ tree'[to].kind = "file" /\ tree'[to].data = current.data
         \/ Fail \/ GoDown
  BY <1>2, MakeIs
<1>4. Framed
  <2>1. ASSUME NEW p \in Seq(Names), IsPrefix(p, to), p # to
        PROVE  IsPrefix(p, current.path)
    <3> DEFINE All == Names \cup {None}
    <3>1. current.path \in Seq(All) /\ current.url \in All /\ p \in Seq(All)
      BY <1>2, EntryParts
    <3>2. to = current.path \/ to = Append(current.path, current.url)
      BY DEF Touches
    <3> HIDE DEF All
    <3> QED BY <2>1, <3>1, <3>2, AppendIs
  <2> QED BY <1>3, <2>1 DEF Framed
<1>5. CASE /\ pc' = "chmod" /\ UNCHANGED <<n, failures>>
           /\ to \in DOMAIN tree' /\ tree'[to].kind = "file" /\ tree'[to].data = current.data
  <2>1. current' = current
    BY <1>1, <1>5 DEF current
  <2>2. TypeOK'
    BY <1>1, <1>2, <1>3, <1>5 DEF Inv, TypeOK, history
  <2>3. Working'
    BY <1>1, <1>5, <2>1 DEF Working
  <2>4. GoesOn
    BY <1>5 DEF GoesOn
  <2> QED BY <1>1, <1>2, <1>4, <2>2, <2>3, <2>4, StepKeeps
<1>6. CASE Fail \/ GoDown
  <2>1. depth' \in Nat \ {0} /\ UNCHANGED history
    BY DEF Inv, TypeOK
  <2> QED BY <1>2, <1>3, <1>4, <1>6, <2>1, BreaksOff
<1> QED BY <1>3, <1>5, <1>6

\* A download keeps the invariant.
LEMMA DownloadKeeps == Inv /\ Download => Inv'
<1> SUFFICES ASSUME Inv, Download
             PROVE  Inv'
  OBVIOUS
<1>1. n <= Len(entries) /\ current.plugin = "download" /\ UNCHANGED <<history, depth>>
  BY DEF Download, At
<1>2. n \in DOMAIN entries /\ current = entries[n] /\ current \in Entry
  BY <1>1, CurrentIs
<1>3. CASE Fail /\ UNCHANGED <<tree, dest>>
  BY <1>1, <1>3, BreaksOff DEF Inv, TypeOK
<1>4. CASE /\ ~ Nameless /\ current.url # None
           /\ dest' = Resolved(tree, current)
           /\ Make(dest', ~ IsDir(tree, dest'), {TRUE} \cup {~ mayFail("get")})
  <2> DEFINE All == Names \cup {None}
  <2>1. current.path \in Seq(Names) /\ current.url \in Names
    BY <1>2, <1>4, EntryParts
  <2>2. PICK to : to = dest'
    OBVIOUS
  <2>3. to = IF current.slash \/ IsDir(tree, current.path)
             THEN Append(current.path, current.url) ELSE current.path
    BY <1>4, <2>2 DEF Resolved
  <2>4. /\ Append(current.path, current.url) \in Path
        /\ Append(current.path, current.url) # current.path
    BY <2>1, AppendIs DEF Path
  <2>5. to \in Path
    BY <2>1, <2>3, <2>4 DEF Path, IsDir
  <2>6. Touches(current, to)
    BY <1>1, <2>3 DEF Touches
  <2>7. Apart(n) => to = Target(n)
    <3> SUFFICES ASSUME Apart(n)
                 PROVE  to = Target(n)
      OBVIOUS
    <3>1. IsDir(scenario.tree, current.path) => IsDir(tree, current.path)
      BY DEF Inv, Stays, IsDir
    <3>2. Needed(n) => current.slash \/ IsDir(scenario.tree, current.path)
      BY <1>1, <1>2 DEF Apart
    <3>3. Target(n) = IF current.slash \/ IsDir(scenario.tree, current.path)
                      THEN Append(current.path, current.url) ELSE current.path
      BY <1>1, <1>2, <3>2 DEF Target
    <3>4. Target(n) = current.path => ~ IsDir(tree, current.path)
      BY <1>1, <1>2 DEF Inv, Fresh
    <3> QED BY <2>3, <3>1, <3>3, <3>4
  <2>8. Resolved(tree, current) = current.path => to = current.path
    BY <1>4, <2>2
  <2>9. Make(to, ~ IsDir(tree, to), {TRUE} \cup {~ mayFail("get")})
    BY <1>4, <2>2
  <2> QED BY <1>1, <2>2, <2>5, <2>6, <2>7, <2>8, <2>9, MakeKeeps
<1> QED BY <1>3, <1>4 DEF Download

\* Writing a file keeps the invariant.
LEMMA FileKeeps == Inv /\ File => Inv'
<1> SUFFICES ASSUME Inv, File
             PROVE  Inv'
  OBVIOUS
<1>1. n <= Len(entries) /\ current.plugin = "file" /\ UNCHANGED <<history, depth>>
  BY DEF File, At
<1>2. n \in DOMAIN entries /\ current = entries[n] /\ current \in Entry
  BY <1>1, CurrentIs
<1>3. CASE Fail /\ UNCHANGED <<tree, dest>>
  BY <1>1, <1>3, BreaksOff DEF Inv, TypeOK
<1>4. CASE /\ current.path # <<>> /\ dest' = current.path
           /\ Make(dest', ~ current.slash /\ ~ IsDir(tree, dest'), {current.decodes})
  <2>1. current.path \in Path
    BY <1>2, <1>4, EntryParts DEF Path
  <2>2. Touches(current, current.path)
    BY DEF Touches
  <2>3. current.path = Target(n)
    BY <1>1, <1>2, TargetIs DEF Inv, TypeOK
  <2>4. PICK to : to = current.path
    OBVIOUS
  <2>5. Make(to, ~ current.slash /\ ~ IsDir(tree, to), {current.decodes})
    BY <1>4, <2>4
  <2> QED BY <1>1, <1>4, <2>1, <2>2, <2>3, <2>4, <2>5, MakeKeeps
<1> QED BY <1>3, <1>4 DEF File

\* A step that changes one node of those the entry touches, and not its kind,
\* is framed.
LEMMA NodeFramed ==
  ASSUME Inv, n \in DOMAIN entries, NEW p \in DOMAIN tree, Touches(current, p),
         NEW node \in Node, node.kind = tree[p].kind,
         tree' = tree \/ tree' = [tree EXCEPT ![p] = node]
  PROVE  Tree(tree') /\ Framed /\ DOMAIN tree' = DOMAIN tree
<1>1. Tree(tree)
  BY DEF Inv, TypeOK
<1>2. Tree(tree')
  BY <1>1, TreeChanged
<1>3. /\ DOMAIN tree' = DOMAIN tree
      /\ \A q \in DOMAIN tree : tree'[q].kind = tree[q].kind /\ (q = p \/ tree'[q] = tree[q])
  OBVIOUS
<1> QED BY <1>2, <1>3 DEF Framed, IsDir

\* Giving a node another mode or owner does not make it something else.
LEMMA Given ==
  ASSUME Tree(tree), n \in DOMAIN entries, current \in Entry, NEW p \in DOMAIN tree
  PROVE  /\ current.mode # None =>
              LET node == [tree[p] EXCEPT !.mode = current.mode]
              IN  /\ node \in Node /\ node.kind = tree[p].kind
                  /\ node.mode.bits = current.mode.bits
                  /\ tree[p].kind = "file" => node.data = tree[p].data
         /\ current.owner # None =>
              LET node == Chowned(tree[p], current.owner)
              IN  /\ node \in Node /\ node.kind = tree[p].kind
                  /\ node.mode.bits = tree[p].mode.bits
                  /\ tree[p].kind = "file" => node.data = tree[p].data
<1>1. PICK old \in Node : old = tree[p]
  BY DEF Tree
<1>2. ASSUME current.mode # None
      PROVE  LET node == [old EXCEPT !.mode = current.mode]
             IN  /\ node \in Node /\ node.kind = old.kind
                 /\ node.mode.bits = current.mode.bits
                 /\ old.kind = "file" => node.data = old.data
  <2>1. current.mode \in Mode
    BY <1>2, EntryParts
  <2> QED BY <2>1 DEF Node
<1>3. ASSUME current.owner # None
      PROVE  LET node == Chowned(old, current.owner)
             IN  /\ node \in Node /\ node.kind = old.kind
                 /\ node.mode.bits = old.mode.bits
                 /\ old.kind = "file" => node.data = old.data
  <2>1. PICK owner \in (Nat \cup {-1}) \X (Nat \cup {-1}) : owner = current.owner
    BY <1>3, EntryParts
  <2>2. PICK mode \in Mode : mode = old.mode
    BY DEF Node
  <2>3. old.owner[1] \in Nat /\ old.owner[2] \in Nat
    BY DEF Node
  <2> DEFINE id(i) == IF owner[i] < 0 THEN old.owner[i] ELSE owner[i]
             both == <<id(1), id(2)>>
             changed == [mode EXCEPT !.suid = @ /\ old.kind = "dir"]
  <2>4. both \in Nat \X Nat
    BY <2>1, <2>3
  <2>5. changed \in Mode /\ changed.bits = mode.bits
    BY DEF Mode
  <2>6. Chowned(old, current.owner) = [old EXCEPT !.owner = both, !.mode = changed]
    BY <2>1, <2>2 DEF Chowned, Node
  <2> HIDE DEF both, changed
  <2>7. /\ [old EXCEPT !.owner = both, !.mode = changed] \in Node
        /\ [old EXCEPT !.owner = both, !.mode = changed].kind = old.kind
        /\ [old EXCEPT !.owner = both, !.mode = changed].mode.bits = old.mode.bits
        /\ old.kind = "file" => [old EXCEPT !.owner = both, !.mode = changed].data = old.data
    BY <2>2, <2>4, <2>5 DEF Node
  <2> QED BY <2>6, <2>7
<1> QED BY <1>1, <1>2, <1>3

\* Giving a file its mode keeps the invariant.
LEMMA ChmodKeeps == Inv /\ Chmod => Inv'
<1> SUFFICES ASSUME Inv, Chmod
             PROVE  Inv'
  OBVIOUS
<1>1. /\ n <= Len(entries) /\ current.plugin # "directory" /\ dest \in DOMAIN tree
      /\ tree[dest].kind = "file" /\ Touches(current, dest)
      /\ tree[dest].data = current.data /\ (Apart(n) => dest = Target(n))
      /\ UNCHANGED <<history, dest, depth>>
  BY DEF Inv, Working, Chmod
<1>2. /\ n \in DOMAIN entries /\ current \in Entry /\ Tree(tree) /\ dest \in Seq(Names)
      /\ depth \in Nat \ {0}
  BY <1>1, CurrentIs DEF Inv, TypeOK
<1>3. CASE Fail /\ UNCHANGED tree
  BY <1>1, <1>2, <1>3, BreaksOff
<1>4. CASE /\ tree' = IF current.mode = None THEN tree
                      ELSE [tree EXCEPT ![dest].mode = current.mode]
           /\ pc' = "chown" /\ UNCHANGED <<n, failures>>
  <2>1. PICK p \in DOMAIN tree : p = dest
    BY <1>1
  <2>2. PICK node \in Node : /\ node.kind = "file" /\ node.data = current.data
                             /\ current.mode # None => node.mode.bits = current.mode.bits
                             /\ tree'[p] = node
                             /\ tree' = tree \/ tree' = [tree EXCEPT ![p] = node]
    <3>1. CASE current.mode = None
      <4>1. tree' = tree /\ tree[p] \in Node
        BY <1>2, <1>4, <3>1 DEF Tree
      <4> QED BY <1>1, <2>1, <3>1, <4>1
    <3>2. CASE current.mode # None
      BY <1>1, <1>2, <1>4, <2>1, <3>2, Given
    <3> QED BY <3>1, <3>2
  <2>3. Tree(tree') /\ Framed /\ DOMAIN tree' = DOMAIN tree
    BY <1>1, <1>2, <2>1, <2>2, NodeFramed
  <2>4. /\ entries' = entries /\ scenario' = scenario /\ current' = current
        /\ \A i : Target(i)' = Target(i) /\ Apart(i)' = Apart(i)
        /\ \A e, q : Touches(e, q)' = Touches(e, q)
    BY <1>1, <1>4, SameStage DEF history, current
  <2>5. TypeOK'
    BY <1>1, <1>4, <2>3, <2>4 DEF Inv, TypeOK, history
  <2>6. Working'
    BY <1>1, <1>4, <2>1, <2>2, <2>3, <2>4 DEF Working, ModeGiven
  <2>7. GoesOn
    BY <1>4 DEF GoesOn
  <2> QED BY <1>2, <2>3, <2>4, <2>5, <2>6, <2>7, StepKeeps
<1> QED BY <1>3, <1>4 DEF Chmod

\* Giving a file its owner keeps the invariant.
LEMMA ChownKeeps == Inv /\ Chown => Inv'
<1> SUFFICES ASSUME Inv, Chown
             PROVE  Inv'
  OBVIOUS
<1>1. /\ n <= Len(entries) /\ current.plugin # "directory" /\ dest \in DOMAIN tree
      /\ tree[dest].kind = "file" /\ Touches(current, dest)
      /\ tree[dest].data = current.data /\ (Apart(n) => dest = Target(n))
      /\ ModeGiven(dest)
      /\ UNCHANGED <<history, dest, depth>>
  BY DEF Inv, Working, Chown
<1>2. /\ n \in DOMAIN entries /\ current \in Entry /\ Tree(tree) /\ dest \in Seq(Names)
      /\ depth \in Nat \ {0} /\ current = entries[n] /\ n + 1 \in 1 .. Len(entries) + 1
  BY <1>1, CurrentIs DEF Inv, TypeOK
<1>3. CASE Fail /\ UNCHANGED tree
  BY <1>1, <1>2, <1>3, BreaksOff
<1>4. CASE /\ tree' = IF current.owner \in {None, Root} THEN tree
                      ELSE [tree EXCEPT ![dest] = Chowned(@, current.owner)]
           /\ NextEntry /\ UNCHANGED failures
  <2>1. PICK p \in DOMAIN tree : p = dest
    BY <1>1
  <2>2. PICK node \in Node : /\ node.kind = "file" /\ node.data = current.data
                             /\ current.mode # None => node.mode.bits = current.mode.bits
                             /\ tree'[p] = node
                             /\ tree' = tree \/ tree' = [tree EXCEPT ![p] = node]
    <3>1. CASE current.owner \in {None, Root}
      <4>1. tree' = tree /\ tree[p] \in Node
        BY <1>2, <1>4, <3>1 DEF Tree
      <4> QED BY <1>1, <2>1, <4>1 DEF ModeGiven
    <3>2. CASE current.owner \notin {None, Root}
      <4>1. LET node == Chowned(tree[p], current.owner)
            IN  /\ node \in Node /\ node.kind = tree[p].kind
                /\ node.mode.bits = tree[p].mode.bits
                /\ tree[p].kind = "file" => node.data = tree[p].data
        BY <1>2, <3>2, Given
      <4> QED BY <1>1, <1>4, <2>1, <3>2, <4>1 DEF ModeGiven
    <3> QED BY <3>1, <3>2
  <2>3. Tree(tree') /\ Framed /\ DOMAIN tree' = DOMAIN tree
    BY <1>1, <1>2, <2>1, <2>2, NodeFramed
  <2>4. /\ entries' = entries /\ scenario' = scenario
        /\ \A i : Target(i)' = Target(i)
    BY <1>1, SameStage DEF history
  <2>5. TypeOK'
    BY <1>1, <1>2, <1>4, <2>3, <2>4 DEF Inv, TypeOK, history, NextEntry
  <2>6. Working'
    BY <1>4 DEF Working, NextEntry
  <2>7. GoesOn
    <3> SUFFICES ASSUME NEW i \in DOMAIN entries, i = n, Apart(i)
                 PROVE  InPlace(i)'
      BY <1>4 DEF GoesOn, NextEntry
    <3>1. Target(i) = p /\ entries[i] = current
      BY <1>1, <1>2, <2>1
    <3> QED BY <1>1, <2>2, <2>3, <2>4, <3>1 DEF InPlace
  <2> QED BY <1>2, <2>3, <2>4, <2>5, <2>6, <2>7, StepKeeps
<1> QED BY <1>3, <1>4 DEF Chown

\* Beginning with a directory keeps the invariant.
LEMMA DirectoryKeeps == Inv /\ Directory => Inv'
<1> SUFFICES ASSUME Inv, Directory
             PROVE  Inv'
  OBVIOUS
<1>1. /\ n <= Len(entries) /\ current.plugin = "directory" /\ depth' = 1
      /\ UNCHANGED <<history, tree, dest>>
  BY DEF Directory, At
<1>2. /\ n \in DOMAIN entries /\ current \in Entry /\ dest \in Seq(Names)
      /\ current = entries[n] /\ n + 1 \in 1 .. Len(entries) + 1
  BY <1>1, CurrentIs DEF Inv, TypeOK
<1>3. CASE Fail
  BY <1>1, <1>2, <1>3, BreaksOff
<1>4. /\ entries' = entries /\ scenario' = scenario
      /\ \A i : Target(i)' = Target(i)
  BY <1>1, SameStage DEF history
<1>5. CASE current.path = <<>> /\ NextEntry /\ UNCHANGED failures
  <2>1. TypeOK'
    BY <1>1, <1>2, <1>4, <1>5 DEF Inv, TypeOK, history, NextEntry
  <2>2. Working'
    BY <1>5 DEF Working, NextEntry
  <2>3. GoesOn
    <3>1. Target(n) = <<>>
      BY <1>1, <1>2, <1>5, TargetIs DEF Inv, TypeOK
    <3> QED BY <1>5, <3>1 DEF GoesOn, NextEntry
  <2> QED BY <1>1, <1>4, <2>1, <2>2, <2>3, StepKeeps
<1>6. CASE current.path # <<>> /\ pc' = "segment" /\ UNCHANGED <<n, failures>>
  <2>1. TypeOK'
    BY <1>1, <1>4, <1>6 DEF Inv, TypeOK, history
  <2>2. Working'
    <3>1. current' = current
      BY <1>4, <1>6 DEF current
    <3>2. 1 <= Len(current.path)
      <4>1. current.path \in Seq(Names)
        BY <1>2, EntryParts
      <4> QED BY <1>6, <4>1
    <3> QED BY <1>1, <1>4, <1>6, <3>1, <3>2 DEF Working
  <2>3. GoesOn
    BY <1>6 DEF GoesOn
  <2> QED BY <1>1, <1>4, <2>1, <2>2, <2>3, StepKeeps
<1> QED BY <1>3, <1>5, <1>6 DEF Directory

\* The part of its path that a directory has come to.
LEMMA SegmentIs ==
  ASSUME Inv, pc \in {"segment", "chmodDir", "chownDir"}
  PROVE  /\ n <= Len(entries) /\ n \in DOMAIN entries /\ n + 1 \in 1 .. Len(entries) + 1
         /\ current = entries[n] /\ current \in Entry /\ current.plugin = "directory"
         /\ segment \in Path /\ IsPrefix(segment, current.path)
         /\ Target(n) = current.path /\ (isLeaf => segment = Target(n))
         /\ depth + 1 \in Nat \ {0} /\ (~ isLeaf => depth + 1 <= Len(current.path))
<1>1. n <= Len(entries) /\ current.plugin = "directory" /\ depth <= Len(current.path)
  BY DEF Inv, Working
<1>2. /\ n \in DOMAIN entries /\ current = entries[n] /\ current \in Entry
      /\ n + 1 \in 1 .. Len(entries) + 1
  BY <1>1, CurrentIs
<1>3. depth \in Nat \ {0} /\ scenario \in Scenarios
  BY DEF Inv, TypeOK
<1>4. PICK path \in Seq(Names) : path = current.path
  BY <1>2, EntryParts
<1>5. PICK part : part = SubSeq(path, 1, depth)
  OBVIOUS
<1>6. /\ part \in Seq(Names) /\ Len(part) = depth /\ \A k \in 1 .. depth : part[k] = path[k]
      /\ Len(path) \in Nat
  BY <1>1, <1>3, <1>4, <1>5
<1>7. IsPrefix(part, path)
  BY <1>1, <1>4, <1>6, PrefixIs
<1>8. part # <<>>
  BY <1>3, <1>6
<1>9. depth = Len(path) => part = path
  BY <1>6
<1>10. Target(n) = current.path
  BY <1>1, <1>2, <1>3, TargetIs
<1>11. depth + 1 \in Nat \ {0} /\ (depth # Len(path) => depth + 1 <= Len(path))
  BY <1>1, <1>3, <1>4, <1>6
<1> QED BY <1>1, <1>2, <1>4, <1>5, <1>6, <1>7, <1>8, <1>9, <1>10, <1>11
        DEF segment, isLeaf, Path

\* Making a part of a directory's path keeps the invariant.
LEMMA MakeSegmentKeeps == Inv /\ MakeSegment => Inv'
<1> SUFFICES ASSUME Inv, MakeSegment
             PROVE  Inv'
  OBVIOUS
<1>1. pc = "segment" /\ UNCHANGED <<history, dest>>
  BY DEF MakeSegment, MakeSegmentIf
<1>2. /\ n <= Len(entries) /\ n \in DOMAIN entries
      /\ current = entries[n] /\ current \in Entry /\ current.plugin = "directory"
      /\ segment \in Path /\ IsPrefix(segment, current.path)
      /\ Target(n) = current.path /\ (isLeaf => segment = Target(n))
      /\ depth + 1 \in Nat \ {0} /\ (~ isLeaf => depth + 1 <= Len(current.path))
  BY <1>1, SegmentIs
<1>3. /\ Tree(tree) /\ Stays /\ dest \in Seq(Names) /\ depth \in Nat \ {0}
      /\ depth <= Len(current.path)
  BY <1>1 DEF Inv, TypeOK, Working
<1>4. CASE Fail /\ UNCHANGED <<tree, depth>>
  BY <1>1, <1>2, <1>3, <1>4, BreaksOff
<1>5. CASE /\ CanMkdir(tree, segment) /\ tree' = WithDirs(tree, segment)
           /\ \/ /\ isLeaf \/ segment \notin DOMAIN tree
                 /\ pc' = "chmodDir" /\ UNCHANGED <<n, depth>>
              \/ /\ ~ isLeaf /\ NextSegment
           /\ UNCHANGED failures
  <2>1. PICK p \in Path : p = segment
    BY <1>2
  <2>2. p \in Seq(Names) /\ p # <<>> /\ IsPrefix(p, p)
    BY PrefixOrder DEF Path
  <2>3. /\ Tree(tree') /\ IsDir(tree', p)
        /\ DOMAIN tree' = DOMAIN tree \cup (Prefixes(p) \ {<<>>})
        /\ \A q \in DOMAIN tree : tree'[q] = tree[q]
    BY <1>3, <1>5, <2>1, <2>2, DirsMade
  <2>4. Framed
    <3>1. ASSUME NEW q \in Seq(Names), IsDir(tree', q), ~ IsDir(tree, q)
          PROVE  IsPrefix(q, current.path)
      <4>1. q \in Prefixes(p)
        BY <2>3, <3>1 DEF IsDir
      <4>2. IsPrefix(q, p)
        BY <2>2, <4>1, PrefixesAre
      <4>3. current.path \in Seq(Names)
        BY <1>2, EntryParts
      <4> QED BY <1>2, <2>1, <2>2, <4>2, <4>3, PrefixOrder
    <3> QED BY <1>2, <2>3, <3>1 DEF Framed
  <2>5. /\ entries' = entries /\ scenario' = scenario
        /\ \A e, q : Touches(e, q)' = Touches(e, q)
    BY <1>1, SameStage DEF history
  <2>6. CASE /\ isLeaf \/ p \notin DOMAIN tree
             /\ pc' = "chmodDir" /\ UNCHANGED <<n, depth, failures>>
    <3>1. current' = current
      BY <2>5, <2>6 DEF current
    <3>2. segment' = p
      BY <2>1, <2>6, <3>1 DEF segment
    <3>3. p \in DOMAIN tree' /\ tree'[p].kind = "dir"
      BY <2>2, <2>3 DEF IsDir
    <3>4. Touches(current, p)
      <4>1. CASE isLeaf
        BY <1>2, <2>1, <4>1 DEF Touches
      <4>2. CASE p \notin DOMAIN tree
        BY <1>2, <1>3, <2>1, <4>2 DEF Touches, Stays
      <4> QED BY <2>6, <4>1, <4>2
    <3>5. TypeOK'
      BY <1>1, <1>3, <2>3, <2>5, <2>6 DEF Inv, TypeOK, history
    <3>6. Working'
      BY <1>2, <1>3, <2>5, <2>6, <3>1, <3>2, <3>3, <3>4 DEF Working
    <3>7. GoesOn
      BY <2>6 DEF GoesOn
    <3> QED BY <1>2, <2>4, <2>5, <3>5, <3>6, <3>7, StepKeeps
  <2>7. CASE ~ isLeaf /\ depth' = depth + 1 /\ pc' = "segment" /\ UNCHANGED <<n, failures>>
    <3>1. current' = current
      BY <2>5, <2>7 DEF current
    <3>2. TypeOK'
      BY <1>1, <1>2, <2>3, <2>5, <2>7 DEF Inv, TypeOK, history
    <3>3. Working'
      BY <1>2, <2>5, <2>7, <3>1 DEF Working
    <3>4. GoesOn
      BY <2>7 DEF GoesOn
    <3> QED BY <1>2, <2>4, <2>5, <3>2, <3>3, <3>4, StepKeeps
  <2> QED BY <1>5, <2>1, <2>6, <2>7 DEF NextSegment
<1> QED BY <1>4, <1>5 DEF MakeSegment, MakeSegmentIf

\* Giving a part of the path its mode keeps the invariant.
LEMMA ChmodSegmentKeeps == Inv /\ ChmodSegment => Inv'
<1> SUFFICES ASSUME Inv, ChmodSegment
             PROVE  Inv'
  OBVIOUS
<1>1. pc = "chmodDir" /\ UNCHANGED <<history, dest, depth>>
  BY DEF ChmodSegment
<1>2. /\ n <= Len(entries) /\ n \in DOMAIN entries /\ current \in Entry
      /\ current.plugin = "directory"
  BY <1>1, SegmentIs
<1>3. /\ Tree(tree) /\ dest \in Seq(Names) /\ depth \in Nat \ {0}
      /\ depth <= Len(current.path) /\ segment \in DOMAIN tree
      /\ tree[segment].kind = "dir" /\ Touches(current, segment)
  BY <1>1 DEF Inv, TypeOK, Working
<1>4. CASE Fail /\ UNCHANGED tree
  BY <1>1, <1>2, <1>3, <1>4, BreaksOff
<1>5. CASE /\ tree' = IF current.mode = None THEN tree
                      ELSE [tree EXCEPT ![segment].mode = current.mode]
           /\ pc' = "chownDir" /\ UNCHANGED <<n, failures>>
  <2>1. PICK p \in DOMAIN tree : p = segment
    BY <1>3
  <2>2. PICK node \in Node : /\ node.kind = "dir"
                             /\ current.mode # None => node.mode.bits = current.mode.bits
                             /\ tree'[p] = node
                             /\ tree' = tree \/ tree' = [tree EXCEPT ![p] = node]
    <3>1. CASE current.mode = None
      <4>1. tree' = tree /\ tree[p] \in Node
        BY <1>3, <1>5, <3>1 DEF Tree
      <4> QED BY <1>3, <2>1, <3>1, <4>1
    <3>2. CASE current.mode # None
      BY <1>2, <1>3, <1>5, <2>1, <3>2, Given
    <3> QED BY <3>1, <3>2
  <2>3. Tree(tree') /\ Framed /\ DOMAIN tree' = DOMAIN tree
    BY <1>2, <1>3, <2>1, <2>2, NodeFramed
  <2>4. /\ entries' = entries /\ scenario' = scenario /\ current' = current
        /\ \A e, q : Touches(e, q)' = Touches(e, q)
    BY <1>1, <1>5, SameStage DEF history, current
  <2>5. segment' = p
    BY <1>1, <2>1, <2>4 DEF segment
  <2>6. TypeOK'
    BY <1>1, <1>3, <1>5, <2>3, <2>4 DEF Inv, TypeOK, history
  <2>7. Working'
    BY <1>1, <1>2, <1>3, <1>5, <2>1, <2>2, <2>3, <2>4, <2>5 DEF Working, ModeGiven
  <2>8. GoesOn
    BY <1>5 DEF GoesOn
  <2> QED BY <1>2, <2>3, <2>4, <2>6, <2>7, <2>8, StepKeeps
<1> QED BY <1>4, <1>5 DEF ChmodSegment

\* Giving a part of the path its owner keeps the invariant.
LEMMA ChownSegmentKeeps == Inv /\ ChownSegment => Inv'
<1> SUFFICES ASSUME Inv, ChownSegment
             PROVE  Inv'
  OBVIOUS
<1>1. pc = "chownDir" /\ UNCHANGED <<history, dest>>
  BY DEF ChownSegment
<1>2. /\ n <= Len(entries) /\ n \in DOMAIN entries /\ n + 1 \in 1 .. Len(entries) + 1
      /\ current = entries[n] /\ current \in Entry /\ current.plugin = "directory"
      /\ (isLeaf => segment = Target(n))
      /\ depth + 1 \in Nat \ {0} /\ (~ isLeaf => depth + 1 <= Len(current.path))
  BY <1>1, SegmentIs
<1>3. /\ Tree(tree) /\ dest \in Seq(Names) /\ depth \in Nat \ {0}
      /\ segment \in DOMAIN tree /\ tree[segment].kind = "dir" /\ Touches(current, segment)
      /\ ModeGiven(segment)
  BY <1>1 DEF Inv, TypeOK, Working
<1>4. CASE Fail /\ UNCHANGED <<tree, depth>>
  BY <1>1, <1>2, <1>3, <1>4, BreaksOff
<1>5. CASE /\ tree' = IF current.owner \in {None, Root} THEN tree
                      ELSE [tree EXCEPT ![segment] = Chowned(@, current.owner)]
           /\ NextSegment /\ UNCHANGED failures
  <2>1. PICK p \in DOMAIN tree : p = segment
    BY <1>3
  <2>2. PICK node \in Node : /\ node.kind = "dir"
                             /\ current.mode # None => node.mode.bits = current.mode.bits
                             /\ tree'[p] = node
                             /\ tree' = tree \/ tree' = [tree EXCEPT ![p] = node]
    <3>1. CASE current.owner \in {None, Root}
      <4>1. tree' = tree /\ tree[p] \in Node
        BY <1>3, <1>5, <3>1 DEF Tree
      <4> QED BY <1>3, <2>1, <4>1 DEF ModeGiven
    <3>2. CASE current.owner \notin {None, Root}
      <4>1. LET node == Chowned(tree[p], current.owner)
            IN  /\ node \in Node /\ node.kind = tree[p].kind
                /\ node.mode.bits = tree[p].mode.bits
        BY <1>2, <1>3, <3>2, Given
      <4> QED BY <1>3, <1>5, <2>1, <3>2, <4>1 DEF ModeGiven
    <3> QED BY <3>1, <3>2
  <2>3. Tree(tree') /\ Framed /\ DOMAIN tree' = DOMAIN tree
    BY <1>2, <1>3, <2>1, <2>2, NodeFramed
  <2>4. entries' = entries /\ scenario' = scenario /\ \A i : Target(i)' = Target(i)
    BY <1>1, SameStage DEF history
  <2>5. CASE isLeaf /\ NextEntry /\ UNCHANGED depth
    <3>1. TypeOK'
      BY <1>1, <1>2, <1>3, <1>5, <2>3, <2>4, <2>5 DEF Inv, TypeOK, history, NextEntry
    <3>2. Working'
      BY <2>5 DEF Working, NextEntry
    <3>3. GoesOn
      <4> SUFFICES ASSUME NEW i \in DOMAIN entries, i = n
                   PROVE  InPlace(i)'
        BY <1>5, <2>5 DEF GoesOn, NextEntry
      <4>1. Target(i) = p /\ entries[i] = current
        BY <1>2, <2>1, <2>5
      <4> QED BY <1>2, <2>2, <2>3, <2>4, <4>1 DEF InPlace
    <3> QED BY <1>2, <2>3, <2>4, <3>1, <3>2, <3>3, StepKeeps
  <2>6. CASE ~ isLeaf /\ depth' = depth + 1 /\ pc' = "segment" /\ UNCHANGED n
    <3>1. current' = current
      BY <2>4, <2>6 DEF current
    <3>2. TypeOK'
      BY <1>1, <1>2, <1>3, <1>5, <2>3, <2>4, <2>6 DEF Inv, TypeOK, history
    <3>3. Working'
      BY <1>2, <2>4, <2>6, <3>1 DEF Working
    <3>4. GoesOn
      BY <1>5, <2>6 DEF GoesOn
    <3> QED BY <1>2, <2>3, <2>4, <3>2, <3>3, <3>4, StepKeeps
  <2> QED BY <1>5, <2>5, <2>6 DEF NextSegment
<1> QED BY <1>4, <1>5 DEF ChownSegment

\* So do the end of a run, a crash and the beginning of another run.
LEMMA RunKeeps == Inv /\ (End \/ Crash \/ RunAgain) => Inv'
<1> SUFFICES ASSUME Inv, End \/ Crash \/ RunAgain
             PROVE  Inv'
  OBVIOUS
<1>1. scenario' = scenario /\ tree' = tree
  BY DEF End, Crash, RunAgain, history
<1>2. entries' = entries
  BY <1>1, SameStage
<1>3. CASE End
  <2>1. TypeOK' /\ Working'
    BY <1>2, <1>3 DEF Inv, TypeOK, Working, End, history, place
  <2>2. GoesOn
    BY <1>3 DEF End, GoesOn, place
  <2> QED BY <1>1, <2>1, <2>2, StepKeeps
<1>4. CASE Crash
  <2>1. TypeOK' /\ Working'
    BY <1>2, <1>4 DEF Inv, TypeOK, Working, Crash, GoDown, history
  <2>2. GoesOn
    BY <1>4 DEF Crash, GoDown, GoesOn
  <2> QED BY <1>1, <2>1, <2>2, StepKeeps
<1>5. CASE RunAgain
  <2>1. Len(entries) \in Nat /\ n' = 1 /\ failures' = {} /\ pc' = "entry"
    BY <1>5, EntriesType DEF RunAgain, Inv, TypeOK
  <2>2. /\ runs' \in 1 .. MaxRuns /\ clean' \in BOOLEAN /\ dest' \in Seq(Names)
        /\ depth' \in Nat \ {0}
    <3>1. runs \in 1 .. MaxRuns /\ MaxRuns \in Nat /\ runs < MaxRuns /\ runs' = runs + 1
      BY <1>5, FileAssumption DEF RunAgain, Inv, TypeOK
    <3>2. runs' \in 1 .. MaxRuns
      BY <3>1
    <3>3. clean \in BOOLEAN /\ clean' = (clean /\ pc = "done" /\ failures = {})
      BY <1>5 DEF RunAgain, Inv, TypeOK
    <3>4. clean' \in BOOLEAN
      BY <3>3
    <3>5. dest' = <<>> /\ depth' = 1
      BY <1>5 DEF RunAgain
    <3> QED BY <3>2, <3>4, <3>5
  <2>3. TypeOK'
    BY <1>1, <1>2, <2>1, <2>2 DEF Inv, TypeOK
  <2>4. Working'
    BY <2>1 DEF Working
  <2>5. Stays' /\ OthersUntouched' /\ Fresh'
    <3>1. \A i : Target(i)' = Target(i) /\ Apart(i)' = Apart(i)
      BY <1>1, SameStage
    <3> QED BY <1>1, <1>2, <3>1 DEF Inv, Stays, OthersUntouched, Fresh, IsDir
  <2>6. MadeApart'
    <3>1. \A i \in DOMAIN entries : ~ (i < 1)
      BY EntriesType DEF Inv, TypeOK
    <3> QED BY <1>2, <2>1, <3>1 DEF MadeApart
  <2> QED BY <2>3, <2>4, <2>5, <2>6 DEF Inv
<1> QED BY <1>3, <1>4, <1>5

\* Before the first run the invariant holds.
LEMMA InitInv == Init => Inv
<1> SUFFICES ASSUME Init
             PROVE  Inv
  OBVIOUS
<1>1. scenario \in Scenarios /\ tree = scenario.tree /\ pc = "entry" /\ n = 1
  BY DEF Init
<1>2. Len(entries) \in Nat /\ DOMAIN entries = 1 .. Len(entries) /\ Tree(tree)
  BY <1>1, EntriesType
<1>3. TypeOK
  <2>1. 1 \in 1 .. MaxRuns
    BY FileAssumption
  <2> QED BY <1>1, <1>2, <2>1 DEF Init, TypeOK
<1>4. Stays /\ OthersUntouched
  BY <1>1 DEF Stays, OthersUntouched
<1>5. Working
  BY <1>1 DEF Working
<1>6. Fresh
  <2> SUFFICES ASSUME NEW i \in DOMAIN entries, entries[i].plugin = "download",
                      Target(i) = entries[i].path, IsDir(tree, Target(i))
               PROVE  FALSE
    BY DEF Fresh
  <2>1. PICK e \in Entry : e = entries[i]
    BY <1>1, EntriesType
  <2>2. Target(i) = Append(e.path, e.url)
    BY <1>1, <2>1 DEF Target
  <2>3. Append(e.path, e.url) # e.path
    <3>1. e.path \in Seq(Names \cup {None}) /\ e.url \in Names \cup {None}
      BY EntryParts
    <3> QED BY <3>1, AppendIs
  <2> QED BY <2>1, <2>2, <2>3
<1>7. MadeApart
  BY <1>1, <1>2 DEF MadeApart
<1> QED BY <1>3, <1>4, <1>5, <1>6, <1>7 DEF Inv

\* Every step keeps it.
LEMMA NextInv == Inv /\ [Next]_vars => Inv'
<1> SUFFICES ASSUME Inv, [Next]_vars
             PROVE  Inv'
  OBVIOUS
<1>1. CASE Next
  BY <1>1, DownloadKeeps, FileKeeps, ChmodKeeps, ChownKeeps, DirectoryKeeps,
     MakeSegmentKeeps, ChmodSegmentKeeps, ChownSegmentKeeps, RunKeeps DEF Next
<1>2. CASE UNCHANGED vars
  <2>1. UNCHANGED <<scenario, tree, pc, n, dest, depth, failures, clean, runs>>
    BY <1>2 DEF vars
  <2>2. entries' = entries
    BY <2>1, SameStage
  <2>3. current' = current /\ segment' = segment
    BY <2>1, <2>2 DEF current, segment
  <2>4. TypeOK'
    BY <2>1, <2>2 DEF Inv, TypeOK
  <2>5. Working'
    <3>1. /\ \A i : Target(i)' = Target(i) /\ Apart(i)' = Apart(i)
          /\ \A e, p : Touches(e, p)' = Touches(e, p)
      BY <2>1, SameStage
    <3> QED BY <2>1, <2>2, <2>3, <3>1 DEF Inv, Working, ModeGiven
  <2>6. GoesOn
    BY <2>1 DEF GoesOn
  <2> QED BY <2>1, <2>4, <2>5, <2>6, StepKeeps
<1> QED BY <1>1, <1>2

\* The invariant always holds.
LEMMA AlwaysInv == Spec => []Inv
BY InitInv, NextInv, PTL DEF Spec

-----------------------------------------------------------------------------

\* This run has gone well so far.
OnTrack == failures = {} /\ pc # "down"

\* All runs have, this one included.
Exact == clean /\ OnTrack

\* Either they have, or it does not matter, because the stage says what an
\* entry's path is.
Certain == Exact \/ PathsAgree

\* The entries that put a file at their path.
Writes(i) == entries[i].plugin # "directory"

\* Whether entry i gives path p a mode and an owner: also if p is a parent of a
\* directory that would not be there without it.
Concerns(i, p) ==
  \/ Target(i) = p
  \/ /\ entries[i].plugin = "directory" /\ IsStrictPrefix(p, Target(i))
     /\ p \notin DOMAIN scenario.tree
     /\ \A j \in 1 .. i - 1 : ~ Makes(j, p)

\* A file in the way of an entry, which fails from now on.
Spoilt(p) == /\ p \in DOMAIN tree /\ tree[p].kind = "file"
             /\ \E i \in DOMAIN entries : p # Target(i) /\ Makes(i, p)

\* The parts of its path that the current entry is through with.
Passed(p) == pc \in {"segment", "chmodDir", "chownDir"} /\ Len(p) < depth

\* Whether entry i has come to a path on its way.
Reached(i, p) ==
  \/ i < n
  \/ i = n /\ (pc \in {"chmod", "chown"} \/ Passed(p) \/ (pc \in {"chmodDir", "chownDir"} /\ Len(p) = depth))

\* Whether entry i had its turn in this run, or in earlier ones that all went
\* well.
Turned(i) == i < n \/ (clean /\ runs > 1)

\* Entry i's path is there, and is a file if the entry writes one.
There(i) == Target(i) # <<>> => /\ Target(i) \in DOMAIN tree
                                /\ Writes(i) => tree[Target(i)].kind = "file"

\* The paths that the runs made.
Extra == DOMAIN tree \ DOMAIN scenario.tree

\* What was not there before is on the way of some entry.
ExtraMeant == Certain => \A p \in Extra :
                /\ \E i \in DOMAIN entries : Makes(i, p)
                /\ tree[p].kind = "file" => \E i \in DOMAIN entries : Writes(i) /\ Makes(i, p)

\* In a first run, it is on the way of one that has come to it.
ExtraReached == Exact /\ runs = 1 => \A p \in Extra :
                  \E i \in DOMAIN entries : Makes(i, p) /\ Reached(i, p)

\* There is no directory where a download is meant to put a file.
NoDirInstead == Certain => \A i \in DOMAIN entries :
  entries[i].plugin = "download" /\ Target(i) = entries[i].path => ~ IsDir(tree, entries[i].path)

\* The entries that had their turn are there.
AllThere == Certain /\ OnTrack => \A i \in DOMAIN entries : Turned(i) => There(i)

\* The file that is given its mode or owner is where it is meant to be.
DestMeant == Certain /\ pc \in {"chmod", "chown"} =>
               Makes(n, dest) /\ (OnTrack => dest = Target(n))

\* So are the parts of a directory's path that its entry is through with.
PassedThere == pc \in {"segment", "chmodDir", "chownDir"} =>
                 \A p \in Path : IsPrefix(p, current.path) /\ Len(p) < depth => p \in DOMAIN tree

\* A parent directory is given its mode or owner in the first run alone.
PartMeant == Exact /\ pc \in {"chmodDir", "chownDir"} /\ ~ isLeaf =>
               Concerns(n, segment) /\ runs = 1

\* What is there, and why.
Kept == /\ ExtraMeant /\ ExtraReached /\ NoDirInstead /\ AllThere
        /\ DestMeant /\ PassedThere /\ PartMeant

-----------------------------------------------------------------------------

\* These are a matter of the stage.
LEMMA SameMeaning ==
  ASSUME scenario' = scenario
  PROVE  /\ \A i : Writes(i)' = Writes(i)
         /\ \A i, p : Makes(i, p)' = Makes(i, p) /\ Concerns(i, p)' = Concerns(i, p)
         /\ \A p : IsParent(p)' = IsParent(p)
         /\ PathsAgree' = PathsAgree
<1>1. entries' = entries /\ \A i : Target(i)' = Target(i)
  BY SameStage
<1>2. \A i, p : Makes(i, p)' = Makes(i, p)
  BY <1>1 DEF Makes
<1>3. \A i, p : Concerns(i, p)' = Concerns(i, p)
  BY <1>1, <1>2 DEF Concerns
<1>4. \A i : Writes(i)' = Writes(i)
  BY <1>1 DEF Writes
<1>5. \A p : IsParent(p)' = IsParent(p)
  BY <1>1 DEF IsParent
<1>6. PathsAgree' = PathsAgree
  BY <1>1 DEF PathsAgree
<1> QED BY <1>2, <1>3, <1>4, <1>5, <1>6

\* Downloads come first.
LEMMA DownloadsFirst ==
  ASSUME scenario \in Scenarios, NEW i \in DOMAIN entries, NEW j \in DOMAIN entries, j < i,
         entries[i].plugin = "download"
  PROVE  entries[j].plugin = "download"
<1>1. PICK first \in Seq(Entry), second \in Seq(Entry), third \in Seq(Entry) :
         /\ first = scenario.downloads /\ second = scenario.directories /\ third = scenario.files
         /\ \A k \in DOMAIN first : first[k].plugin = "download"
         /\ \A k \in DOMAIN second : second[k].plugin = "directory"
         /\ \A k \in DOMAIN third : third[k].plugin = "file"
  BY FileAssumption DEF Range
<1>2. first \o second \in Seq(Entry)
  OBVIOUS
<1>3. PICK both \in Seq(Entry) : both = first \o second
  BY <1>2
<1>4. entries = both \o third
  BY <1>1, <1>3 DEF entries
<1>5. /\ DOMAIN entries = 1 .. Len(entries) /\ DOMAIN first = 1 .. Len(first)
      /\ DOMAIN second = 1 .. Len(second) /\ DOMAIN third = 1 .. Len(third)
      /\ Len(first) \in Nat /\ Len(second) \in Nat /\ Len(third) \in Nat
      /\ Len(both) = Len(first) + Len(second) /\ Len(entries) = Len(both) + Len(third)
  BY <1>3, <1>4, EntriesType
<1>6. /\ \A k \in 1 .. Len(first) : both[k] = first[k]
      /\ \A k \in Len(first) + 1 .. Len(both) : both[k] = second[k - Len(first)]
      /\ \A k \in 1 .. Len(both) : entries[k] = both[k]
      /\ \A k \in Len(both) + 1 .. Len(entries) : entries[k] = third[k - Len(both)]
  BY <1>3, <1>4
<1>7. i \notin Len(both) + 1 .. Len(entries)
  <2> SUFFICES ASSUME i \in Len(both) + 1 .. Len(entries)
               PROVE  FALSE
    OBVIOUS
  <2>1. PICK k \in DOMAIN third : k = i - Len(both)
    BY <1>5
  <2>2. entries[i] = third[k]
    BY <1>6, <2>1
  <2> QED BY <1>1, <2>2
<1>8. i \in 1 .. Len(both)
  BY <1>5, <1>7
<1>9. i \notin Len(first) + 1 .. Len(both)
  <2> SUFFICES ASSUME i \in Len(first) + 1 .. Len(both)
               PROVE  FALSE
    OBVIOUS
  <2>1. PICK k \in DOMAIN second : k = i - Len(first)
    BY <1>5
  <2>2. entries[i] = both[i] /\ both[i] = second[k]
    BY <1>6, <1>8, <2>1
  <2> QED BY <1>1, <2>2
<1>10. j \in 1 .. Len(first) /\ j \in 1 .. Len(both)
  BY <1>5, <1>8, <1>9
<1>11. entries[j] = first[j] /\ j \in DOMAIN first
  BY <1>5, <1>6, <1>10
<1> QED BY <1>1, <1>11

\* What is on the way of an entry.
LEMMA OnTheWay ==
  ASSUME scenario \in Scenarios, NEW i \in DOMAIN entries
  PROVE  /\ Makes(i, Target(i)) /\ Makes(i, entries[i].path)
         /\ \A p \in Path : Makes(i, p) => Target(i) # <<>>
         /\ \A p \in Path : p # Target(i) /\ Makes(i, p) /\ ~ Writes(i) => IsParent(p)
         /\ \A p \in Path : Concerns(i, p) =>
              /\ Makes(i, p)
              /\ p # Target(i) => /\ ~ Writes(i) /\ IsParent(p) /\ p \notin DOMAIN scenario.tree
                                  /\ \A j \in DOMAIN entries : j < i => ~ Makes(j, p)
<1> DEFINE All == Names \cup {None}
<1>1. PICK t \in Seq(All) : t = Target(i)
  BY TargetIs
<1>2. Makes(i, Target(i)) /\ Makes(i, entries[i].path)
  <2>1. IsPrefix(t, t)
    BY PrefixOrder
  <2> QED BY <1>1, <2>1, TargetIs DEF Makes
<1>3. \A p \in Path : p \in Seq(All) /\ p # <<>>
  <2>1. Seq(Names) \subseteq Seq(All)
    OBVIOUS
  <2> QED BY <2>1 DEF Path
<1>4. ASSUME NEW p \in Path, Makes(i, p)
      PROVE  Target(i) # <<>>
  <2>1. Len(p) <= Len(t) /\ p \in Seq(All) /\ p # <<>>
    BY <1>1, <1>3, <1>4, PrefixIs DEF Makes
  <2>2. Len(p) \in Nat /\ Len(p) # 0 /\ Len(t) \in Nat
    BY <2>1
  <2>3. t # <<>>
    BY <2>1, <2>2
  <2> QED BY <1>1, <2>3
<1>5. \A p \in Path : p # Target(i) /\ Makes(i, p) /\ ~ Writes(i) => IsParent(p)
  BY DEF IsParent, Makes, IsStrictPrefix, Writes
<1>6. ASSUME NEW p \in Path, Concerns(i, p)
      PROVE  /\ Makes(i, p)
             /\ p # Target(i) => /\ ~ Writes(i) /\ IsParent(p) /\ p \notin DOMAIN scenario.tree
                                 /\ \A j \in DOMAIN entries : j < i => ~ Makes(j, p)
  <2>1. CASE p = Target(i)
    BY <1>2, <2>1
  <2>2. CASE p # Target(i)
    <3>1. /\ entries[i].plugin = "directory" /\ IsStrictPrefix(p, Target(i))
          /\ p \notin DOMAIN scenario.tree
          /\ \A j \in 1 .. i - 1 : ~ Makes(j, p)
      BY <1>6, <2>2 DEF Concerns
    <3>2. Makes(i, p) /\ ~ Writes(i)
      BY <3>1 DEF Makes, IsStrictPrefix, Writes
    <3>3. \A j \in DOMAIN entries : j < i => j \in 1 .. i - 1
      BY EntriesType
    <3> QED BY <1>5, <2>2, <3>1, <3>2, <3>3
  <2> QED BY <2>1, <2>2
<1> QED BY <1>2, <1>4, <1>5, <1>6

\* The way to an entry that is there.
LEMMA WayThere ==
  ASSUME scenario \in Scenarios, Tree(tree), NEW i \in DOMAIN entries, There(i),
         NEW p \in Path, Makes(i, p)
  PROVE  /\ p \in DOMAIN tree /\ Target(i) \in DOMAIN tree
         /\ p # Target(i) => tree[p].kind = "dir"
<1>1. Target(i) # <<>>
  BY OnTheWay
<1>2. Target(i) \in DOMAIN tree
  BY <1>1 DEF There
<1>3. CASE p # Target(i)
  <2>1. p \in Seq(Names) /\ p # <<>> /\ IsPrefix(p, Target(i))
    BY DEF Path, Makes
  <2>2. IsDir(tree, p)
    BY <1>2, <1>3, <2>1, TreeAbove
  <2> QED BY <1>2, <2>1, <2>2 DEF IsDir
<1> QED BY <1>2, <1>3

\* The parts of the path of the current directory are told by their length.
LEMMA PartIs ==
  ASSUME Inv, pc \in {"segment", "chmodDir", "chownDir"}, NEW p \in Path, Makes(n, p)
  PROVE  /\ IsPrefix(p, current.path) /\ Len(p) \in Nat \ {0} /\ Len(p) <= Len(current.path)
         /\ Len(p) = depth <=> p = segment
         /\ p = Target(n) <=> Len(p) = Len(current.path)
<1>1. /\ n \in DOMAIN entries /\ current = entries[n] /\ current \in Entry
      /\ Target(n) = current.path /\ segment \in Path /\ IsPrefix(segment, current.path)
  BY SegmentIs
<1>2. depth \in Nat \ {0} /\ depth <= Len(current.path)
  BY DEF Inv, TypeOK, Working
<1>3. PICK path \in Seq(Names) : path = current.path
  BY <1>1, EntryParts
<1>4. p \in Seq(Names) /\ p # <<>> /\ IsPrefix(p, path)
  BY <1>1, <1>3 DEF Path, Makes
<1>5. Len(p) <= Len(path) /\ \A k \in 1 .. Len(p) : p[k] = path[k]
  BY <1>4, PrefixIs
<1>6. PICK part \in Seq(Names) : part = segment
  BY <1>1 DEF Path
<1>7. Len(part) = depth /\ \A k \in 1 .. Len(part) : part[k] = path[k]
  BY <1>2, <1>3, <1>6 DEF segment
<1>8. Len(p) \in Nat \ {0} /\ Len(part) \in Nat /\ Len(path) \in Nat
  BY <1>4
<1>9. Len(p) = depth <=> p = part
  BY <1>4, <1>5, <1>7
<1>10. p = path <=> Len(p) = Len(path)
  BY <1>4, <1>5
<1> QED BY <1>1, <1>3, <1>4, <1>5, <1>6, <1>8, <1>9, <1>10

\* What entries have come to is there.
LEMMA AlreadyThere ==
  ASSUME Inv, Kept, Certain, OnTrack, NEW i \in DOMAIN entries, NEW p \in Path, Makes(i, p),
         Turned(i) \/ Reached(i, p)
  PROVE  p \in DOMAIN tree /\ (Turned(i) /\ p # Target(i) => tree[p].kind = "dir")
<1>1. scenario \in Scenarios /\ Tree(tree)
  BY DEF Inv, TypeOK
<1>2. CASE Turned(i)
  <2>1. There(i)
    BY <1>2 DEF Kept, AllThere
  <2> QED BY <1>1, <2>1, WayThere
<1>3. CASE ~ Turned(i)
  <2>1. i = n /\ Reached(i, p)
    BY <1>3 DEF Turned, Reached
  <2>2. CASE pc \in {"chmod", "chown"}
    <3>1. dest = Target(n) /\ dest \in DOMAIN tree /\ tree[dest].kind = "file"
      BY <2>2 DEF Inv, Working, Kept, DestMeant
    <3>2. There(i)
      BY <2>1, <3>1 DEF There
    <3> QED BY <1>1, <1>3, <3>2, WayThere
  <2>3. CASE Passed(p)
    <3>1. pc \in {"segment", "chmodDir", "chownDir"} /\ Len(p) < depth
      BY <2>3 DEF Passed
    <3>2. IsPrefix(p, current.path)
      BY <2>1, <3>1, PartIs
    <3> QED BY <1>3, <3>1, <3>2 DEF Kept, PassedThere
  <2>4. CASE pc \in {"chmodDir", "chownDir"} /\ Len(p) = depth
    <3>1. p = segment
      BY <2>1, <2>4, PartIs
    <3> QED BY <1>3, <2>4, <3>1 DEF Inv, Working
  <2> QED BY <1>3, <2>1, <2>2, <2>3, <2>4 DEF Reached, Turned
<1> QED BY <1>2, <1>3

\* Where a download goes.
LEMMA ResolvedIs ==
  ASSUME Inv, Kept, Certain, n <= Len(entries), current.plugin = "download",
         ~ Nameless, current.url # None
  PROVE  /\ Makes(n, Resolved(tree, current))
         /\ OnTrack => Resolved(tree, current) = Target(n)
<1> DEFINE to == Resolved(tree, current)
<1>1. scenario \in Scenarios /\ Tree(tree) /\ Stays
  BY DEF Inv, TypeOK
<1>2. /\ n \in DOMAIN entries /\ current = entries[n] /\ current \in Entry
      /\ n \in Nat
  BY CurrentIs DEF Inv, TypeOK
<1>3. PICK path \in Seq(Names) : path = current.path
  BY <1>2, EntryParts
<1>4. PICK longer \in Seq(Names) : longer = Append(current.path, current.url) /\ longer # path
  <2>1. current.url \in Names
    BY <1>2, EntryParts
  <2> QED BY <1>3, <2>1, AppendIs
<1>5. to = IF current.slash \/ IsDir(tree, path) THEN longer ELSE path
  BY <1>3, <1>4 DEF Resolved
<1>6. Target(n) = IF current.slash \/ IsDir(scenario.tree, path) \/ Needed(n) THEN longer ELSE path
  BY <1>2, <1>3, <1>4 DEF Target
<1>7. IsDir(scenario.tree, path) => IsDir(tree, path)
  BY <1>1 DEF Stays, IsDir
<1>8. Target(n) = path => to = path
  BY <1>2, <1>3, <1>4, <1>5, <1>6 DEF Kept, NoDirInstead
<1>9. Makes(n, to)
  <2>1. Makes(n, Target(n)) /\ Makes(n, path)
    BY <1>1, <1>2, <1>3, OnTheWay
  <2> QED BY <1>5, <1>6, <1>8, <2>1
<1>10. ASSUME OnTrack, Needed(n), path # <<>>
       PROVE  IsDir(tree, path)
  <2>1. PICK j \in 1 .. n - 1 :
          \/ IsStrictPrefix(path, entries[j].path)
          \/ path = entries[j].path /\ entries[j].slash
    BY <1>2, <1>3, <1>10 DEF Needed
  <2>2. j \in DOMAIN entries /\ j < n /\ Turned(j)
    BY <1>1, <1>2, <2>1, EntriesType DEF Turned
  <2>3. entries[j].plugin = "download"
    BY <1>1, <1>2, <2>2, DownloadsFirst
  <2>4. PICK e \in Entry : e = entries[j]
    BY <1>1, <2>2, EntriesType
  <2> DEFINE All == Names \cup {None}
  <2>5. e.path \in Seq(All) /\ e.url \in All /\ path \in Seq(All)
    BY <2>4, EntryParts, <1>3
  <2>6. PICK t \in Seq(All) : t = Target(j)
    BY <1>1, <2>2, TargetIs
  <2>7. IsPrefix(path, e.path) /\ IsPrefix(e.path, t)
    BY <1>1, <2>1, <2>2, <2>4, <2>5, <2>6, TargetIs, PrefixOrder DEF IsStrictPrefix
  <2>8. Makes(j, path)
    BY <2>5, <2>6, <2>7, PrefixOrder DEF Makes
  <2>9. path # t
    <3>1. CASE path # e.path
      BY <2>5, <2>7, <3>1, PrefixOrder
    <3>2. CASE path = e.path
      <4>1. e.slash
        BY <2>1, <2>4, <3>2 DEF IsStrictPrefix
      <4>2. t = Append(e.path, e.url)
        BY <2>3, <2>4, <2>6, <4>1 DEF Target
      <4> QED BY <2>5, <3>2, <4>2, AppendIs
    <3> QED BY <3>1, <3>2
  <2>10. path \in Path
    BY <1>10 DEF Path
  <2> QED BY <1>10, <2>2, <2>6, <2>8, <2>9, <2>10, AlreadyThere DEF IsDir
<1>11. OnTrack => to = Target(n)
  BY <1>5, <1>6, <1>7, <1>8, <1>10 DEF IsDir
<1> QED BY <1>9, <1>11

\* What a step may do to the tree: nothing disappears or changes its kind, and
\* what is new is on the way of the current entry.
Grown ==
  /\ \A p \in DOMAIN tree : p \in DOMAIN tree' /\ tree'[p].kind = tree[p].kind
  /\ Certain => \A p \in DOMAIN tree' \ DOMAIN tree :
       /\ n \in DOMAIN entries /\ Makes(n, p)
       /\ tree'[p].kind = "file" => Writes(n)
       /\ tree'[p].kind = "dir" /\ Writes(n) => p # Target(n)

\* A download whose target another one made a directory would need it.
LEMMA NoDirMade ==
  ASSUME Inv, Inv', Kept, scenario' = scenario, Grown, Certain, Exact \/ PathsAgree,
         NEW i \in DOMAIN entries, entries[i].plugin = "download", Target(i) = entries[i].path
  PROVE  ~ IsDir(tree', Target(i))
<1> SUFFICES ASSUME IsDir(tree', Target(i))
             PROVE  FALSE
  OBVIOUS
<1>1. scenario \in Scenarios /\ n \in Nat /\ DOMAIN entries = 1 .. Len(entries) /\ Len(entries) \in Nat
  BY EntriesType DEF Inv, TypeOK
<1>2. PICK p : p = Target(i)
  OBVIOUS
<1>3. ~ IsDir(tree, p)
  BY <1>2 DEF Kept, NoDirInstead
<1>4. p \in DOMAIN tree' \ DOMAIN tree /\ tree'[p].kind = "dir"
  BY <1>2, <1>3 DEF IsDir, Grown
<1>5. p \in Path
  BY <1>4 DEF Inv, TypeOK, Tree
<1>6. n \in DOMAIN entries /\ Makes(n, p) /\ (Writes(n) => p # Target(n))
  BY <1>4 DEF Grown
<1>7. CASE PathsAgree
  <2>1. ~ IsStrictPrefix(p, Target(n)) /\ (entries[n].plugin = "directory" => p # Target(n))
    BY <1>2, <1>6, <1>7 DEF PathsAgree
  <2> QED BY <1>6, <2>1 DEF IsStrictPrefix, Makes, Writes
<1>8. CASE Exact
  <2>1. ~ Turned(i)
    <3>1. Makes(i, p)
      BY <1>1, <1>2, OnTheWay
    <3> QED BY <1>4, <1>5, <1>8, <3>1, AlreadyThere DEF Exact
  <2>2. n <= i
    BY <1>1, <2>1 DEF Turned
  <2>3. entries[n].plugin = "download"
    BY <1>1, <1>6, <2>2, DownloadsFirst
  <2>4. p # Target(n)
    BY <1>6, <2>3 DEF Writes
  <2>5. n < i
    BY <1>1, <1>2, <2>2, <2>4
  <2> DEFINE All == Names \cup {None}
  <2>6. PICK e \in Entry : e = entries[n]
    BY <1>1, <1>6, EntriesType
  <2>7. e.path \in Seq(All) /\ e.url \in All
    BY <2>6, EntryParts
  <2>8. PICK f \in Entry : f = entries[i]
    BY <1>1, EntriesType
  <2>9. f.path \in Seq(All) /\ f.url \in All /\ p = f.path
    BY <1>2, <2>8, EntryParts
  <2>10. ~ Needed(i) /\ ~ IsDir(scenario.tree, p)
    <3>1. Append(f.path, f.url) # f.path
      BY <2>9, AppendIs
    <3> QED BY <1>2, <2>8, <2>9, <3>1 DEF Target
  <2>11. n \in 1 .. i - 1 /\ 1 .. n - 1 \subseteq 1 .. i - 1
    BY <1>1, <1>6, <2>5
  <2>12. ~ IsStrictPrefix(p, e.path) /\ ~ (p = e.path /\ e.slash)
    BY <2>6, <2>8, <2>9, <2>10, <2>11 DEF Needed
  <2>13. IsPrefix(p, Target(n))
    BY <1>6 DEF Makes
  <2>14. Target(n) = Append(e.path, e.url)
    <3>1. Target(n) \in {e.path, Append(e.path, e.url)}
      BY <1>1, <1>6, <2>6, TargetIs
    <3> QED BY <2>4, <2>12, <2>13, <3>1 DEF IsStrictPrefix
  <2>15. p = e.path
    <3>1. IsPrefix(p, e.path) \/ p = Append(e.path, e.url)
      BY <2>7, <2>9, <2>13, <2>14, AppendIs
    <3> QED BY <2>4, <2>12, <2>14, <3>1 DEF IsStrictPrefix
  <2>16. Needed(n)
    <3>1. Append(e.path, e.url) # e.path
      BY <2>7, AppendIs
    <3> QED BY <2>3, <2>6, <2>10, <2>12, <2>14, <2>15, <3>1 DEF Target
  <2>17. Needed(i)
    BY <2>6, <2>8, <2>9, <2>11, <2>15, <2>16 DEF Needed
  <2> QED BY <2>10, <2>17
<1> QED BY <1>7, <1>8

\* A step that does so keeps what is said of the paths.
LEMMA KeptStep ==
  ASSUME Inv, Inv', Kept, scenario' = scenario, clean' = clean, runs' = runs,
         OnTrack' => OnTrack, Grown,
         Exact' => \A i \in DOMAIN entries : i = n =>
                     \A p \in DOMAIN tree' \ DOMAIN tree : Reached(i, p)',
         Exact' => \A i \in DOMAIN entries, p \in Path :
                     Makes(i, p) /\ Reached(i, p) => Reached(i, p)',
         OnTrack' /\ Certain => \A i \in DOMAIN entries : i < n' => i < n \/ There(i)',
         DestMeant', PassedThere', PartMeant'
  PROVE  Kept'
<1>1. /\ entries' = entries /\ \A i : Target(i)' = Target(i) /\ Writes(i)' = Writes(i)
      /\ \A i, p : Makes(i, p)' = Makes(i, p)
      /\ PathsAgree' = PathsAgree
  BY SameStage, SameMeaning
<1>2. (Exact' => Exact) /\ (Certain' => Certain)
  BY <1>1 DEF Exact, Certain
<1>3. /\ \A p \in DOMAIN tree' : p \in Path
      /\ \A p \in DOMAIN scenario.tree : p \in DOMAIN tree
      /\ \A p \in DOMAIN tree : p \in Path
  BY DEF Inv, TypeOK, Tree, Stays
<1>4. ExtraMeant'
  <2> SUFFICES ASSUME Certain', NEW p \in DOMAIN tree', p \notin DOMAIN scenario.tree
               PROVE  /\ \E i \in DOMAIN entries : Makes(i, p)
                      /\ tree'[p].kind = "file" => \E i \in DOMAIN entries : Writes(i) /\ Makes(i, p)
    BY <1>1 DEF ExtraMeant, Extra
  <2>1. CASE p \in DOMAIN tree
    BY <1>2, <2>1 DEF Kept, ExtraMeant, Extra, Grown
  <2>2. CASE p \notin DOMAIN tree
    BY <1>2, <2>2 DEF Grown
  <2> QED BY <2>1, <2>2
<1>5. ExtraReached'
  <2> SUFFICES ASSUME Exact', runs = 1, NEW p \in DOMAIN tree', p \notin DOMAIN scenario.tree
               PROVE  \E i \in DOMAIN entries : Makes(i, p) /\ Reached(i, p)'
    BY <1>1 DEF ExtraReached, Extra
  <2>1. CASE p \in DOMAIN tree
    <3>1. p \in Extra /\ Exact
      BY <1>2, <2>1 DEF Extra
    <3>2. PICK i \in DOMAIN entries : Makes(i, p) /\ Reached(i, p)
      BY <3>1 DEF Kept, ExtraReached
    <3>3. p \in Path
      BY <1>3, <2>1
    <3> QED BY <3>2, <3>3
  <2>2. CASE p \notin DOMAIN tree
    <3>1. n \in DOMAIN entries /\ Makes(n, p)
      BY <1>2, <2>2 DEF Grown, Certain
    <3>2. PICK i \in DOMAIN entries : i = n
      BY <3>1
    <3>3. Reached(i, p)'
      BY <2>2, <3>2
    <3> QED BY <3>1, <3>2, <3>3
  <2> QED BY <2>1, <2>2
<1>6. NoDirInstead'
  <2> SUFFICES ASSUME Certain', NEW i \in DOMAIN entries, entries[i].plugin = "download",
                      Target(i) = entries[i].path
               PROVE  ~ IsDir(tree', Target(i))
    BY <1>1 DEF NoDirInstead, IsDir
  <2> QED BY <1>2, NoDirMade DEF Certain
<1>7. AllThere'
  <2> SUFFICES ASSUME Certain', OnTrack', NEW i \in DOMAIN entries, Turned(i)'
               PROVE  There(i)'
    BY <1>1 DEF AllThere
  <2>1. Turned(i) \/ There(i)'
    BY <1>2 DEF Turned
  <2>2. CASE Turned(i)
    <3>1. There(i)
      BY <1>2, <2>2 DEF Kept, AllThere
    <3> QED BY <1>1, <3>1 DEF There, Grown
  <2> QED BY <2>1, <2>2
<1> QED BY <1>4, <1>5, <1>6, <1>7 DEF Kept

-----------------------------------------------------------------------------

\* What an entry may give a file or directory.
Attributes == {"data", "mode", "uid", "gid"}

\* An attribute of a node.
Of(node, k) == CASE k = "data" -> node.data
                 [] k = "mode" -> node.mode
                 [] k = "uid" -> node.owner[1]
                 [] k = "gid" -> node.owner[2]

\* Whether entry i calls chown.
Owns(i) == entries[i].owner \notin {None, Root}

\* Whether entry i asks for a value of an attribute.
Asks(i, k) == CASE k = "data" -> Writes(i)
                [] k = "mode" -> entries[i].mode # None
                [] k = "uid" -> Owns(i) /\ entries[i].owner[1] >= 0
                [] k = "gid" -> Owns(i) /\ entries[i].owner[2] >= 0

\* The value it asks for.
Asked(i, k) == CASE k = "data" -> entries[i].data
                 [] k = "mode" -> entries[i].mode
                 [] k = "uid" -> entries[i].owner[1]
                 [] k = "gid" -> entries[i].owner[2]

\* The node has the value, but a file that is given an owner may have lost the set-user-ID bit of its mode.
Has(t, p, k, value) ==
  \/ Of(t[p], k) = value
  \/ /\ k = "mode" /\ t[p].kind = "file" /\ t[p].mode.bits = value.bits
     /\ \E i \in DOMAIN entries : Concerns(i, p) /\ Owns(i)

\* What a path is before it is given anything.
Before(p) ==
  IF p \in DOMAIN scenario.tree THEN scenario.tree[p]
  ELSE IF tree[p].kind = "dir" THEN NewDir
  ELSE [kind |-> "file", data |-> Partial, mode |-> Plain(FileBits), owner |-> Root]

\* Whether the stage says what an attribute will be.
Sound(p, k) ==
  Exact \/ (PathsAgree /\ (k = "data" \/ p \in DOMAIN scenario.tree \/ ~ IsParent(p)))

\* Whether entry i has given path p the attribute in this run.
Done(i, p, k) ==
  \/ i < n
  \/ i = n /\ \/ pc \in {"chmod", "chown"} /\ k = "data"
              \/ pc = "chown" /\ k = "mode"
              \/ Passed(p)
              \/ pc = "chownDir" /\ k = "mode" /\ Len(p) = depth

\* An attribute that no entry asks for is as it was.
AsBefore(k) ==
  \A p \in DOMAIN tree :
    /\ Sound(p, k) /\ ~ Spoilt(p)
    /\ k = "data" => p \in DOMAIN scenario.tree /\ tree[p].kind = "file"
    /\ \A i \in DOMAIN entries : Asks(i, k) => ~ Concerns(i, p)
    => Has(tree, p, k, Of(Before(p), k))

\* Entry i has given it after entry m did; a parent gets it in the first run.
Gave(m, i, p, k) == Done(i, p, k) \/ (Target(m) # p /\ runs > 1)

\* Entry m is the latest one that gave path p the attribute.
Latest(m, p, k) ==
  /\ Concerns(m, p) /\ Asks(m, k) /\ Gave(m, m, p, k)
  /\ \A i \in DOMAIN entries : i > m /\ Concerns(i, p) /\ Asks(i, k) => ~ Gave(m, i, p, k)

\* It is what the latest entry asked for.
ByLatest(k) ==
  \A p \in DOMAIN tree, m \in DOMAIN entries :
    /\ OnTrack /\ Sound(p, k) /\ ~ Spoilt(p) /\ Latest(m, p, k)
    /\ k = "data" => tree[p].kind = "file"
    => Has(tree, p, k, Asked(m, k))

\* What each attribute is.
Valued == \A k \in Attributes : AsBefore(k) /\ ByLatest(k)

-----------------------------------------------------------------------------

\* What entries ask for is a matter of the stage.
LEMMA SameAsking ==
  ASSUME scenario' = scenario, NEW k \in Attributes
  PROVE  /\ \A i : Asks(i, k)' = Asks(i, k) /\ Asked(i, k)' = Asked(i, k)
         /\ \A p, v : Has(tree, p, k, v)' <=> Has(tree', p, k, v)
<1>1. entries' = entries /\ \A i, p : Concerns(i, p)' = Concerns(i, p)
  BY SameStage, SameMeaning
<1>2. \A i : Owns(i)' = Owns(i) /\ Writes(i)' = Writes(i)
  BY <1>1 DEF Owns, Writes
<1>3. \A i : Asks(i, k)' = Asks(i, k) /\ Asked(i, k)' = Asked(i, k)
  BY <1>1, <1>2 DEF Asks, Asked
<1>4. \A p, v : Has(tree, p, k, v)' <=> Has(tree', p, k, v)
  BY <1>1, <1>2 DEF Has
<1> QED BY <1>3, <1>4

\* The attributes of parents are sound only as long as all runs go well.
LEMMA SoundParent ==
  ASSUME scenario \in Scenarios, NEW k \in Attributes, NEW p \in Path,
         NEW i \in DOMAIN entries, Sound(p, k), Asks(i, k), Concerns(i, p), Target(i) # p
  PROVE  Exact
<1>1. ~ Writes(i) /\ IsParent(p) /\ p \notin DOMAIN scenario.tree
  BY OnTheWay
<1>2. k # "data"
  BY <1>1 DEF Asks
<1> QED BY <1>1, <1>2 DEF Sound

\* A step in which the current entry gives at most path q its value of an
\* attribute, and makes at most new nodes with values of their own.
LEMMA ValueStep ==
  ASSUME Inv, Inv', Kept, scenario' = scenario, clean' = clean, runs' = runs,
         OnTrack' => OnTrack, Grown,
         NEW k \in Attributes, AsBefore(k), ByLatest(k),
         NEW q, q \in DOMAIN tree' => n \in DOMAIN entries,
         \A p \in DOMAIN tree :
            /\ Sound(p, k)' /\ ~ Spoilt(p)' /\ (k = "data" => tree[p].kind = "file")
            /\ p # q \/ ~ Asks(n, k)
            => \A v : Has(tree, p, k, v) => Has(tree', p, k, v),
         \A p \in DOMAIN tree' \ DOMAIN tree :
            k # "data" /\ (p # q \/ ~ Asks(n, k)) => Of(tree'[p], k) = Of(Before(p)', k),
         q \in DOMAIN tree' /\ Asks(n, k) /\ Sound(q, k)' /\ ~ Spoilt(q)' =>
            /\ Concerns(n, q) /\ (Target(n) = q \/ runs = 1)
            /\ OnTrack' => Has(tree', q, k, Asked(n, k)) /\ \A i : i = n => Done(i, q, k)',
         \A i \in DOMAIN entries, p \in DOMAIN tree' :
            OnTrack' /\ Sound(p, k)' /\ Concerns(i, p) /\ Asks(i, k) /\ Done(i, p, k)'
            => Done(i, p, k) \/ (i = n /\ p = q) \/ (runs > 1 /\ Target(i) # p),
         \A i \in DOMAIN entries, p \in DOMAIN tree :
            OnTrack' /\ Done(i, p, k) => Done(i, p, k)'
  PROVE  AsBefore(k)' /\ ByLatest(k)'
<1>1. /\ entries' = entries /\ \A i : Target(i)' = Target(i)
      /\ \A i, p : Makes(i, p)' = Makes(i, p) /\ Concerns(i, p)' = Concerns(i, p)
      /\ \A p : IsParent(p)' = IsParent(p)
      /\ PathsAgree' = PathsAgree
      /\ \A i : Asks(i, k)' = Asks(i, k) /\ Asked(i, k)' = Asked(i, k)
      /\ \A p, v : Has(tree, p, k, v)' <=> Has(tree', p, k, v)
  <2>1. /\ entries' = entries /\ \A i : Target(i)' = Target(i)
        /\ \A i, p : Makes(i, p)' = Makes(i, p) /\ Concerns(i, p)' = Concerns(i, p)
        /\ \A p : IsParent(p)' = IsParent(p)
        /\ PathsAgree' = PathsAgree
    BY SameStage, SameMeaning
  <2>2. /\ \A i : Asks(i, k)' = Asks(i, k) /\ Asked(i, k)' = Asked(i, k)
        /\ \A p, v : Has(tree, p, k, v)' <=> Has(tree', p, k, v)
    BY SameAsking
  <2> QED BY <2>1, <2>2
<1>2. /\ scenario \in Scenarios /\ Stays /\ n \in Nat
      /\ DOMAIN entries = 1 .. Len(entries) /\ Len(entries) \in Nat
      /\ \A p \in DOMAIN tree' : p \in Path
  BY EntriesType DEF Inv, TypeOK, Tree
<1>3. /\ Exact' => Exact
      /\ \A p : Sound(p, k)' => Sound(p, k)
      /\ \A p \in DOMAIN tree : ~ Spoilt(p)' => ~ Spoilt(p)
  <2>1. Exact' => Exact
    BY DEF Exact
  <2>2. \A p : Sound(p, k)' => Sound(p, k)
    BY <1>1, <2>1 DEF Sound
  <2>3. \A p \in DOMAIN tree : ~ Spoilt(p)' => ~ Spoilt(p)
    BY <1>1 DEF Spoilt, Grown
  <2> QED BY <2>1, <2>2, <2>3
<1>4. \A p \in DOMAIN tree : p \in DOMAIN tree' /\ tree'[p].kind = tree[p].kind
  BY DEF Grown
<1>5. AsBefore(k)'
  <2> SUFFICES ASSUME NEW p \in DOMAIN tree', Sound(p, k)', ~ Spoilt(p)',
                      k = "data" => p \in DOMAIN scenario.tree /\ tree'[p].kind = "file",
                      \A i \in DOMAIN entries : Asks(i, k) => ~ Concerns(i, p)
               PROVE  Has(tree', p, k, Of(Before(p)', k))
    <3>1. \A p_1 : Of(Before(p_1), k)' = Of(Before(p_1)', k)
      BY DEF Of
    <3> QED BY <1>1, <3>1 DEF AsBefore
  <2>1. p # q \/ ~ Asks(n, k)
    OBVIOUS
  <2>2. CASE p \in DOMAIN tree
    <3>1. Has(tree, p, k, Of(Before(p), k))
      BY <1>3, <1>4, <2>2 DEF AsBefore
    <3>2. Before(p)' = Before(p)
      BY <1>4, <2>2 DEF Before
    <3> QED BY <1>4, <2>1, <2>2, <3>1, <3>2
  <2>3. CASE p \notin DOMAIN tree
    <3>1. k # "data"
      BY <1>2, <2>3 DEF Stays
    <3> QED BY <2>1, <2>3, <3>1 DEF Has
  <2> QED BY <2>2, <2>3
<1>6. ByLatest(k)'
  <2> SUFFICES ASSUME NEW p \in DOMAIN tree', NEW m \in DOMAIN entries, OnTrack', Sound(p, k)',
                      ~ Spoilt(p)', Latest(m, p, k)', k = "data" => tree'[p].kind = "file"
               PROVE  Has(tree', p, k, Asked(m, k))
    BY <1>1 DEF ByLatest
  <2>1. /\ Concerns(m, p) /\ Asks(m, k) /\ Gave(m, m, p, k)'
        /\ \A i \in DOMAIN entries : i > m /\ Concerns(i, p) /\ Asks(i, k) => ~ Gave(m, i, p, k)'
    BY <1>1 DEF Latest
  <2>2. \A i : Gave(m, i, p, k) <=> Done(i, p, k) \/ (Target(m) # p /\ runs > 1)
    BY DEF Gave
  <2>3. \A i : Gave(m, i, p, k)' <=> Done(i, p, k)' \/ (Target(m) # p /\ runs > 1)
    BY <1>1 DEF Gave
  <2>4. \A i \in DOMAIN entries : Done(i, p, k) => i <= n
    BY <1>2 DEF Done
  <2>5. p \in Path /\ Sound(p, k) /\ Makes(m, p)
    BY <1>2, <1>3, <2>1, OnTheWay
  <2>6. Target(m) # p => Exact
    BY <1>2, <2>1, <2>5, SoundParent
  <2>7. CASE p = q /\ Asks(n, k)
    <3>1. /\ n \in DOMAIN entries
          /\ Concerns(n, q) /\ (Target(n) = q \/ runs = 1) /\ Has(tree', q, k, Asked(n, k))
          /\ \A i : i = n => Done(i, q, k)'
      BY <2>7
    <3>2. ~ (n > m)
      BY <2>1, <2>3, <2>7, <3>1
    <3>3. ~ (m > n)
      <4> SUFFICES ASSUME m > n
                   PROVE  FALSE
        OBVIOUS
      <4>1. ~ Done(m, p, k) /\ m # n
        BY <1>2, <2>4
      <4>2. runs > 1 /\ Target(m) # p
        BY <2>1, <2>3, <4>1
      <4>3. Makes(n, p) /\ ~ Makes(n, p)
        BY <1>2, <2>1, <2>5, <2>7, <3>1, <4>2, OnTheWay
      <4> QED BY <4>3
    <3>4. m = n
      BY <1>2, <3>2, <3>3
    <3> QED BY <2>7, <3>1, <3>4
  <2>8. CASE p # q \/ ~ Asks(n, k)
    <3>1. Gave(m, m, p, k)
      <4>1. CASE Done(m, p, k)'
        <5>1. Done(m, p, k) \/ (runs > 1 /\ Target(m) # p)
          BY <2>1, <2>8, <4>1
        <5> QED BY <2>2, <5>1
      <4> QED BY <2>1, <2>2, <2>3, <4>1
    <3>2. p \in DOMAIN tree
      <4>1. Turned(m) \/ Reached(m, p)
        <5>1. CASE Done(m, p, k)
          BY <5>1 DEF Done, Turned, Reached
        <5>2. CASE Target(m) # p /\ runs > 1
          BY <2>6, <5>2 DEF Turned, Exact
        <5> QED BY <2>2, <3>1, <5>1, <5>2
      <4>2. Certain /\ OnTrack
        BY <2>5 DEF Sound, Certain
      <4> QED BY <2>5, <4>1, <4>2, AlreadyThere
    <3>3. Latest(m, p, k)
      <4>1. ASSUME NEW i \in DOMAIN entries, i > m, Concerns(i, p), Asks(i, k)
            PROVE  ~ Gave(m, i, p, k)
        <5>1. ~ Gave(m, i, p, k)'
          BY <2>1, <4>1
        <5> QED BY <2>2, <2>3, <3>2, <5>1
      <4> QED BY <2>1, <3>1, <4>1 DEF Latest
    <3>4. k = "data" => tree[p].kind = "file"
      BY <1>4, <3>2
    <3>5. Has(tree, p, k, Asked(m, k))
      BY <1>3, <2>5, <3>2, <3>3, <3>4 DEF ByLatest
    <3> QED BY <2>8, <3>2, <3>4, <3>5
  <2> QED BY <2>7, <2>8
<1> QED BY <1>5, <1>6

\* All that is shown of the tree.
Whole == Inv /\ Kept /\ Valued

-----------------------------------------------------------------------------

\* A node keeps an attribute.
LEMMA HasKept ==
  ASSUME NEW k, NEW p \in DOMAIN tree, tree'[p].kind = tree[p].kind,
         Of(tree'[p], k) = Of(tree[p], k), k = "mode" => tree'[p].mode = tree[p].mode
  PROVE  \A v : Has(tree, p, k, v) => Has(tree', p, k, v)
BY DEF Has

\* Attributes that are part of a node's mode or owner.
LEMMA OfSame ==
  ASSUME NEW k \in Attributes, k # "data", NEW one, NEW other,
         one.mode = other.mode, one.owner = other.owner
  PROVE  Of(one, k) = Of(other, k)
BY DEF Of, Attributes

\* A step that is no turn for the better.
LEMMA OffTrack ==
  ASSUME Inv, n \in DOMAIN entries, Fail \/ GoDown
  PROVE  ~ OnTrack' /\ n' >= n /\ n' <= n + 1 /\ pc' \in {"entry", "down"}
<1>1. n \in Nat
  BY DEF Inv, TypeOK
<1>2. CASE Fail
  BY <1>1, <1>2 DEF Fail, NextEntry, OnTrack
<1>3. CASE GoDown
  BY <1>1, <1>3 DEF GoDown, OnTrack
<1> QED BY <1>2, <1>3

\* Making the file of an entry.
LEMMA MakeWhole ==
  ASSUME Whole, Inv', pc = "entry", n <= Len(entries), Writes(n),
         NEW to \in Path, dest' = to, UNCHANGED <<history, depth>>,
         Certain => Makes(n, to) /\ (OnTrack => to = Target(n)),
         NEW writable, writable => ~ IsDir(tree, to), NEW comes, Make(to, writable, comes)
  PROVE  Whole'
<1>1. /\ entries' = entries /\ scenario' = scenario /\ clean' = clean /\ runs' = runs
      /\ \A i : Target(i)' = Target(i)
      /\ \A i, p : Makes(i, p)' = Makes(i, p) /\ Concerns(i, p)' = Concerns(i, p)
      /\ PathsAgree' = PathsAgree
  BY SameStage, SameMeaning DEF history
<1>2. /\ n \in DOMAIN entries /\ current = entries[n] /\ current \in Entry /\ n \in Nat
      /\ Tree(tree) /\ scenario \in Scenarios /\ Stays /\ Inv /\ Kept /\ Valued
      /\ to \in Seq(Names) /\ to # <<>>
  BY CurrentIs DEF Whole, Inv, TypeOK, Path
<1>3. /\ Tree(tree')
      /\ \A p \in DOMAIN tree :
           /\ p \in DOMAIN tree' /\ tree'[p].kind = tree[p].kind
           /\ tree'[p].mode = tree[p].mode /\ tree'[p].owner = tree[p].owner
           /\ (p = to /\ tree[p].kind = "file") \/ tree'[p] = tree[p]
      /\ \A p \in DOMAIN tree' \ DOMAIN tree :
           /\ IsPrefix(p, to) /\ (p # to => tree'[p] = NewDir)
           /\ p = to => /\ tree'[p].kind = "file" /\ tree'[p].mode = Plain(FileBits)
                        /\ tree'[p].owner = Root
      /\ \/ /\ pc' = "chmod" /\ UNCHANGED <<n, failures>>
            /\ to \in DOMAIN tree' /\ tree'[to].kind = "file" /\ tree'[to].data = current.data
         \/ Fail \/ GoDown
  BY <1>2, MakeIs
<1>4. \A p \in DOMAIN tree' : p \in Path
  BY <1>3 DEF Tree
<1>5. /\ OnTrack' => /\ pc' = "chmod" /\ UNCHANGED <<n, failures>>
                     /\ to \in DOMAIN tree' /\ tree'[to].kind = "file" /\ tree'[to].data = current.data
      /\ pc' \in {"chmod", "entry", "down"}
      /\ pc' = "chmod" => UNCHANGED <<n, failures>>
  BY <1>2, <1>3, OffTrack
<1>6. OnTrack' => OnTrack
  BY <1>5 DEF OnTrack
<1>7. (Exact' => Exact) /\ (Certain' => Certain)
  BY <1>1, <1>6 DEF Exact, Certain
<1>8. Grown
  <2>1. ASSUME Certain, NEW p \in DOMAIN tree' \ DOMAIN tree
        PROVE  Makes(n, p) /\ (tree'[p].kind = "dir" => p # Target(n))
    <3> DEFINE All == Names \cup {None}
    <3>1. p \in Seq(All) /\ to \in Seq(All) /\ IsPrefix(p, to) /\ Target(n) \in Seq(All)
      <4>1. Seq(Names) \subseteq Seq(All)
        OBVIOUS
      <4> QED BY <1>2, <1>3, <1>4, <2>1, <4>1, TargetIs DEF Path
    <3>2. IsPrefix(to, Target(n))
      BY <2>1 DEF Makes
    <3>3. Makes(n, p)
      BY <3>1, <3>2, PrefixOrder DEF Makes
    <3>4. p = Target(n) => p = to
      BY <3>1, <3>2, PrefixOrder
    <3> QED BY <1>3, <2>1, <3>3, <3>4
  <2> QED BY <1>2, <1>3, <2>1 DEF Grown
<1>9. Kept'
  <2>1. Exact' => \A i \in DOMAIN entries : i = n =>
                    \A p \in DOMAIN tree' \ DOMAIN tree : Reached(i, p)'
    BY <1>5 DEF Exact, Reached
  <2>2. Exact' => \A i \in DOMAIN entries, p \in Path :
                    Makes(i, p) /\ Reached(i, p) => Reached(i, p)'
    BY <1>5 DEF Exact, Reached, Passed
  <2>3. OnTrack' /\ Certain => \A i \in DOMAIN entries : i < n' => i < n \/ There(i)'
    BY <1>5
  <2>4. DestMeant'
    <3>1. pc' \in {"chmod", "chown"} => n' = n
      BY <1>5
    <3> QED BY <1>1, <1>6, <1>7, <3>1 DEF DestMeant
  <2>5. PassedThere' /\ PartMeant'
    BY <1>5 DEF PassedThere, PartMeant
  <2> QED BY <1>1, <1>2, <1>6, <1>8, <2>1, <2>2, <2>3, <2>4, <2>5, KeptStep
<1>10. ASSUME NEW k \in Attributes
       PROVE  AsBefore(k)' /\ ByLatest(k)'
  <2>1. PICK q : q = IF k = "data" /\ to \in DOMAIN tree' /\ tree'[to].kind = "file" THEN to ELSE <<>>
    OBVIOUS
  <2>2. q \in DOMAIN tree' => q = to /\ k = "data" /\ tree'[to].kind = "file"
    BY <1>4, <2>1 DEF Path
  <2>3. Asks(n, "data")
    BY DEF Asks
  <2>4. ASSUME NEW p \in DOMAIN tree, p # q \/ ~ Asks(n, k)
        PROVE  \A v : Has(tree, p, k, v) => Has(tree', p, k, v)
    <3>1. CASE k = "data"
      <4>1. tree'[p] = tree[p]
        BY <1>3, <2>1, <2>3, <2>4, <3>1
      <4> QED BY <3>1, <4>1, HasKept
    <3>2. CASE k # "data"
      <4>1. tree'[p].mode = tree[p].mode /\ tree'[p].owner = tree[p].owner
            /\ tree'[p].kind = tree[p].kind
        BY <1>3
      <4>2. Of(tree'[p], k) = Of(tree[p], k)
        BY <3>2, <4>1, OfSame
      <4> QED BY <4>1, <4>2, HasKept
    <3> QED BY <3>1, <3>2
  <2>5. ASSUME NEW p \in DOMAIN tree' \ DOMAIN tree, k # "data"
        PROVE  Of(tree'[p], k) = Of(Before(p)', k)
    <3>1. p \notin DOMAIN scenario.tree
      BY <1>2 DEF Stays
    <3>2. PICK before : before = Before(p)'
      OBVIOUS
    <3>3. CASE p # to
      <4>1. tree'[p] = NewDir
        BY <1>3, <3>3
      <4>2. before = NewDir
        BY <1>1, <3>1, <3>2, <4>1 DEF Before, NewDir
      <4> QED BY <3>2, <4>1, <4>2
    <3>4. CASE p = to
      <4>1. tree'[p].kind = "file" /\ tree'[p].mode = Plain(FileBits) /\ tree'[p].owner = Root
        BY <1>3, <3>4
      <4>2. before = [kind |-> "file", data |-> Partial, mode |-> Plain(FileBits), owner |-> Root]
        BY <1>1, <3>1, <3>2, <4>1 DEF Before
      <4>3. before.mode = tree'[p].mode /\ before.owner = tree'[p].owner
        BY <4>1, <4>2
      <4>4. Of(tree'[p], k) = Of(before, k)
        BY <2>5, <4>3, OfSame
      <4> QED BY <3>2, <4>4
    <3> QED BY <3>3, <3>4
  <2>6. ASSUME q \in DOMAIN tree', Sound(q, k)', ~ Spoilt(q)'
        PROVE  /\ Concerns(n, q) /\ Target(n) = q
               /\ OnTrack' => Has(tree', q, k, Asked(n, k)) /\ \A i : i = n => Done(i, q, k)'
    <3>1. q = to /\ k = "data" /\ tree'[to].kind = "file"
      BY <2>2, <2>6
    <3>2. Certain
      BY <1>1, <1>7, <2>6 DEF Sound, Certain
    <3>3. Target(n) = q
      BY <1>1, <1>2, <2>6, <3>1, <3>2 DEF Spoilt
    <3>4. Concerns(n, q)
      BY <3>3 DEF Concerns
    <3>5. OnTrack' => Has(tree', q, k, Asked(n, k))
      BY <1>2, <1>5, <3>1 DEF Has, Of, Asked
    <3>6. OnTrack' => \A i : i = n => Done(i, q, k)'
      BY <1>5, <3>1 DEF Done
    <3> QED BY <3>3, <3>4, <3>5, <3>6
  <2>7. ASSUME NEW i \in DOMAIN entries, NEW p \in DOMAIN tree', OnTrack', Sound(p, k)',
               Concerns(i, p), Asks(i, k), Done(i, p, k)'
        PROVE  Done(i, p, k) \/ (i = n /\ p = q)
    <3>1. CASE i < n
      BY <3>1 DEF Done
    <3>2. CASE ~ (i < n)
      <4>1. i = n /\ k = "data" /\ to \in DOMAIN tree' /\ tree'[to].kind = "file"
        BY <1>5, <2>7, <3>2 DEF Done, Passed
      <4>2. p = Target(n)
        BY <1>2, <1>4, <2>7, <4>1, OnTheWay
      <4>3. Certain /\ OnTrack
        BY <1>1, <1>6, <1>7, <2>7 DEF Sound, Certain
      <4> QED BY <2>1, <4>1, <4>2, <4>3
    <3> QED BY <3>1, <3>2
  <2>8. \A i \in DOMAIN entries, p \in DOMAIN tree : OnTrack' /\ Done(i, p, k) => Done(i, p, k)'
    BY <1>5 DEF Done, Passed
  <2>9. AsBefore(k) /\ ByLatest(k)
    BY <1>2 DEF Valued
  <2> QED BY <1>1, <1>2, <1>6, <1>8, <2>2, <2>4, <2>5, <2>6, <2>7, <2>8, <2>9, ValueStep
<1> QED BY <1>9, <1>10 DEF Whole, Valued

\* A step that leaves the tree as it is.
LEMMA TreeLeft ==
  ASSUME Whole, Inv', UNCHANGED <<history, tree>>, OnTrack' => OnTrack,
         Exact' => \A i \in DOMAIN entries, p \in Path :
                     Makes(i, p) /\ Reached(i, p) => Reached(i, p)',
         OnTrack' /\ Certain => \A i \in DOMAIN entries : i < n' => i < n \/ There(i),
         DestMeant', PassedThere', PartMeant',
         OnTrack' => \A i \in DOMAIN entries, p \in Path, k \in Attributes :
                       /\ Concerns(i, p) /\ Done(i, p, k)' => Done(i, p, k)
                       /\ Done(i, p, k) => Done(i, p, k)'
  PROVE  Whole'
<1>1. /\ entries' = entries /\ scenario' = scenario /\ clean' = clean /\ runs' = runs
      /\ \A i : Target(i)' = Target(i)
      /\ \A i : Writes(i)' = Writes(i)
  BY SameStage, SameMeaning DEF history
<1>2. Inv /\ Kept /\ Valued /\ \A p \in DOMAIN tree : p \in Path
  BY DEF Whole, Inv, TypeOK, Tree
<1>3. Grown
  BY DEF Grown
<1>4. \A i : There(i)' <=> There(i)
  BY <1>1 DEF There
<1>5. Kept'
  <2>1. \A i \in DOMAIN entries, p \in DOMAIN tree' \ DOMAIN tree : FALSE
    OBVIOUS
  <2> QED BY <1>1, <1>2, <1>3, <1>4, <2>1, KeptStep
<1>6. ASSUME NEW k \in Attributes
      PROVE  AsBefore(k)' /\ ByLatest(k)'
  <2>1. PICK q : q = <<>>
    OBVIOUS
  <2>2. q \notin DOMAIN tree' /\ q \notin DOMAIN tree
    BY <1>2, <2>1 DEF Path
  <2>3. AsBefore(k) /\ ByLatest(k)
    BY <1>2 DEF Valued
  <2>4. \A i \in DOMAIN entries, p \in DOMAIN tree' :
           OnTrack' /\ Sound(p, k)' /\ Concerns(i, p) /\ Asks(i, k) /\ Done(i, p, k)'
           => Done(i, p, k) \/ (i = n /\ p = q) \/ (runs > 1 /\ Target(i) # p)
    BY <1>2
  <2>5. \A i \in DOMAIN entries, p \in DOMAIN tree :
           OnTrack' /\ Done(i, p, k) => Done(i, p, k)'
    BY <1>2
  <2>6. \A p, v : Has(tree, p, k, v) => Has(tree', p, k, v)
    OBVIOUS
  <2> QED BY <1>1, <1>2, <1>3, <2>2, <2>3, <2>4, <2>5, <2>6, ValueStep
<1> QED BY <1>5, <1>6 DEF Whole, Valued

\* An entry that fails, or over which the machine goes down, and has not
\* changed the tree.
LEMMA OffTrackWhole ==
  ASSUME Whole, Inv', n \in DOMAIN entries, Fail \/ GoDown, UNCHANGED <<history, tree>>
  PROVE  Whole'
<1>1. ~ OnTrack' /\ pc' \in {"entry", "down"}
  BY OffTrack DEF Whole
<1>2. DestMeant' /\ PassedThere' /\ PartMeant'
  BY <1>1 DEF DestMeant, PassedThere, PartMeant
<1> QED BY <1>1, <1>2, TreeLeft DEF Exact

\* A download.
LEMMA DownloadWhole == Whole /\ Inv' /\ Download => Whole'
<1> SUFFICES ASSUME Whole, Inv', Download
             PROVE  Whole'
  OBVIOUS
<1>1. /\ pc = "entry" /\ n <= Len(entries) /\ current.plugin = "download"
      /\ UNCHANGED <<history, depth>> /\ Inv /\ Kept
  BY DEF Download, At, Whole
<1>2. n \in DOMAIN entries /\ current = entries[n] /\ current \in Entry
  BY <1>1, CurrentIs
<1>3. CASE Fail /\ UNCHANGED <<tree, dest>>
  BY <1>1, <1>2, <1>3, OffTrackWhole
<1>4. CASE /\ ~ Nameless /\ current.url # None
           /\ dest' = Resolved(tree, current)
           /\ Make(dest', ~ IsDir(tree, dest'), {TRUE} \cup {~ mayFail("get")})
  <2>1. PICK to : to = dest' /\ to = Resolved(tree, current)
    BY <1>4
  <2>2. to \in Path
    <3>1. current.path \in Seq(Names) /\ current.url \in Names
      BY <1>2, <1>4, EntryParts
    <3>2. Append(current.path, current.url) \in Path
      BY <3>1, AppendIs DEF Path
    <3> QED BY <2>1, <3>1, <3>2 DEF Resolved, Path, IsDir
  <2>3. Certain => Makes(n, to) /\ (OnTrack => to = Target(n))
    BY <1>1, <1>4, <2>1, ResolvedIs
  <2>4. Writes(n)
    BY <1>1, <1>2 DEF Writes
  <2>5. Make(to, ~ IsDir(tree, to), {TRUE} \cup {~ mayFail("get")})
    BY <1>4, <2>1
  <2> QED BY <1>1, <2>1, <2>2, <2>3, <2>4, <2>5, MakeWhole
<1> QED BY <1>3, <1>4 DEF Download

\* A file.
LEMMA FileWhole == Whole /\ Inv' /\ File => Whole'
<1> SUFFICES ASSUME Whole, Inv', File
             PROVE  Whole'
  OBVIOUS
<1>1. /\ pc = "entry" /\ n <= Len(entries) /\ current.plugin = "file"
      /\ UNCHANGED <<history, depth>> /\ Inv /\ Kept /\ scenario \in Scenarios
  BY DEF File, At, Whole, Inv, TypeOK
<1>2. n \in DOMAIN entries /\ current = entries[n] /\ current \in Entry
  BY <1>1, CurrentIs
<1>3. CASE Fail /\ UNCHANGED <<tree, dest>>
  BY <1>1, <1>2, <1>3, OffTrackWhole
<1>4. CASE /\ current.path # <<>> /\ dest' = current.path
           /\ Make(dest', ~ current.slash /\ ~ IsDir(tree, dest'), {current.decodes})
  <2>1. PICK to : to = dest' /\ to = current.path
    BY <1>4
  <2>2. to \in Path
    BY <1>2, <1>4, <2>1, EntryParts DEF Path
  <2>3. Makes(n, to) /\ to = Target(n)
    BY <1>1, <1>2, <2>1, TargetIs, OnTheWay
  <2>4. Writes(n)
    BY <1>1, <1>2 DEF Writes
  <2>5. Make(to, ~ current.slash /\ ~ IsDir(tree, to), {current.decodes})
    BY <1>4, <2>1
  <2> QED BY <1>1, <2>1, <2>2, <2>3, <2>4, <2>5, MakeWhole
<1> QED BY <1>3, <1>4 DEF File

\* The beginning of a directory.
LEMMA DirectoryWhole == Whole /\ Inv' /\ Directory => Whole'
<1> SUFFICES ASSUME Whole, Inv', Directory
             PROVE  Whole'
  OBVIOUS
<1>1. /\ pc = "entry" /\ n <= Len(entries) /\ current.plugin = "directory" /\ depth' = 1
      /\ UNCHANGED <<history, tree, dest>> /\ Inv /\ scenario \in Scenarios
  BY DEF Directory, At, Whole, Inv, TypeOK
<1>2. /\ n \in DOMAIN entries /\ n \in Nat /\ current = entries[n] /\ current \in Entry
      /\ Target(n) = current.path /\ DOMAIN entries = 1 .. Len(entries) /\ Len(entries) \in Nat
  BY <1>1, CurrentIs, TargetIs, EntriesType DEF Inv, TypeOK
<1>3. CASE Fail
  BY <1>1, <1>2, <1>3, OffTrackWhole
<1>4. CASE current.path = <<>> /\ NextEntry /\ UNCHANGED failures
  <2>1. pc' = "entry" /\ n' = n + 1 /\ failures' = failures
    BY <1>4 DEF NextEntry
  <2>2. OnTrack' => OnTrack
    BY <1>1, <2>1 DEF OnTrack
  <2>3. \A i \in DOMAIN entries, p \in Path : Makes(i, p) /\ Reached(i, p) => Reached(i, p)'
    BY <1>1, <1>2, <2>1 DEF Reached, Passed
  <2>4. \A i \in DOMAIN entries : i < n' => i < n \/ There(i)
    <3>1. There(n)
      BY <1>2, <1>4 DEF There
    <3> QED BY <1>2, <2>1, <3>1
  <2>5. DestMeant' /\ PassedThere' /\ PartMeant'
    BY <2>1 DEF DestMeant, PassedThere, PartMeant
  <2>6. ASSUME NEW i \in DOMAIN entries, NEW p \in Path, NEW k \in Attributes
        PROVE  /\ Concerns(i, p) /\ Done(i, p, k)' => Done(i, p, k)
               /\ Done(i, p, k) => Done(i, p, k)'
    <3>1. i = n => ~ Concerns(i, p)
      BY <1>1, <1>2, <1>4, OnTheWay
    <3>2. (Done(i, p, k) <=> i < n) /\ (Done(i, p, k)' <=> i < n + 1)
      BY <1>1, <2>1 DEF Done, Passed
    <3> QED BY <1>2, <3>1, <3>2
  <2> QED BY <1>1, <2>2, <2>3, <2>4, <2>5, <2>6, TreeLeft
<1>5. CASE current.path # <<>> /\ pc' = "segment" /\ UNCHANGED <<n, failures>>
  <2>1. OnTrack' => OnTrack
    BY <1>1, <1>5 DEF OnTrack
  <2>2. \A i \in DOMAIN entries, p \in Path : Makes(i, p) /\ Reached(i, p) => Reached(i, p)'
    BY <1>1, <1>5 DEF Reached, Passed
  <2>3. DestMeant' /\ PassedThere' /\ PartMeant'
    <3>1. \A p \in Path : ~ (Len(p) < 1)
      BY DEF Path
    <3> QED BY <1>1, <1>5, <3>1 DEF DestMeant, PassedThere, PartMeant
  <2>4. ASSUME NEW i \in DOMAIN entries, NEW p \in Path, NEW k \in Attributes
        PROVE  Done(i, p, k)' <=> Done(i, p, k)
    <3>1. ~ (Len(p) < 1)
      BY DEF Path
    <3> QED BY <1>1, <1>5, <3>1 DEF Done, Passed
  <2>5. \A i \in DOMAIN entries : i < n' => i < n
    BY <1>5
  <2> QED BY <1>1, <2>1, <2>2, <2>3, <2>4, <2>5, TreeLeft
<1> QED BY <1>3, <1>4, <1>5 DEF Directory

\* The node that the current entry gives its mode or owner is meant to get it.
LEMMA HereIs ==
  ASSUME Inv, Kept, NEW q, NEW k \in Attributes, k # "data", Sound(q, k), ~ Spoilt(q),
         \/ pc \in {"chmod", "chown"} /\ q = dest
         \/ pc \in {"chmodDir", "chownDir"} /\ q = segment
  PROVE  Concerns(n, q) /\ (Target(n) = q \/ runs = 1)
<1>1. Certain
  BY DEF Sound, Certain
<1>2. CASE pc \in {"chmod", "chown"} /\ q = dest
  <2>1. n \in DOMAIN entries /\ q \in DOMAIN tree /\ tree[q].kind = "file"
    <3>1. n <= Len(entries)
      BY <1>2 DEF Inv, Working
    <3> QED BY <1>2, <3>1, CurrentIs DEF Inv, Working
  <2>2. Makes(n, q)
    BY <1>1, <1>2 DEF Kept, DestMeant
  <2>3. Target(n) = q
    BY <2>1, <2>2 DEF Spoilt
  <2> QED BY <2>3 DEF Concerns
<1>3. CASE pc \in {"chmodDir", "chownDir"} /\ q = segment
  <2>1. /\ n \in DOMAIN entries /\ current = entries[n] /\ current.plugin = "directory"
        /\ segment \in Path /\ IsPrefix(segment, current.path) /\ Target(n) = current.path
        /\ (isLeaf => segment = Target(n))
    BY <1>3, SegmentIs
  <2>2. CASE isLeaf
    BY <1>3, <2>1, <2>2 DEF Concerns
  <2>3. CASE Exact /\ ~ isLeaf
    BY <1>3, <2>3 DEF Kept, PartMeant
  <2>4. CASE ~ Exact /\ ~ isLeaf
    <3>1. q \in DOMAIN scenario.tree \/ ~ IsParent(q)
      BY <2>4 DEF Sound
    <3>2. q = current.path \/ q \notin DOMAIN scenario.tree
      BY <1>3, <2>1 DEF Inv, Working, Touches
    <3>3. Target(n) = q
      BY <1>3, <2>1, <3>1, <3>2 DEF IsParent, IsStrictPrefix
    <3> QED BY <3>3 DEF Concerns
  <2> QED BY <2>2, <2>3, <2>4
<1> QED BY <1>2, <1>3

\* Giving a node some of its attributes.
LEMMA GiveWhole ==
  ASSUME Whole, Inv', UNCHANGED <<history, failures>>, pc # "down", pc' # "down",
         NEW q \in DOMAIN tree,
         \/ pc \in {"chmod", "chown"} /\ q = dest
         \/ pc \in {"chmodDir", "chownDir"} /\ q = segment,
         DOMAIN tree' = DOMAIN tree, tree'[q].kind = tree[q].kind,
         \A p \in DOMAIN tree : p # q => tree'[p] = tree[p],
         NEW given \in SUBSET (Attributes \ {"data"}),
         \A k \in Attributes :
            /\ k \notin given \/ ~ Asks(n, k)
            /\ IF k = "data" THEN tree[q].kind = "file" ELSE Concerns(n, q)
            => \A v : Has(tree, q, k, v) => Has(tree', q, k, v),
         \A k \in given : Asks(n, k) =>
            Has(tree', q, k, Asked(n, k)) /\ \A i : i = n => Done(i, q, k)',
         Exact' => \A i \in DOMAIN entries, p \in Path :
                     Makes(i, p) /\ Reached(i, p) => Reached(i, p)',
         OnTrack /\ Certain => \A i \in DOMAIN entries : i < n' => i < n \/ There(i),
         DestMeant', PassedThere', PartMeant',
         Certain /\ OnTrack => \A i \in DOMAIN entries, p \in Path, k \in Attributes :
            Concerns(i, p) /\ Asks(i, k) /\ Done(i, p, k)'
            => Done(i, p, k) \/ (i = n /\ p = q /\ k \in given),
         \A i \in DOMAIN entries, p \in Path, k \in Attributes : Done(i, p, k) => Done(i, p, k)'
  PROVE  Whole'
<1>1. /\ entries' = entries /\ scenario' = scenario /\ clean' = clean /\ runs' = runs
      /\ \A i : Target(i)' = Target(i)
      /\ \A i : Writes(i)' = Writes(i)
      /\ \A p : IsParent(p)' = IsParent(p)
      /\ PathsAgree' = PathsAgree
  BY SameStage, SameMeaning DEF history
<1>2. Inv /\ Kept /\ Valued /\ \A p \in DOMAIN tree : p \in Path
  BY DEF Whole, Inv, TypeOK, Tree
<1>3. Grown
  BY DEF Grown
<1>4. OnTrack' <=> OnTrack
  BY DEF OnTrack
<1>5. (Exact' => Exact) /\ (Certain' => Certain)
  BY <1>1, <1>4 DEF Exact, Certain
<1>6. ASSUME NEW i, There(i)
      PROVE  There(i)'
  BY <1>1, <1>6 DEF There
<1>7. Kept'
  <2>1. \A i \in DOMAIN entries, p \in DOMAIN tree' \ DOMAIN tree : FALSE
    OBVIOUS
  <2> QED BY <1>1, <1>2, <1>3, <1>4, <1>6, <2>1, KeptStep
<1>8. n \in DOMAIN entries
  <2>1. n <= Len(entries)
    BY <1>2 DEF Inv, Working
  <2> QED BY <1>2, <2>1, CurrentIs
<1>9. ASSUME NEW k \in Attributes
      PROVE  AsBefore(k)' /\ ByLatest(k)'
  <2>1. PICK at : at = IF k \in given THEN q ELSE <<>>
    OBVIOUS
  <2>2. at \in DOMAIN tree => at = q /\ k \in given /\ k # "data"
    BY <1>2, <2>1 DEF Path
  <2>3. ASSUME Sound(q, k)', ~ Spoilt(q)', k # "data"
        PROVE  Concerns(n, q) /\ (Target(n) = q \/ runs = 1)
    <3>1. Sound(q, k)
      BY <1>1, <1>5, <2>3 DEF Sound
    <3>2. ~ Spoilt(q)
      BY <1>1, <2>3 DEF Spoilt, Makes
    <3> QED BY <1>2, <2>3, <3>1, <3>2, HereIs
  <2>4. ASSUME NEW p \in DOMAIN tree, Sound(p, k)', ~ Spoilt(p)', p # at \/ ~ Asks(n, k),
               k = "data" => tree[p].kind = "file"
        PROVE  \A v : Has(tree, p, k, v) => Has(tree', p, k, v)
    <3>1. CASE p # q
      <4>1. tree'[p] = tree[p]
        BY <3>1
      <4> QED BY <4>1 DEF Has
    <3>2. CASE p = q
      BY <2>1, <2>3, <2>4, <3>2
    <3> QED BY <3>1, <3>2
  <2>5. at \in DOMAIN tree' /\ Asks(n, k) /\ Sound(at, k)' /\ ~ Spoilt(at)' =>
          /\ Concerns(n, at) /\ (Target(n) = at \/ runs = 1)
          /\ OnTrack' => Has(tree', at, k, Asked(n, k)) /\ \A i : i = n => Done(i, at, k)'
    BY <2>2, <2>3
  <2>6. \A i \in DOMAIN entries, p \in DOMAIN tree' :
           OnTrack' /\ Sound(p, k)' /\ Concerns(i, p) /\ Asks(i, k) /\ Done(i, p, k)'
           => Done(i, p, k) \/ (i = n /\ p = at) \/ (runs > 1 /\ Target(i) # p)
    BY <1>1, <1>2, <1>4, <1>5, <2>1 DEF Sound, Certain
  <2>7. AsBefore(k) /\ ByLatest(k)
    BY <1>2 DEF Valued
  <2> QED BY <1>1, <1>2, <1>3, <1>4, <1>8, <2>4, <2>5, <2>6, <2>7, ValueStep
<1> QED BY <1>7, <1>9 DEF Whole, Valued

\* What a new owner does to a node.
LEMMA ChownedIs ==
  ASSUME NEW old \in Node, NEW owner \in (Nat \cup {-1}) \X (Nat \cup {-1})
  PROVE  LET node == Chowned(old, owner)
         IN  /\ node.kind = old.kind
             /\ old.kind = "file" => node.data = old.data
             /\ node.owner[1] = (IF owner[1] < 0 THEN old.owner[1] ELSE owner[1])
             /\ node.owner[2] = (IF owner[2] < 0 THEN old.owner[2] ELSE owner[2])
             /\ node.mode.bits = old.mode.bits
             /\ old.kind = "dir" => node.mode = old.mode
<1> DEFINE id(i) == IF owner[i] < 0 THEN old.owner[i] ELSE owner[i]
           both == <<id(1), id(2)>>
           changed == [old.mode EXCEPT !.suid = @ /\ old.kind = "dir"]
<1>1. PICK mode \in Mode : mode = old.mode
  BY DEF Node
<1>2. /\ changed \in Mode /\ changed.bits = mode.bits
      /\ old.kind = "dir" => changed = mode
  BY <1>1 DEF Mode
<1>3. both[1] = id(1) /\ both[2] = id(2)
  OBVIOUS
<1>4. Chowned(old, owner) = [old EXCEPT !.owner = both, !.mode = changed]
  BY DEF Chowned, Node
<1> HIDE DEF both, changed
<1>5. LET node == [old EXCEPT !.owner = both, !.mode = changed]
      IN  /\ node.kind = old.kind /\ node.owner = both /\ node.mode = changed
          /\ old.kind = "file" => node.data = old.data
  BY DEF Node
<1> QED BY <1>1, <1>2, <1>3, <1>4, <1>5

\* Giving a node the current entry's mode.
LEMMA ChmodGives ==
  ASSUME n \in DOMAIN entries, current \in Entry, Tree(tree), NEW q \in DOMAIN tree,
         tree' = IF current.mode = None THEN tree ELSE [tree EXCEPT ![q].mode = current.mode]
  PROVE  /\ DOMAIN tree' = DOMAIN tree /\ tree'[q].kind = tree[q].kind
         /\ \A p \in DOMAIN tree : p # q => tree'[p] = tree[p]
         /\ \A k \in Attributes :
              /\ k \notin {"mode"} \/ ~ Asks(n, k)
              /\ IF k = "data" THEN tree[q].kind = "file" ELSE Concerns(n, q)
              => \A v : Has(tree, q, k, v) => Has(tree', q, k, v)
         /\ Asks(n, "mode") => Has(tree', q, "mode", Asked(n, "mode"))
<1>1. PICK old \in Node : old = tree[q]
  BY DEF Tree
<1>2. current = entries[n]
  BY DEF current
<1>3. CASE current.mode = None
  <2>1. tree' = tree
    BY <1>3
  <2>2. ~ Asks(n, "mode")
    BY <1>2, <1>3 DEF Asks
  <2> QED BY <2>1, <2>2
<1>4. CASE current.mode # None
  <2>1. PICK node : node = [old EXCEPT !.mode = current.mode]
    OBVIOUS
  <2>2. /\ node.kind = old.kind /\ node.mode = current.mode /\ node.owner = old.owner
        /\ old.kind = "file" => node.data = old.data
    BY <2>1 DEF Node
  <2>3. tree' = [tree EXCEPT ![q] = node]
    BY <1>1, <1>4, <2>1
  <2>4. /\ DOMAIN tree' = DOMAIN tree /\ tree'[q] = node
        /\ \A p \in DOMAIN tree : p # q => tree'[p] = tree[p]
    BY <2>3
  <2>5. Asks(n, "mode")
    BY <1>2, <1>4 DEF Asks
  <2>6. ASSUME NEW k \in Attributes, k # "mode", k = "data" => old.kind = "file"
        PROVE  \A v : Has(tree, q, k, v) => Has(tree', q, k, v)
    <3>1. Of(node, k) = Of(old, k)
      BY <2>2, <2>6 DEF Of, Attributes
    <3> QED BY <1>1, <2>2, <2>4, <2>6, <3>1, HasKept
  <2>7. Has(tree', q, "mode", Asked(n, "mode"))
    BY <1>2, <2>2, <2>4 DEF Has, Of, Asked
  <2> QED BY <1>1, <2>2, <2>4, <2>5, <2>6, <2>7
<1> QED BY <1>3, <1>4

\* Giving a node the current entry's owner.
LEMMA ChownGives ==
  ASSUME n \in DOMAIN entries, current \in Entry, Tree(tree), NEW q \in DOMAIN tree,
         tree' = IF current.owner \in {None, Root} THEN tree
                 ELSE [tree EXCEPT ![q] = Chowned(@, current.owner)]
  PROVE  /\ DOMAIN tree' = DOMAIN tree /\ tree'[q].kind = tree[q].kind
         /\ \A p \in DOMAIN tree : p # q => tree'[p] = tree[p]
         /\ \A k \in Attributes :
              /\ k \notin {"uid", "gid"} \/ ~ Asks(n, k)
              /\ IF k = "data" THEN tree[q].kind = "file" ELSE Concerns(n, q)
              => \A v : Has(tree, q, k, v) => Has(tree', q, k, v)
         /\ \A k \in {"uid", "gid"} : Asks(n, k) => Has(tree', q, k, Asked(n, k))
<1>1. PICK old \in Node : old = tree[q]
  BY DEF Tree
<1>2. current = entries[n]
  BY DEF current
<1>3. CASE current.owner \in {None, Root}
  <2>1. tree' = tree
    BY <1>3
  <2>2. ~ Asks(n, "uid") /\ ~ Asks(n, "gid")
    BY <1>2, <1>3 DEF Asks, Owns
  <2> QED BY <2>1, <2>2
<1>4. CASE current.owner \notin {None, Root}
  <2>1. PICK owner \in (Nat \cup {-1}) \X (Nat \cup {-1}) : owner = current.owner
    BY <1>4, EntryParts
  <2>2. PICK node : node = Chowned(old, owner)
    OBVIOUS
  <2>3. /\ node.kind = old.kind
        /\ old.kind = "file" => node.data = old.data
        /\ node.owner[1] = (IF owner[1] < 0 THEN old.owner[1] ELSE owner[1])
        /\ node.owner[2] = (IF owner[2] < 0 THEN old.owner[2] ELSE owner[2])
        /\ node.mode.bits = old.mode.bits
        /\ old.kind = "dir" => node.mode = old.mode
    BY <2>2, ChownedIs
  <2>4. tree' = [tree EXCEPT ![q] = node]
    BY <1>1, <1>4, <2>1, <2>2
  <2>5. /\ DOMAIN tree' = DOMAIN tree /\ tree'[q] = node
        /\ \A p \in DOMAIN tree : p # q => tree'[p] = tree[p]
    BY <2>4
  <2>6. Owns(n) /\ owner[1] \in Int /\ owner[2] \in Int
    BY <1>2, <1>4, <2>1 DEF Owns
  <2>7. ASSUME NEW k \in {"uid", "gid"}
        PROVE  /\ ~ Asks(n, k) => Of(node, k) = Of(old, k)
               /\ Asks(n, k) => Of(node, k) = Asked(n, k)
    <3>1. CASE k = "uid"
      BY <1>2, <2>1, <2>3, <2>6, <3>1 DEF Asks, Asked, Of
    <3>2. CASE k = "gid"
      BY <1>2, <2>1, <2>3, <2>6, <3>2 DEF Asks, Asked, Of
    <3> QED BY <3>1, <3>2
  <2>8. ASSUME NEW k \in Attributes, k \notin {"uid", "gid"} \/ ~ Asks(n, k),
               IF k = "data" THEN tree[q].kind = "file" ELSE Concerns(n, q)
        PROVE  \A v : Has(tree, q, k, v) => Has(tree', q, k, v)
    <3>1. CASE k = "data"
      <4>1. Of(node, k) = Of(old, k)
        BY <1>1, <2>3, <2>8, <3>1 DEF Of
      <4> QED BY <1>1, <2>3, <2>5, <3>1, <4>1, HasKept
    <3>2. CASE k \in {"uid", "gid"}
      <4>1. Of(node, k) = Of(old, k)
        BY <2>7, <2>8, <3>2
      <4> QED BY <1>1, <2>3, <2>5, <3>2, <4>1, HasKept
    <3>3. CASE k = "mode"
      <4>1. Concerns(n, q)
        BY <2>8, <3>3
      <4>2. old.kind = "dir" \/ old.kind = "file"
        BY DEF Node
      <4>3. CASE old.kind = "dir"
        <5>1. Of(node, k) = Of(old, k)
          BY <2>3, <3>3, <4>3 DEF Of
        <5> QED BY <1>1, <2>3, <2>5, <4>3, <5>1, HasKept
      <4>4. CASE old.kind = "file"
        <5> SUFFICES ASSUME NEW v, Has(tree, q, k, v)
                     PROVE  Has(tree', q, k, v)
          OBVIOUS
        <5>1. old.mode.bits = v.bits
          BY <1>1, <3>3 DEF Has, Of
        <5> QED BY <2>3, <2>5, <2>6, <3>3, <4>1, <4>4, <5>1 DEF Has
      <4> QED BY <4>2, <4>3, <4>4
    <3> QED BY <3>1, <3>2, <3>3 DEF Attributes
  <2>9. \A k \in {"uid", "gid"} : Asks(n, k) => Has(tree', q, k, Asked(n, k))
    BY <2>5, <2>7 DEF Has
  <2> QED BY <1>1, <2>3, <2>5, <2>8, <2>9
<1> QED BY <1>3, <1>4

\* The mode of a file.
LEMMA ChmodWhole == Whole /\ Inv' /\ Chmod => Whole'
<1> SUFFICES ASSUME Whole, Inv', Chmod
             PROVE  Whole'
  OBVIOUS
<1>1. /\ pc = "chmod" /\ UNCHANGED <<history, dest, depth>> /\ Inv /\ Kept
      /\ n <= Len(entries) /\ current.plugin # "directory" /\ dest \in DOMAIN tree
      /\ scenario \in Scenarios /\ Tree(tree)
  BY DEF Chmod, Whole, Inv, Working, TypeOK
<1>2. n \in DOMAIN entries /\ n \in Nat /\ current = entries[n] /\ current \in Entry
  BY <1>1, CurrentIs DEF Inv, TypeOK
<1>3. CASE Fail /\ UNCHANGED tree
  BY <1>1, <1>2, <1>3, OffTrackWhole
<1>4. CASE /\ tree' = IF current.mode = None THEN tree
                      ELSE [tree EXCEPT ![dest].mode = current.mode]
           /\ pc' = "chown" /\ UNCHANGED <<n, failures>>
  <2>1. PICK q \in DOMAIN tree : q = dest
    BY <1>1
  <2>2. PICK given : given = {"mode"}
    OBVIOUS
  <2>3. given \in SUBSET (Attributes \ {"data"})
    BY <2>2 DEF Attributes
  <2>4. /\ DOMAIN tree' = DOMAIN tree /\ tree'[q].kind = tree[q].kind
        /\ \A p \in DOMAIN tree : p # q => tree'[p] = tree[p]
        /\ \A k \in Attributes :
             /\ k \notin given \/ ~ Asks(n, k)
             /\ IF k = "data" THEN tree[q].kind = "file" ELSE Concerns(n, q)
             => \A v : Has(tree, q, k, v) => Has(tree', q, k, v)
        /\ \A k \in given : Asks(n, k) => Has(tree', q, k, Asked(n, k))
    BY <1>1, <1>2, <1>4, <2>1, <2>2, ChmodGives
  <2>5. \A k \in given : \A i : i = n => Done(i, q, k)'
    BY <1>4, <2>2 DEF Done
  <2>6. \A i \in DOMAIN entries, p \in Path : Makes(i, p) /\ Reached(i, p) => Reached(i, p)'
    BY <1>1, <1>4 DEF Reached, Passed
  <2>7. \A i \in DOMAIN entries : i < n' => i < n
    BY <1>4
  <2>8. DestMeant' /\ PassedThere' /\ PartMeant'
    <3>1. OnTrack' <=> OnTrack
      BY <1>1, <1>4 DEF OnTrack
    <3>2. Certain' => Certain
      BY <1>1, <3>1, SameMeaning DEF Certain, Exact, history
    <3>3. /\ \A i : Target(i)' = Target(i) /\ \A j, p : Makes(j, p)' = Makes(j, p)
      BY <1>1, SameStage, SameMeaning DEF history
    <3> QED BY <1>1, <1>4, <3>1, <3>2, <3>3 DEF Kept, DestMeant, PassedThere, PartMeant
  <2>9. ASSUME Certain, OnTrack, NEW i \in DOMAIN entries, NEW p \in Path, NEW k \in Attributes,
               Concerns(i, p), Asks(i, k), Done(i, p, k)'
        PROVE  Done(i, p, k) \/ (i = n /\ p = q /\ k \in given)
    <3>1. CASE i < n
      BY <3>1 DEF Done
    <3>2. CASE k = "data" /\ i = n
      BY <1>1, <3>2 DEF Done
    <3>3. CASE ~ (i < n) /\ ~ (k = "data" /\ i = n)
      <4>1. i = n /\ k = "mode"
        BY <1>4, <2>9, <3>3 DEF Done, Passed
      <4>2. Target(i) = q
        BY <1>1, <2>1, <2>9, <4>1 DEF Kept, DestMeant
      <4>3. p = q
        BY <1>1, <1>2, <2>9, <4>1, <4>2, OnTheWay DEF Writes
      <4> QED BY <2>2, <4>1, <4>3
    <3> QED BY <3>1, <3>2, <3>3
  <2>10. \A i \in DOMAIN entries, p \in Path, k \in Attributes : Done(i, p, k) => Done(i, p, k)'
    BY <1>1, <1>4 DEF Done, Passed
  <2> QED BY <1>1, <1>4, <2>1, <2>3, <2>4, <2>5, <2>6, <2>7, <2>8, <2>9, <2>10, GiveWhole
<1> QED BY <1>3, <1>4 DEF Chmod

\* The owner of a file.
LEMMA ChownWhole == Whole /\ Inv' /\ Chown => Whole'
<1> SUFFICES ASSUME Whole, Inv', Chown
             PROVE  Whole'
  OBVIOUS
<1>1. /\ pc = "chown" /\ UNCHANGED <<history, dest, depth>> /\ Inv /\ Kept
      /\ n <= Len(entries) /\ current.plugin # "directory" /\ dest \in DOMAIN tree
      /\ tree[dest].kind = "file" /\ scenario \in Scenarios /\ Tree(tree)
  BY DEF Chown, Whole, Inv, Working, TypeOK
<1>2. /\ n \in DOMAIN entries /\ n \in Nat /\ current = entries[n] /\ current \in Entry
      /\ DOMAIN entries = 1 .. Len(entries) /\ Len(entries) \in Nat
  BY <1>1, CurrentIs, EntriesType DEF Inv, TypeOK
<1>3. CASE Fail /\ UNCHANGED tree
  BY <1>1, <1>2, <1>3, OffTrackWhole
<1>4. CASE /\ tree' = IF current.owner \in {None, Root} THEN tree
                      ELSE [tree EXCEPT ![dest] = Chowned(@, current.owner)]
           /\ NextEntry /\ UNCHANGED failures
  <2>1. pc' = "entry" /\ n' = n + 1 /\ UNCHANGED failures
    BY <1>4 DEF NextEntry
  <2>2. PICK q \in DOMAIN tree : q = dest
    BY <1>1
  <2>3. PICK given : given = {"uid", "gid"}
    OBVIOUS
  <2>4. given \in SUBSET (Attributes \ {"data"})
    BY <2>3 DEF Attributes
  <2>5. /\ DOMAIN tree' = DOMAIN tree /\ tree'[q].kind = tree[q].kind
        /\ \A p \in DOMAIN tree : p # q => tree'[p] = tree[p]
        /\ \A k \in Attributes :
             /\ k \notin given \/ ~ Asks(n, k)
             /\ IF k = "data" THEN tree[q].kind = "file" ELSE Concerns(n, q)
             => \A v : Has(tree, q, k, v) => Has(tree', q, k, v)
        /\ \A k \in given : Asks(n, k) => Has(tree', q, k, Asked(n, k))
    BY <1>1, <1>2, <1>4, <2>2, <2>3, ChownGives
  <2>6. \A k \in given : \A i : i = n => Done(i, q, k)'
    BY <1>2, <2>1 DEF Done
  <2>7. \A i \in DOMAIN entries, p \in Path : Makes(i, p) /\ Reached(i, p) => Reached(i, p)'
    BY <1>1, <1>2, <2>1 DEF Reached, Passed
  <2>8. OnTrack /\ Certain => \A i \in DOMAIN entries : i < n' => i < n \/ There(i)
    <3> SUFFICES ASSUME OnTrack, Certain
                 PROVE  There(n)
      BY <1>2, <2>1
    <3>1. dest = Target(n)
      BY <1>1 DEF Kept, DestMeant
    <3> QED BY <1>1, <3>1 DEF There
  <2>9. DestMeant' /\ PassedThere' /\ PartMeant'
    BY <2>1 DEF DestMeant, PassedThere, PartMeant
  <2>10. ASSUME Certain, OnTrack, NEW i \in DOMAIN entries, NEW p \in Path, NEW k \in Attributes,
               Concerns(i, p), Asks(i, k), Done(i, p, k)'
        PROVE  Done(i, p, k) \/ (i = n /\ p = q /\ k \in given)
    <3>1. CASE i < n
      BY <3>1 DEF Done
    <3>2. CASE ~ (i < n)
      <4>1. i = n
        BY <1>2, <2>1, <2>10, <3>2 DEF Done, Passed
      <4>2. Target(i) = q
        BY <1>1, <2>2, <2>10, <4>1 DEF Kept, DestMeant
      <4>3. p = q
        BY <1>1, <1>2, <2>10, <4>1, <4>2, OnTheWay DEF Writes
      <4>4. k \in given \/ k \in {"data", "mode"}
        BY <2>3 DEF Attributes
      <4> QED BY <1>1, <4>1, <4>3, <4>4 DEF Done
    <3> QED BY <3>1, <3>2
  <2>11. \A i \in DOMAIN entries, p \in Path, k \in Attributes : Done(i, p, k) => Done(i, p, k)'
    BY <1>2, <2>1 DEF Done
  <2> QED BY <1>1, <2>1, <2>2, <2>4, <2>5, <2>6, <2>7, <2>8, <2>9, <2>10, <2>11, GiveWhole
<1> QED BY <1>3, <1>4 DEF Chown

\* The mode of a part of a directory's path.
LEMMA ChmodSegmentWhole == Whole /\ Inv' /\ ChmodSegment => Whole'
<1> SUFFICES ASSUME Whole, Inv', ChmodSegment
             PROVE  Whole'
  OBVIOUS
<1>1. /\ pc = "chmodDir" /\ UNCHANGED <<history, dest, depth>> /\ Inv /\ Kept
      /\ segment \in DOMAIN tree /\ scenario \in Scenarios /\ Tree(tree)
  BY DEF ChmodSegment, Whole, Inv, Working, TypeOK
<1>2. /\ n \in DOMAIN entries /\ current = entries[n] /\ current \in Entry
  BY <1>1, SegmentIs
<1>3. CASE Fail /\ UNCHANGED tree
  BY <1>1, <1>2, <1>3, OffTrackWhole
<1>4. CASE /\ tree' = IF current.mode = None THEN tree
                      ELSE [tree EXCEPT ![segment].mode = current.mode]
           /\ pc' = "chownDir" /\ UNCHANGED <<n, failures>>
  <2>1. PICK q \in DOMAIN tree : q = segment
    BY <1>1
  <2>2. PICK given : given = {"mode"}
    OBVIOUS
  <2>3. given \in SUBSET (Attributes \ {"data"})
    BY <2>2 DEF Attributes
  <2>4. /\ DOMAIN tree' = DOMAIN tree /\ tree'[q].kind = tree[q].kind
        /\ \A p \in DOMAIN tree : p # q => tree'[p] = tree[p]
        /\ \A k \in Attributes :
             /\ k \notin given \/ ~ Asks(n, k)
             /\ IF k = "data" THEN tree[q].kind = "file" ELSE Concerns(n, q)
             => \A v : Has(tree, q, k, v) => Has(tree', q, k, v)
        /\ \A k \in given : Asks(n, k) => Has(tree', q, k, Asked(n, k))
    BY <1>1, <1>2, <1>4, <2>1, <2>2, ChmodGives
  <2>5. q \in Path /\ Makes(n, q) /\ Len(q) = depth
    <3>1. q \in Path /\ Makes(n, q)
      BY <1>1, <1>2, <2>1, SegmentIs DEF Makes
    <3> QED BY <1>1, <2>1, <3>1, PartIs
  <2>6. \A k \in given : \A i : i = n => Done(i, q, k)'
    BY <1>1, <1>4, <2>2, <2>5 DEF Done
  <2>7. \A i \in DOMAIN entries, p \in Path : Makes(i, p) /\ Reached(i, p) => Reached(i, p)'
    BY <1>1, <1>4 DEF Reached, Passed
  <2>8. \A i \in DOMAIN entries : i < n' => i < n
    BY <1>4
  <2>9. DestMeant' /\ PassedThere' /\ PartMeant'
    <3>1. /\ \A i : Target(i)' = Target(i) /\ entries' = entries
          /\ \A i, p : Concerns(i, p)' = Concerns(i, p)
      BY <1>1, SameStage, SameMeaning DEF history
    <3>2. current' = current
      BY <1>4, <3>1 DEF current
    <3>3. (isLeaf' <=> isLeaf) /\ segment' = segment
      BY <1>1, <3>2 DEF isLeaf, segment
    <3>4. Exact' => Exact
      BY <1>1, <1>4 DEF Exact, OnTrack, history
    <3>5. DestMeant' /\ PassedThere'
      BY <1>1, <1>4, <2>4, <3>2 DEF Kept, DestMeant, PassedThere
    <3>6. PartMeant'
      BY <1>1, <1>4, <3>1, <3>3, <3>4 DEF Kept, PartMeant, history
    <3> QED BY <3>5, <3>6
  <2>10. ASSUME NEW i \in DOMAIN entries, NEW p \in Path, NEW k \in Attributes,
                Concerns(i, p), Done(i, p, k)'
         PROVE  Done(i, p, k) \/ (i = n /\ p = q /\ k \in given)
    <3>1. CASE i < n \/ (i = n /\ Passed(p))
      BY <3>1 DEF Done
    <3>2. CASE ~ (i < n \/ (i = n /\ Passed(p)))
      <4>1. i = n /\ k = "mode" /\ Len(p) = depth
        BY <1>1, <1>4, <2>10, <3>2 DEF Done, Passed
      <4>2. Makes(n, p)
        BY <1>1, <2>10, <4>1, OnTheWay
      <4>3. p = q
        BY <1>1, <2>1, <4>1, <4>2, PartIs
      <4> QED BY <2>2, <4>1, <4>3
    <3> QED BY <3>1, <3>2
  <2>11. \A i \in DOMAIN entries, p \in Path, k \in Attributes : Done(i, p, k) => Done(i, p, k)'
    BY <1>1, <1>4 DEF Done, Passed
  <2> QED BY <1>1, <1>4, <2>1, <2>3, <2>4, <2>6, <2>7, <2>8, <2>9, <2>10, <2>11, GiveWhole
<1> QED BY <1>3, <1>4 DEF ChmodSegment

\* The owner of a part of a directory's path.
LEMMA ChownSegmentWhole == Whole /\ Inv' /\ ChownSegment => Whole'
<1> SUFFICES ASSUME Whole, Inv', ChownSegment
             PROVE  Whole'
  OBVIOUS
<1>1. /\ pc = "chownDir" /\ UNCHANGED <<history, dest>> /\ Inv /\ Kept
      /\ segment \in DOMAIN tree /\ scenario \in Scenarios /\ Tree(tree)
  BY DEF ChownSegment, Whole, Inv, Working, TypeOK
<1>2. /\ n \in DOMAIN entries /\ n \in Nat /\ current = entries[n] /\ current \in Entry
      /\ current.plugin = "directory" /\ depth \in Nat
      /\ DOMAIN entries = 1 .. Len(entries) /\ Len(entries) \in Nat
      /\ (isLeaf => segment = Target(n))
  BY <1>1, SegmentIs, EntriesType DEF Inv, TypeOK
<1>3. CASE Fail /\ UNCHANGED <<tree, depth>>
  BY <1>1, <1>2, <1>3, OffTrackWhole
<1>4. CASE /\ tree' = IF current.owner \in {None, Root} THEN tree
                      ELSE [tree EXCEPT ![segment] = Chowned(@, current.owner)]
           /\ NextSegment /\ UNCHANGED failures
  <2>1. PICK q \in DOMAIN tree : q = segment
    BY <1>1
  <2>2. PICK given : given = {"uid", "gid"}
    OBVIOUS
  <2>3. given \in SUBSET (Attributes \ {"data"})
    BY <2>2 DEF Attributes
  <2>4. /\ DOMAIN tree' = DOMAIN tree /\ tree'[q].kind = tree[q].kind
        /\ \A p \in DOMAIN tree : p # q => tree'[p] = tree[p]
        /\ \A k \in Attributes :
             /\ k \notin given \/ ~ Asks(n, k)
             /\ IF k = "data" THEN tree[q].kind = "file" ELSE Concerns(n, q)
             => \A v : Has(tree, q, k, v) => Has(tree', q, k, v)
        /\ \A k \in given : Asks(n, k) => Has(tree', q, k, Asked(n, k))
    BY <1>1, <1>2, <1>4, <2>1, <2>2, ChownGives
  <2>5. q \in Path /\ Makes(n, q) /\ Len(q) = depth
    <3>1. q \in Path /\ Makes(n, q)
      BY <1>1, <1>2, <2>1, SegmentIs DEF Makes
    <3> QED BY <1>1, <2>1, <3>1, PartIs
  <2>6. \A p \in Path : Makes(n, p) => /\ IsPrefix(p, current.path)
                                       /\ Len(p) \in Nat /\ Len(p) <= Len(current.path)
                                       /\ (Len(p) = depth <=> p = q)
    BY <1>1, <2>1, PartIs
  <2>7. \/ /\ isLeaf /\ depth = Len(current.path)
           /\ pc' = "entry" /\ n' = n + 1 /\ UNCHANGED <<failures, depth>>
        \/ ~ isLeaf /\ pc' = "segment" /\ depth' = depth + 1 /\ UNCHANGED <<failures, n>>
    BY <1>4 DEF NextSegment, NextEntry, isLeaf
  <2>8. \A k \in given : \A i : i = n => Done(i, q, k)'
    BY <1>2, <2>5, <2>7 DEF Done, Passed
  <2>9. ASSUME NEW i \in DOMAIN entries, NEW p \in Path, Makes(i, p), Reached(i, p)
        PROVE  Reached(i, p)'
    <3>1. CASE i < n
      BY <1>2, <2>7, <3>1 DEF Reached
    <3>2. CASE i = n /\ Len(p) <= depth
      <4>1. Len(p) \in Nat
        BY <2>6, <2>9, <3>2
      <4> QED BY <1>2, <2>7, <3>2, <4>1 DEF Reached, Passed
    <3>3. i < n \/ (i = n /\ Len(p) <= depth)
      <4>1. i = n => Len(p) \in Nat
        BY <2>6, <2>9
      <4> QED BY <1>1, <1>2, <2>9, <4>1 DEF Reached, Passed
    <3> QED BY <3>1, <3>2, <3>3
  <2>10. \A i \in DOMAIN entries : i < n' => i < n \/ There(i)
    <3>1. isLeaf => There(n)
      BY <1>1, <1>2 DEF There, Writes
    <3> QED BY <1>2, <2>7, <3>1
  <2>11. DestMeant' /\ PassedThere' /\ PartMeant'
    <3>1. CASE pc' = "entry"
      BY <3>1 DEF DestMeant, PassedThere, PartMeant
    <3>2. CASE pc' = "segment" /\ depth' = depth + 1 /\ UNCHANGED n
      <4>1. current' = current
        BY <1>1, <3>2, SameStage DEF current, history
      <4>2. ASSUME NEW p \in Path, IsPrefix(p, current.path), Len(p) < depth + 1
            PROVE  p \in DOMAIN tree
        <5>1. Makes(n, p)
          BY <1>1, <4>2, SegmentIs DEF Makes
        <5>2. Len(p) < depth \/ p = q
          BY <1>2, <2>6, <4>2, <5>1
        <5> QED BY <1>1, <4>2, <5>2 DEF Kept, PassedThere
      <4> QED BY <2>4, <3>2, <4>1, <4>2 DEF DestMeant, PassedThere, PartMeant
    <3> QED BY <2>7, <3>1, <3>2
  <2>12. ASSUME NEW i \in DOMAIN entries, NEW p \in Path, NEW k \in Attributes,
                Concerns(i, p), Asks(i, k), Done(i, p, k)'
         PROVE  Done(i, p, k) \/ (i = n /\ p = q /\ k \in given)
    <3>1. CASE i < n
      BY <3>1 DEF Done
    <3>2. CASE ~ (i < n)
      <4>1. i = n
        BY <1>2, <2>7, <2>12, <3>2 DEF Done, Passed
      <4>2. Makes(n, p)
        BY <1>1, <2>12, <4>1, OnTheWay
      <4>3. Len(p) < depth \/ p = q
        BY <1>2, <2>6, <2>7, <2>12, <3>2, <4>1, <4>2 DEF Done, Passed
      <4>4. CASE Len(p) < depth
        BY <1>1, <4>1, <4>4 DEF Done, Passed
      <4>5. CASE p = q
        <5>1. k # "data"
          BY <1>2, <2>12, <4>1 DEF Asks, Writes
        <5>2. k \in given \/ k = "mode"
          BY <2>2, <5>1 DEF Attributes
        <5> QED BY <1>1, <2>5, <4>1, <4>5, <5>2 DEF Done
      <4> QED BY <4>3, <4>4, <4>5
    <3> QED BY <3>1, <3>2
  <2>13. ASSUME NEW i \in DOMAIN entries, NEW p \in Path, NEW k \in Attributes,
                Done(i, p, k)
         PROVE  Done(i, p, k)'
    <3>1. Len(p) \in Nat
      BY DEF Path
    <3> QED BY <1>1, <1>2, <2>7, <2>13, <3>1 DEF Done, Passed
  <2> QED BY <1>1, <1>4, <2>1, <2>3, <2>4, <2>7, <2>8, <2>9, <2>10, <2>11, <2>12, <2>13, GiveWhole
<1> QED BY <1>3, <1>4 DEF ChownSegment

\* Making a part of a directory's path.
LEMMA MakeSegmentWhole == Whole /\ Inv' /\ MakeSegment => Whole'
<1> SUFFICES ASSUME Whole, Inv', MakeSegment
             PROVE  Whole'
  OBVIOUS
<1>1. /\ pc = "segment" /\ UNCHANGED <<history, dest>> /\ Inv /\ Kept /\ Valued
      /\ scenario \in Scenarios /\ Tree(tree) /\ Stays
  BY DEF MakeSegment, MakeSegmentIf, Whole, Inv, TypeOK
<1>2. /\ n \in DOMAIN entries /\ n \in Nat /\ current = entries[n] /\ current \in Entry
      /\ current.plugin = "directory" /\ depth \in Nat
      /\ segment \in Path /\ IsPrefix(segment, current.path) /\ Target(n) = current.path
      /\ (isLeaf => segment = Target(n)) /\ ~ Writes(n)
  BY <1>1, SegmentIs DEF Inv, TypeOK, Writes
<1>3. CASE Fail /\ UNCHANGED <<tree, depth>>
  BY <1>1, <1>2, <1>3, OffTrackWhole
<1>4. CASE /\ CanMkdir(tree, segment) /\ tree' = WithDirs(tree, segment)
           /\ \/ /\ isLeaf \/ segment \notin DOMAIN tree
                 /\ pc' = "chmodDir" /\ UNCHANGED <<n, depth>>
              \/ /\ ~ isLeaf /\ segment \in DOMAIN tree /\ NextSegment
           /\ UNCHANGED failures
  <2>1. PICK q \in Path : q = segment
    BY <1>2
  <2>2. q \in Seq(Names) /\ q # <<>> /\ Makes(n, q)
    BY <1>2, <2>1 DEF Path, Makes
  <2>3. /\ DOMAIN tree' = DOMAIN tree \cup (Prefixes(q) \ {<<>>}) /\ IsDir(tree', q)
        /\ \A p \in DOMAIN tree : tree'[p] = tree[p]
        /\ \A p \in DOMAIN tree' \ DOMAIN tree : tree'[p] = NewDir
    <3>1. tree' = WithDirs(tree, q) /\ CanMkdir(tree, q)
      BY <1>4, <2>1
    <3>2. /\ DOMAIN WithDirs(tree, q) = DOMAIN tree \cup (Prefixes(q) \ {<<>>})
          /\ IsDir(WithDirs(tree, q), q)
          /\ \A p \in DOMAIN tree : WithDirs(tree, q)[p] = tree[p]
          /\ \A p \in DOMAIN WithDirs(tree, q) \ DOMAIN tree : WithDirs(tree, q)[p] = NewDir
      BY <1>1, <2>2, <3>1, DirsMade
    <3> QED BY <3>1, <3>2
  <2>4. \A p \in DOMAIN tree' : p \in Path
    BY DEF Inv, TypeOK, Tree
  <2>5. \A p \in Path : Makes(n, p) => /\ IsPrefix(p, current.path)
                                       /\ Len(p) \in Nat /\ Len(p) <= Len(current.path)
                                       /\ (Len(p) = depth <=> p = q)
                                       /\ (p = Target(n) <=> Len(p) = Len(current.path))
    BY <1>1, <2>1, PartIs
  <2>6. ASSUME NEW p \in DOMAIN tree' \ DOMAIN tree
        PROVE  Makes(n, p) /\ Len(p) <= depth
    <3>1. p \in Seq(Names) /\ IsPrefix(p, q)
      BY <2>2, <2>3, <2>6, PrefixesAre
    <3>2. Len(p) <= Len(q)
      BY <2>2, <3>1, PrefixIs
    <3>3. current.path \in Seq(Names)
      BY <1>2, EntryParts
    <3>4. IsPrefix(p, current.path)
      BY <1>2, <2>1, <2>2, <3>1, <3>3, PrefixOrder
    <3> QED BY <1>2, <2>2, <2>5, <3>2, <3>4 DEF Makes
  <2>7. Grown
    BY <1>2, <2>3, <2>6 DEF Grown, NewDir
  <2>8. \/ pc' = "chmodDir" /\ UNCHANGED <<n, depth, failures>>
           /\ (isLeaf \/ q \notin DOMAIN tree)
        \/ pc' = "segment" /\ depth' = depth + 1 /\ UNCHANGED <<n, failures>>
           /\ ~ isLeaf /\ q \in DOMAIN tree
    BY <1>4, <2>1 DEF NextSegment
  <2>9. /\ entries' = entries /\ scenario' = scenario /\ clean' = clean /\ runs' = runs
        /\ \A i : Target(i)' = Target(i)
        /\ \A i, p : Makes(i, p)' = Makes(i, p) /\ Concerns(i, p)' = Concerns(i, p)
        /\ PathsAgree' = PathsAgree /\ current' = current
    BY <1>1, <2>8, SameStage, SameMeaning DEF history, current
  <2>10. (OnTrack' <=> OnTrack) /\ (Exact' <=> Exact)
    BY <1>1, <2>8, <2>9 DEF OnTrack, Exact
  <2>11. Kept'
    <3>1. \A i \in DOMAIN entries : i = n =>
             \A p \in DOMAIN tree' \ DOMAIN tree : Reached(i, p)'
      <4> SUFFICES ASSUME NEW i \in DOMAIN entries, i = n,
                          NEW p \in DOMAIN tree' \ DOMAIN tree
                   PROVE  Reached(i, p)'
        OBVIOUS
      <4>1. Len(p) <= depth /\ Len(p) \in Nat
        BY <2>4, <2>5, <2>6
      <4> QED BY <1>2, <2>8, <4>1 DEF Reached, Passed
    <3>2. \A i \in DOMAIN entries, p \in Path : Makes(i, p) /\ Reached(i, p) => Reached(i, p)'
      <4> SUFFICES ASSUME NEW i \in DOMAIN entries, NEW p \in Path, Makes(i, p), Reached(i, p)
                   PROVE  Reached(i, p)'
        OBVIOUS
      <4>1. Len(p) \in Nat
        BY DEF Path
      <4> QED BY <1>1, <1>2, <2>8, <4>1 DEF Reached, Passed
    <3>3. \A i \in DOMAIN entries : i < n' => i < n
      BY <2>8
    <3>4. DestMeant'
      BY <2>8 DEF DestMeant
    <3>5. PassedThere'
      <4>1. ASSUME NEW p \in Path, IsPrefix(p, current.path), Len(p) < depth'
            PROVE  p \in DOMAIN tree'
        <5>1. Makes(n, p)
          BY <1>2, <4>1 DEF Makes
        <5>2. Len(p) < depth \/ p = q
          BY <1>2, <2>5, <2>8, <4>1, <5>1
        <5>3. p = q => p \in DOMAIN tree'
          BY <2>2, <2>3 DEF IsDir
        <5>4. Len(p) < depth => p \in DOMAIN tree
          BY <1>1, <4>1 DEF Kept, PassedThere
        <5> QED BY <2>3, <5>2, <5>3, <5>4
      <4> QED BY <2>9, <4>1 DEF PassedThere
    <3>6. PartMeant'
      <4>1. CASE pc' = "segment"
        BY <4>1 DEF PartMeant
      <4>2. CASE Exact' /\ pc' = "chmodDir" /\ ~ isLeaf
        <5>1. /\ UNCHANGED <<n, depth>> /\ q \notin DOMAIN tree /\ Exact
          BY <2>8, <2>10, <4>2
        <5>2. (isLeaf' <=> isLeaf) /\ segment' = q
          BY <2>1, <2>9, <5>1 DEF isLeaf, segment
        <5>3. \A j \in DOMAIN entries : Makes(j, q) => ~ Turned(j)
          BY <1>1, <5>1, AlreadyThere DEF Exact, Certain
        <5>4. \A j \in 1 .. n - 1 : ~ Makes(j, q)
          <6>1. \A j \in 1 .. n - 1 : j \in DOMAIN entries /\ j < n
            BY <1>1, <1>2, EntriesType
          <6> QED BY <5>3, <6>1 DEF Turned
        <5>5. runs = 1
          <6>1. runs \in Nat /\ runs >= 1
            BY <1>1, FileAssumption DEF Inv, TypeOK
          <6> QED BY <1>2, <2>2, <5>1, <5>3, <6>1 DEF Turned, Exact
        <5>6. q # Target(n) /\ IsStrictPrefix(q, Target(n))
          <6>1. q # Target(n)
            BY <1>2, <2>2, <2>5, <4>2 DEF isLeaf
          <6> QED BY <2>2, <6>1 DEF Makes, IsStrictPrefix
        <5>7. Concerns(n, q)
          BY <1>1, <1>2, <5>1, <5>4, <5>6 DEF Concerns, Stays
        <5> QED BY <2>9, <5>1, <5>2, <5>5, <5>7 DEF PartMeant
      <4>3. CASE pc' = "chmodDir" /\ (~ Exact' \/ isLeaf)
        <5>1. isLeaf' <=> isLeaf
          BY <2>8, <2>9, <4>3 DEF isLeaf
        <5> QED BY <4>3, <5>1 DEF PartMeant
      <4> QED BY <2>8, <4>1, <4>2, <4>3
    <3> QED BY <1>1, <2>7, <2>9, <2>10, <3>1, <3>2, <3>3, <3>4, <3>5, <3>6, KeptStep
  <2>12. ASSUME NEW k \in Attributes
         PROVE  AsBefore(k)' /\ ByLatest(k)'
    <3>1. PICK at : at = <<>>
      OBVIOUS
    <3>2. at \notin DOMAIN tree'
      BY <2>4, <3>1 DEF Path
    <3>3. \A p \in DOMAIN tree : \A v : Has(tree, p, k, v) => Has(tree', p, k, v)
      BY <2>3 DEF Has
    <3>4. ASSUME NEW p \in DOMAIN tree' \ DOMAIN tree
          PROVE  Of(tree'[p], k) = Of(Before(p)', k)
      <4>1. p \notin DOMAIN scenario.tree /\ tree'[p] = NewDir
        BY <1>1, <2>3 DEF Stays
      <4>2. PICK before : before = Before(p)'
        OBVIOUS
      <4>3. before = NewDir
        BY <2>9, <4>1, <4>2 DEF Before, NewDir
      <4> QED BY <4>1, <4>2, <4>3
    <3>5. ASSUME NEW i \in DOMAIN entries, NEW p \in DOMAIN tree', Sound(p, k)', Concerns(i, p),
                 Asks(i, k), Done(i, p, k)'
          PROVE  Done(i, p, k) \/ (runs > 1 /\ Target(i) # p)
      <4>1. p \in Path /\ Makes(i, p)
        BY <1>1, <2>4, <3>5, OnTheWay
      <4>2. CASE i < n
        BY <4>2 DEF Done
      <4>3. CASE i = n /\ Len(p) < depth
        BY <1>1, <4>3 DEF Done, Passed
      <4>4. CASE ~ (i < n) /\ ~ (i = n /\ Len(p) < depth)
        <5>1. Len(p) \in Nat
          BY <4>1 DEF Path
        <5>2. i = n /\ Len(p) = depth /\ pc' = "segment" /\ ~ isLeaf /\ q \in DOMAIN tree
          BY <1>2, <2>8, <3>5, <4>4, <5>1 DEF Done, Passed
        <5>3. p = q /\ p # Target(i)
          BY <2>5, <4>1, <5>2 DEF isLeaf
        <5>4. Sound(p, k)
          BY <2>9, <2>10, <3>5, SameMeaning DEF Sound
        <5>5. Exact
          BY <1>1, <3>5, <4>1, <5>3, <5>4, SoundParent
        <5>6. p \in Extra /\ \A j \in DOMAIN entries : j < i => ~ Makes(j, p)
          BY <1>1, <3>5, <4>1, <5>2, <5>3, OnTheWay DEF Extra
        <5>7. runs # 1
          <6> SUFFICES ASSUME runs = 1
                       PROVE  FALSE
            OBVIOUS
          <6>1. PICK j \in DOMAIN entries : Makes(j, p) /\ Reached(j, p)
            BY <1>1, <5>5, <5>6 DEF Kept, ExtraReached
          <6>2. ~ (j < n)
            BY <5>2, <5>6, <6>1
          <6> QED BY <1>1, <1>2, <5>1, <5>2, <6>1, <6>2 DEF Reached, Passed
        <5>8. runs > 1
          <6>1. runs \in Nat /\ runs >= 1
            BY <1>1, FileAssumption DEF Inv, TypeOK
          <6> QED BY <5>7, <6>1
        <5> QED BY <5>3, <5>8
      <4> QED BY <4>2, <4>3, <4>4
    <3>6. ASSUME NEW i \in DOMAIN entries, NEW p \in DOMAIN tree, Done(i, p, k)
          PROVE  Done(i, p, k)'
      <4>1. Len(p) \in Nat
        BY <2>3, <2>4 DEF Path
      <4> QED BY <1>1, <1>2, <2>8, <3>6, <4>1 DEF Done, Passed
    <3>7. AsBefore(k) /\ ByLatest(k)
      BY <1>1 DEF Valued
    <3> QED BY <1>1, <2>7, <2>9, <2>10, <3>2, <3>3, <3>4, <3>5, <3>6, <3>7, ValueStep
  <2> QED BY <2>11, <2>12 DEF Whole, Valued
<1> QED BY <1>3, <1>4 DEF MakeSegment, MakeSegmentIf

\* The end of a run, a crash, and another run.
LEMMA RunWhole == Whole /\ Inv' /\ (End \/ Crash \/ RunAgain) => Whole'
<1> SUFFICES ASSUME Whole, Inv', End \/ Crash \/ RunAgain
             PROVE  Whole'
  OBVIOUS
<1>1. /\ Inv /\ Kept /\ Valued /\ scenario \in Scenarios /\ n \in Nat
      /\ DOMAIN entries = 1 .. Len(entries) /\ Len(entries) \in Nat
      /\ \A p \in DOMAIN tree : p \in Path
  BY EntriesType DEF Whole, Inv, TypeOK, Tree
<1>2. CASE End
  <2>1. /\ UNCHANGED <<history, tree, n, dest, depth, failures>> /\ pc' = "done"
        /\ pc = "entry" /\ n > Len(entries)
    BY <1>2 DEF End, place
  <2>2. OnTrack' <=> OnTrack
    BY <2>1 DEF OnTrack
  <2>3. \A i \in DOMAIN entries, p \in Path : Makes(i, p) /\ Reached(i, p) => Reached(i, p)'
    BY <2>1 DEF Reached, Passed
  <2>4. DestMeant' /\ PassedThere' /\ PartMeant'
    BY <2>1 DEF DestMeant, PassedThere, PartMeant
  <2>5. \A i \in DOMAIN entries, p \in Path, k \in Attributes : Done(i, p, k)' <=> Done(i, p, k)
    BY <2>1 DEF Done, Passed
  <2>6. \A i \in DOMAIN entries : i < n' => i < n
    BY <2>1
  <2> QED BY <2>1, <2>2, <2>3, <2>4, <2>5, <2>6, TreeLeft
<1>3. CASE Crash
  <2>1. UNCHANGED <<history, tree>> /\ pc' = "down"
    BY <1>3 DEF Crash, GoDown
  <2>2. ~ OnTrack' /\ DestMeant' /\ PassedThere' /\ PartMeant'
    BY <2>1 DEF OnTrack, DestMeant, PassedThere, PartMeant
  <2> QED BY <2>1, <2>2, TreeLeft DEF Exact
<1>4. CASE RunAgain
  <2>1. /\ scenario' = scenario /\ tree' = tree /\ pc' = "entry" /\ n' = 1 /\ failures' = {}
        /\ runs' = runs + 1 /\ clean' = (clean /\ pc = "done" /\ failures = {})
        /\ runs \in Nat /\ runs >= 1
    BY <1>1, <1>4, FileAssumption DEF RunAgain, Inv, TypeOK
  <2>2. /\ entries' = entries
        /\ \A i : Target(i)' = Target(i) /\ Writes(i)' = Writes(i)
        /\ \A i, p : Makes(i, p)' = Makes(i, p) /\ Concerns(i, p)' = Concerns(i, p)
        /\ \A p : IsParent(p)' = IsParent(p)
        /\ PathsAgree' = PathsAgree
    BY <2>1, SameStage, SameMeaning
  <2>3. Exact' => Exact /\ \A i \in DOMAIN entries : i < n
    <3>1. Exact' => clean /\ pc = "done" /\ failures = {}
      BY <2>1 DEF Exact
    <3>2. pc = "done" => n > Len(entries)
      BY <1>1 DEF Inv, Working
    <3> QED BY <1>1, <3>1, <3>2 DEF Exact, OnTrack
  <2>4. Certain' => Certain
    BY <2>2, <2>3 DEF Certain
  <2>5. OnTrack' /\ (clean' => Exact')
    BY <2>1 DEF OnTrack, Exact
  <2>6. Kept'
    <3>1. ExtraMeant' /\ NoDirInstead'
      BY <1>1, <2>1, <2>2, <2>4 DEF Kept, ExtraMeant, Extra, NoDirInstead, IsDir
    <3>2. ExtraReached'
      BY <2>1 DEF ExtraReached
    <3>3. AllThere'
      <4>1. ASSUME NEW i \in DOMAIN entries, Turned(i)'
            PROVE  There(i)
        <5>1. clean'
          BY <1>1, <2>1, <4>1 DEF Turned
        <5>2. Turned(i) /\ Certain /\ OnTrack
          BY <2>3, <2>5, <5>1 DEF Turned, Exact, Certain
        <5> QED BY <1>1, <5>2 DEF Kept, AllThere
      <4>2. \A i : There(i)' <=> There(i)
        BY <2>1, <2>2 DEF There
      <4> QED BY <2>2, <4>1, <4>2 DEF AllThere
    <3>4. DestMeant' /\ PassedThere' /\ PartMeant'
      BY <2>1 DEF DestMeant, PassedThere, PartMeant
    <3> QED BY <3>1, <3>2, <3>3, <3>4 DEF Kept
  <2>7. ASSUME NEW k \in Attributes
        PROVE  AsBefore(k)' /\ ByLatest(k)'
    <3>1. /\ \A i : Asks(i, k)' = Asks(i, k) /\ Asked(i, k)' = Asked(i, k)
          /\ \A p, v : Has(tree, p, k, v)' <=> Has(tree', p, k, v)
      BY <2>1, SameAsking
    <3>2. AsBefore(k) /\ ByLatest(k)
      BY <1>1 DEF Valued
    <3>3. \A p : Sound(p, k)' => Sound(p, k)
      BY <2>1, <2>2, <2>3 DEF Sound
    <3>4. \A p : Spoilt(p)' <=> Spoilt(p)
      BY <2>1, <2>2 DEF Spoilt
    <3>5. AsBefore(k)'
      <4>1. \A p : Of(Before(p), k)' = Of(Before(p), k)
        BY <2>1 DEF Of, Before
      <4> QED BY <2>1, <2>2, <3>1, <3>2, <3>3, <3>4, <4>1 DEF AsBefore
    <3>6. ByLatest(k)'
      <4> SUFFICES ASSUME NEW p \in DOMAIN tree, NEW m \in DOMAIN entries,
                          Sound(p, k)', ~ Spoilt(p), Latest(m, p, k)',
                          k = "data" => tree[p].kind = "file"
                   PROVE  Has(tree, p, k, Asked(m, k))
        BY <2>1, <2>2, <3>1, <3>4 DEF ByLatest
      <4>1. /\ Concerns(m, p) /\ Asks(m, k) /\ Gave(m, m, p, k)'
            /\ \A i \in DOMAIN entries : i > m /\ Concerns(i, p) /\ Asks(i, k) => ~ Gave(m, i, p, k)'
        BY <2>2, <3>1 DEF Latest
      <4>2. ~ Done(m, p, k)'
        BY <1>1, <2>1 DEF Done, Passed
      <4>3. Target(m) # p /\ \A i : Gave(m, i, p, k)'
        BY <2>1, <2>2, <4>1, <4>2 DEF Gave
      <4>4. Exact'
        <5>1. ~ Writes(m) /\ IsParent(p) /\ p \notin DOMAIN scenario.tree
          BY <1>1, <4>1, <4>3, OnTheWay
        <5>2. k # "data"
          BY <4>1, <5>1 DEF Asks
        <5> QED BY <2>1, <2>2, <5>1, <5>2 DEF Sound
      <4>5. Exact /\ OnTrack /\ Done(m, p, k)
        BY <2>3, <4>4 DEF Done, Exact
      <4>6. Latest(m, p, k)
        BY <4>1, <4>3, <4>5 DEF Latest, Gave
      <4> QED BY <3>2, <3>3, <4>5, <4>6 DEF ByLatest
    <3> QED BY <3>5, <3>6
  <2> QED BY <2>6, <2>7 DEF Whole, Valued
<1> QED BY <1>2, <1>3, <1>4

\* Before the first run.
LEMMA InitWhole == Init => Whole
<1> SUFFICES ASSUME Init
             PROVE  Whole
  OBVIOUS
<1>1. /\ scenario \in Scenarios /\ tree = scenario.tree /\ pc = "entry" /\ n = 1 /\ runs = 1
      /\ Inv /\ DOMAIN entries = 1 .. Len(entries) /\ Len(entries) \in Nat
  BY InitInv, EntriesType DEF Init
<1>2. \A i \in DOMAIN entries : ~ (i < n)
  BY <1>1
<1>3. Kept
  <2>1. NoDirInstead
    <3> SUFFICES ASSUME NEW i \in DOMAIN entries, entries[i].plugin = "download",
                        Target(i) = entries[i].path, IsDir(tree, entries[i].path)
                 PROVE  FALSE
      BY DEF NoDirInstead
    <3>1. PICK e \in Entry : e = entries[i]
      BY <1>1, EntriesType
    <3>2. Target(i) = Append(e.path, e.url)
      BY <1>1, <3>1 DEF Target
    <3>3. Append(e.path, e.url) # e.path
      <4>1. e.path \in Seq(Names \cup {None}) /\ e.url \in Names \cup {None}
        BY EntryParts
      <4> QED BY <4>1, AppendIs
    <3> QED BY <3>1, <3>2, <3>3
  <2>2. ExtraMeant /\ ExtraReached
    BY <1>1 DEF ExtraMeant, ExtraReached, Extra
  <2>3. AllThere
    BY <1>1, <1>2 DEF AllThere, Turned
  <2>4. DestMeant /\ PassedThere /\ PartMeant
    BY <1>1 DEF DestMeant, PassedThere, PartMeant
  <2> QED BY <2>1, <2>2, <2>3, <2>4 DEF Kept
<1>4. ASSUME NEW k \in Attributes
      PROVE  AsBefore(k) /\ ByLatest(k)
  <2>1. AsBefore(k)
    BY <1>1 DEF AsBefore, Before, Has
  <2>2. \A p : \A m \in DOMAIN entries : ~ Latest(m, p, k)
    BY <1>1, <1>2 DEF Latest, Gave, Done, Passed
  <2> QED BY <2>1, <2>2 DEF ByLatest
<1> QED BY <1>1, <1>3, <1>4 DEF Whole, Valued

\* Every step keeps it.
LEMMA NextWhole == Whole /\ [Next]_vars => Whole'
<1> SUFFICES ASSUME Whole, [Next]_vars
             PROVE  Whole'
  OBVIOUS
<1>1. Inv'
  BY NextInv DEF Whole
<1>2. CASE Download
  BY <1>1, <1>2, DownloadWhole
<1>3. CASE File
  BY <1>1, <1>3, FileWhole
<1>4. CASE Chmod
  BY <1>1, <1>4, ChmodWhole
<1>5. CASE Chown
  BY <1>1, <1>5, ChownWhole
<1>6. CASE Directory
  BY <1>1, <1>6, DirectoryWhole
<1>7. CASE MakeSegment
  BY <1>1, <1>7, MakeSegmentWhole
<1>8. CASE ChmodSegment
  BY <1>1, <1>8, ChmodSegmentWhole
<1>9. CASE ChownSegment
  BY <1>1, <1>9, ChownSegmentWhole
<1>10. CASE End \/ Crash \/ RunAgain
  BY <1>1, <1>10, RunWhole
<1>11. CASE UNCHANGED vars
  <2>1. /\ UNCHANGED <<history, tree, n, dest, depth, failures, pc>>
    BY <1>11 DEF vars, history
  <2>2. OnTrack' <=> OnTrack
    BY <2>1 DEF OnTrack
  <2>3. \A i \in DOMAIN entries, p \in Path : Makes(i, p) /\ Reached(i, p) => Reached(i, p)'
    BY <2>1 DEF Reached, Passed
  <2>4. DestMeant' /\ PassedThere' /\ PartMeant'
    <3>1. /\ \A i : Target(i)' = Target(i) /\ entries' = entries
          /\ \A i, p : Makes(i, p)' = Makes(i, p) /\ Concerns(i, p)' = Concerns(i, p)
          /\ PathsAgree' = PathsAgree
      BY <2>1, SameStage, SameMeaning DEF history
    <3>2. current' = current
      BY <2>1, <3>1 DEF current
    <3>3. (isLeaf' <=> isLeaf) /\ segment' = segment
      BY <2>1, <3>2 DEF isLeaf, segment
    <3>4. (Exact' <=> Exact) /\ (Certain' <=> Certain)
      BY <2>1, <2>2, <3>1 DEF Exact, Certain, history
    <3>5. DestMeant'
      BY <2>1, <2>2, <3>1, <3>4 DEF Whole, Kept, DestMeant
    <3>6. PassedThere'
      BY <2>1, <3>2 DEF Whole, Kept, PassedThere
    <3>7. PartMeant'
      BY <2>1, <3>1, <3>3, <3>4 DEF Whole, Kept, PartMeant, history
    <3> QED BY <3>5, <3>6, <3>7
  <2>5. \A i \in DOMAIN entries, p \in Path, k \in Attributes : Done(i, p, k)' <=> Done(i, p, k)
    BY <2>1 DEF Done, Passed
  <2>6. \A i \in DOMAIN entries : i < n' => i < n
    BY <2>1
  <2> QED BY <1>1, <2>1, <2>2, <2>3, <2>4, <2>5, <2>6, TreeLeft
<1> QED BY <1>2, <1>3, <1>4, <1>5, <1>6, <1>7, <1>8, <1>9, <1>10, <1>11 DEF Next

\* The whole invariant always holds.
LEMMA AlwaysWhole == Spec => []Whole
<1>1. Init => Whole
  BY InitWhole
<1>2. Whole /\ [Next]_vars => Whole'
  BY NextWhole
<1> QED BY <1>1, <1>2, PTL DEF Spec

\* The entries that ask for an attribute of a path.
Asking(p, k) == {i \in DOMAIN entries : Concerns(i, p) /\ Asks(i, k)}

\* Of some entries there is a last one.
LEMMA LastIs ==
  ASSUME scenario \in Scenarios, NEW wanted, wanted \subseteq DOMAIN entries, wanted # {}
  PROVE  Max(wanted) \in wanted /\ \A i \in wanted : i <= Max(wanted)
<1>1. DOMAIN entries = 1 .. Len(entries) /\ Len(entries) \in Nat
  BY EntriesType
<1>2. wanted \subseteq 0 .. Len(entries)
  BY <1>1
<1>3. \E i \in wanted : \A j \in wanted : j <= i
  BY <1>1, <1>2, Greatest
<1>4. \E i \in wanted : \A j \in wanted : i >= j
  BY <1>3, <1>2
<1>5. Max(wanted) \in wanted /\ \A j \in wanted : Max(wanted) >= j
  BY <1>4 DEF Max
<1> QED BY <1>2, <1>5

\* A function on 1 and 2 is a pair.
LEMMA PairIs ==
  ASSUME NEW f, f = [k \in 1 .. 2 |-> f[k]]
  PROVE  f = <<f[1], f[2]>>
<1>1. /\ DOMAIN <<f[1], f[2]>> = 1 .. 2
      /\ <<f[1], f[2]>>[1] = f[1] /\ <<f[1], f[2]>>[2] = f[2]
  OBVIOUS
<1>2. <<f[1], f[2]>> = [k \in 1 .. 2 |-> <<f[1], f[2]>>[k]]
  BY <1>1
<1>3. \A k \in 1 .. 2 : <<f[1], f[2]>>[k] = f[k]
  BY <1>1
<1> QED BY <1>1, <1>2, <1>3

\* What is meant, attribute by attribute.
LEMMA MeantIs ==
  ASSUME NEW p, NEW before \in Node,
         before = (IF p \in DOMAIN scenario.tree THEN scenario.tree[p]
                   ELSE IF Asking(p, "data") = {} THEN NewDir
                   ELSE [kind |-> "file", data |-> Partial, mode |-> Plain(FileBits), owner |-> Root])
  PROVE  /\ Meant(p).kind = before.kind
         /\ before.kind = "file" =>
              Meant(p).data = (IF Asking(p, "data") = {} THEN before.data
                               ELSE entries[Max(Asking(p, "data"))].data)
         /\ (\A i \in DOMAIN entries : Concerns(i, p) => Target(i) = p) =>
              /\ Meant(p).mode = (IF Asking(p, "mode") = {} THEN before.mode
                                  ELSE entries[Max(Asking(p, "mode"))].mode)
              /\ Meant(p).owner =
                   <<IF Asking(p, "uid") = {} THEN before.owner[1]
                     ELSE entries[Max(Asking(p, "uid"))].owner[1],
                     IF Asking(p, "gid") = {} THEN before.owner[2]
                     ELSE entries[Max(Asking(p, "gid"))].owner[2]>>
<1> DEFINE here == {i \in DOMAIN entries : Target(i) = p}
           written == {i \in here : entries[i].plugin # "directory"}
           owning == {i \in here : entries[i].owner \notin {None, Root}}
           data == LastOf(written, LAMBDA i : entries[i].data,
                          IF before.kind = "file" THEN before.data ELSE Partial)
           mode == LastOf({i \in here : entries[i].mode # None}, LAMBDA i : entries[i].mode,
                          before.mode)
           owner == [k \in 1 .. 2 |-> LastOf({i \in owning : entries[i].owner[k] >= 0},
                                            LAMBDA i : entries[i].owner[k], before.owner[k])]
           node == [before EXCEPT !.mode = mode, !.owner = owner]
           itself == \A i \in DOMAIN entries : Concerns(i, p) => Target(i) = p
<1>1. /\ written = Asking(p, "data")
      /\ itself =>
           /\ {i \in here : entries[i].mode # None} = Asking(p, "mode")
           /\ {i \in owning : entries[i].owner[1] >= 0} = Asking(p, "uid")
           /\ {i \in owning : entries[i].owner[2] >= 0} = Asking(p, "gid")
  BY DEF Asking, Asks, Writes, Owns, Concerns
<1>2. data = IF Asking(p, "data") = {}
             THEN IF before.kind = "file" THEN before.data ELSE Partial
             ELSE entries[Max(Asking(p, "data"))].data
  BY <1>1 DEF LastOf
<1>3. itself => mode = IF Asking(p, "mode") = {} THEN before.mode
                       ELSE entries[Max(Asking(p, "mode"))].mode
  BY <1>1 DEF LastOf
<1>4. ASSUME itself
      PROVE  /\ owner[1] = IF Asking(p, "uid") = {} THEN before.owner[1]
                           ELSE entries[Max(Asking(p, "uid"))].owner[1]
             /\ owner[2] = IF Asking(p, "gid") = {} THEN before.owner[2]
                           ELSE entries[Max(Asking(p, "gid"))].owner[2]
  <2>1. /\ owner[1] = LastOf({i \in owning : entries[i].owner[1] >= 0},
                             LAMBDA i : entries[i].owner[1], before.owner[1])
        /\ owner[2] = LastOf({i \in owning : entries[i].owner[2] >= 0},
                             LAMBDA i : entries[i].owner[2], before.owner[2])
    OBVIOUS
  <2>2. /\ LastOf({i \in owning : entries[i].owner[1] >= 0},
                  LAMBDA i : entries[i].owner[1], before.owner[1])
             = IF Asking(p, "uid") = {} THEN before.owner[1]
               ELSE entries[Max(Asking(p, "uid"))].owner[1]
        /\ LastOf({i \in owning : entries[i].owner[2] >= 0},
                  LAMBDA i : entries[i].owner[2], before.owner[2])
             = IF Asking(p, "gid") = {} THEN before.owner[2]
               ELSE entries[Max(Asking(p, "gid"))].owner[2]
    BY <1>1, <1>4 DEF LastOf
  <2> HIDE DEF owner
  <2> QED BY <2>1, <2>2
<1>5. owner = <<owner[1], owner[2]>>
  <2>1. owner = [k \in 1 .. 2 |-> owner[k]]
    OBVIOUS
  <2> HIDE DEF owner
  <2> QED BY <2>1, PairIs
<1>6. Meant(p) = IF before.kind = "file" THEN [node EXCEPT !.data = data] ELSE node
  BY <1>1 DEF Meant
<1> HIDE DEF data, mode, owner
<1>7. /\ Meant(p).kind = before.kind /\ Meant(p).mode = mode /\ Meant(p).owner = owner
      /\ before.kind = "file" => Meant(p).data = data
  BY <1>6 DEF Node
<1> QED BY <1>2, <1>3, <1>4, <1>5, <1>7

\* When a run has come to its end without an error, all entries are there.
LEMMA EndIs ==
  ASSUME Whole, pc = "done", OnTrack, Certain
  PROVE  /\ \A i \in DOMAIN entries : i < n /\ There(i)
         /\ \A p \in DOMAIN tree : p \in Path /\ ~ Spoilt(p)
<1>1. /\ scenario \in Scenarios /\ n \in Nat /\ Tree(tree) /\ Kept
      /\ DOMAIN entries = 1 .. Len(entries) /\ Len(entries) \in Nat /\ n > Len(entries)
  BY EntriesType DEF Whole, Inv, TypeOK, Working
<1>2. \A i \in DOMAIN entries : i < n /\ There(i)
  BY <1>1 DEF Kept, AllThere, Turned
<1>3. \A p \in DOMAIN tree : p \in Path
  BY <1>1 DEF Tree
<1>4. \A p \in DOMAIN tree : ~ Spoilt(p)
  BY <1>1, <1>2, <1>3, WayThere DEF Spoilt
<1> QED BY <1>2, <1>3, <1>4

\* Then every attribute is as it was, or what the last entry asks for.
LEMMA ValueIs ==
  ASSUME Whole, pc = "done", OnTrack, NEW k \in Attributes, NEW p \in DOMAIN tree,
         Sound(p, k), k = "data" => tree[p].kind = "file"
  PROVE  /\ Asking(p, k) = {} /\ (k = "data" => p \in DOMAIN scenario.tree) =>
              Has(tree, p, k, Of(Before(p), k))
         /\ Asking(p, k) # {} => Has(tree, p, k, Asked(Max(Asking(p, k)), k))
<1>1. /\ \A i \in DOMAIN entries : i < n
      /\ ~ Spoilt(p) /\ scenario \in Scenarios /\ AsBefore(k) /\ ByLatest(k)
  BY EndIs DEF Certain, Sound, Whole, Valued, Inv, TypeOK
<1>2. Asking(p, k) = {} /\ (k = "data" => p \in DOMAIN scenario.tree) =>
        Has(tree, p, k, Of(Before(p), k))
  BY <1>1 DEF Asking, AsBefore
<1>3. ASSUME Asking(p, k) # {}
      PROVE  Has(tree, p, k, Asked(Max(Asking(p, k)), k))
  <2>1. PICK m : m = Max(Asking(p, k))
    OBVIOUS
  <2>2. Asking(p, k) \subseteq DOMAIN entries
    BY DEF Asking
  <2>3. m \in Asking(p, k) /\ \A i \in Asking(p, k) : i <= m
    BY <1>1, <1>3, <2>1, <2>2, LastIs
  <2>4. m \in DOMAIN entries /\ Concerns(m, p) /\ Asks(m, k)
        /\ \A i \in DOMAIN entries : i > m => ~ (Concerns(i, p) /\ Asks(i, k))
    <3>1. \A i \in DOMAIN entries : i \in Int
      BY <1>1, EntriesType
    <3> QED BY <2>3, <3>1 DEF Asking
  <2>5. Latest(m, p, k)
    BY <1>1, <2>4 DEF Latest, Gave, Done
  <2> QED BY <1>1, <2>1, <2>4, <2>5 DEF ByLatest
<1> QED BY <1>2, <1>3

\* What a path is before is told by the stage.
LEMMA BeforeIs ==
  ASSUME Whole, pc = "done", OnTrack, Certain, NEW p \in DOMAIN tree
  PROVE  /\ Before(p) = (IF p \in DOMAIN scenario.tree THEN scenario.tree[p]
                         ELSE IF Asking(p, "data") = {} THEN NewDir
                         ELSE [kind |-> "file", data |-> Partial, mode |-> Plain(FileBits),
                               owner |-> Root])
         /\ Before(p) \in Node /\ Before(p).kind = tree[p].kind
         /\ tree[p].kind = "file" /\ Asking(p, "data") = {} => p \in DOMAIN scenario.tree
<1>1. /\ Stays /\ Kept /\ scenario \in Scenarios /\ Tree(tree) /\ Tree(scenario.tree)
      /\ ~ Spoilt(p) /\ \A i \in DOMAIN entries : There(i)
      /\ p \in Path
  BY EntriesType, EndIs DEF Whole, Inv, TypeOK
<1>2. tree[p].kind \in {"dir", "file"}
  BY <1>1 DEF Tree, Node
<1>3. p \notin DOMAIN scenario.tree => (tree[p].kind = "file" <=> Asking(p, "data") # {})
  <2>1. ASSUME p \notin DOMAIN scenario.tree, tree[p].kind = "file"
        PROVE  Asking(p, "data") # {}
    <3>1. PICK i \in DOMAIN entries : Writes(i) /\ Makes(i, p)
      BY <1>1, <2>1 DEF Kept, ExtraMeant, Extra
    <3>2. p = Target(i)
      BY <1>1, <2>1, <3>1 DEF Spoilt
    <3> QED BY <3>1, <3>2 DEF Asking, Asks, Concerns
  <2>2. ASSUME NEW i \in DOMAIN entries, Concerns(i, p), Asks(i, "data")
        PROVE  tree[p].kind = "file"
    <3>1. Writes(i)
      BY <2>2 DEF Asks
    <3>2. p = Target(i) /\ Target(i) # <<>>
      BY <1>1, <2>2, <3>1, OnTheWay
    <3> QED BY <1>1, <3>1, <3>2 DEF There
  <2> QED BY <2>1, <2>2 DEF Asking
<1>4. Before(p) = (IF p \in DOMAIN scenario.tree THEN scenario.tree[p]
                   ELSE IF Asking(p, "data") = {} THEN NewDir
                   ELSE [kind |-> "file", data |-> Partial, mode |-> Plain(FileBits), owner |-> Root])
  BY <1>2, <1>3 DEF Before
<1>5. NewDir \in Node /\ NewDir.kind = "dir"
  <2>1. DirBits \in Bits
    BY FileAssumption
  <2> QED BY <2>1 DEF NewDir, Node, Mode, Plain, Root
<1>6. LET file == [kind |-> "file", data |-> Partial, mode |-> Plain(FileBits), owner |-> Root]
      IN  file \in Node /\ file.kind = "file"
  <2>1. FileBits \in Bits
    BY FileAssumption
  <2> QED BY <2>1 DEF Node, Mode, Plain, Root
<1>7. p \in DOMAIN scenario.tree => scenario.tree[p] \in Node /\ tree[p].kind = scenario.tree[p].kind
  BY <1>1 DEF Tree, Stays
<1>8. Before(p) \in Node /\ Before(p).kind = tree[p].kind
  BY <1>2, <1>5, <1>6, <1>7 DEF Before
<1> QED BY <1>3, <1>4, <1>8

\* What the invariant says at the end of a run is what the stage asks for.
LEMMA WholeIsAsked == Whole => AsAsked
<1> SUFFICES ASSUME Whole, pc = "done", failures = {}, clean \/ PathsAgree
             PROVE  /\ DOMAIN tree = DOMAIN scenario.tree
                           \cup ((UNION {Prefixes(Target(i)) : i \in DOMAIN entries}) \ {<<>>})
                    /\ \A p \in DOMAIN tree :
                         LET found == tree[p]
                             meant == Meant(p)
                         IN  /\ found.kind = meant.kind
                             /\ found.kind = "file" => found.data = meant.data
                             /\ p \in DOMAIN scenario.tree \/ ~ IsParent(p) =>
                                  /\ found.mode.bits = meant.mode.bits
                                  /\ found.owner = meant.owner
                                  /\ \/ found.mode.suid = meant.mode.suid
                                     \/ /\ found.kind = "file"
                                        /\ \E i \in DOMAIN entries :
                                             Target(i) = p /\ entries[i].owner \notin {None, Root}
  BY DEF AsAsked, Whole, Inv
<1>1. OnTrack /\ Certain
  BY DEF OnTrack, Certain, Exact
<1>2. /\ scenario \in Scenarios /\ Stays /\ Tree(tree) /\ Kept
      /\ \A i \in DOMAIN entries : There(i)
      /\ \A p \in DOMAIN tree : p \in Path
  BY <1>1, EndIs DEF Whole, Inv, TypeOK
<1>3. DOMAIN tree = DOMAIN scenario.tree
                    \cup ((UNION {Prefixes(Target(i)) : i \in DOMAIN entries}) \ {<<>>})
  <2> DEFINE All == Names \cup {None}
  <2>1. ASSUME NEW p \in DOMAIN tree, p \notin DOMAIN scenario.tree
        PROVE  \E i \in DOMAIN entries : p \in Prefixes(Target(i)) \ {<<>>}
    <3>1. PICK i \in DOMAIN entries : Makes(i, p)
      BY <1>1, <1>2, <2>1 DEF Kept, ExtraMeant, Extra
    <3>2. p \in Seq(All) /\ p # <<>>
      <4>1. Seq(Names) \subseteq Seq(All)
        OBVIOUS
      <4> QED BY <1>2, <2>1, <4>1 DEF Path
    <3>3. Prefixes(Target(i)) = {s \in Seq(All) : IsPrefix(s, Target(i))}
      BY <1>2, TargetIs, PrefixesAre
    <3> QED BY <3>1, <3>2, <3>3 DEF Makes
  <2>2. ASSUME NEW i \in DOMAIN entries, NEW p \in Prefixes(Target(i)), p # <<>>
        PROVE  p \in DOMAIN tree
    <3>1. Target(i) \in Seq(Names)
      <4>1. CASE Target(i) = <<>>
        BY <4>1
      <4>2. CASE Target(i) # <<>>
        BY <1>2, <4>2 DEF There, Path
      <4> QED BY <4>1, <4>2
    <3>2. p \in Seq(Names) /\ IsPrefix(p, Target(i))
      BY <2>2, <3>1, PrefixesAre
    <3>3. p \in Path /\ Makes(i, p)
      BY <2>2, <3>2 DEF Path, Makes
    <3> QED BY <1>2, <3>3, WayThere
  <2>3. DOMAIN scenario.tree \subseteq DOMAIN tree
    BY <1>2 DEF Stays
  <2> QED BY <2>1, <2>2, <2>3
<1>4. ASSUME NEW p \in DOMAIN tree
      PROVE  /\ tree[p].kind = Meant(p).kind
             /\ tree[p].kind = "file" => tree[p].data = Meant(p).data
             /\ p \in DOMAIN scenario.tree \/ ~ IsParent(p) =>
                  /\ tree[p].mode.bits = Meant(p).mode.bits
                  /\ tree[p].owner = Meant(p).owner
                  /\ \/ tree[p].mode.suid = Meant(p).mode.suid
                     \/ /\ tree[p].kind = "file"
                        /\ \E i \in DOMAIN entries :
                             Target(i) = p /\ entries[i].owner \notin {None, Root}
  <2>1. PICK before \in Node : before = Before(p)
    BY <1>1, BeforeIs
  <2>2. /\ before.kind = tree[p].kind
        /\ tree[p].kind = "file" /\ Asking(p, "data") = {} => p \in DOMAIN scenario.tree
    BY <1>1, <2>1, BeforeIs
  <2>3. /\ Meant(p).kind = before.kind
        /\ before.kind = "file" =>
             Meant(p).data = (IF Asking(p, "data") = {} THEN before.data
                              ELSE entries[Max(Asking(p, "data"))].data)
        /\ (\A i \in DOMAIN entries : Concerns(i, p) => Target(i) = p) =>
             /\ Meant(p).mode = (IF Asking(p, "mode") = {} THEN before.mode
                                 ELSE entries[Max(Asking(p, "mode"))].mode)
             /\ Meant(p).owner =
                  <<IF Asking(p, "uid") = {} THEN before.owner[1]
                    ELSE entries[Max(Asking(p, "uid"))].owner[1],
                    IF Asking(p, "gid") = {} THEN before.owner[2]
                    ELSE entries[Max(Asking(p, "gid"))].owner[2]>>
    BY <1>1, <2>1, BeforeIs, MeantIs
  <2>4. ASSUME tree[p].kind = "file"
        PROVE  tree[p].data = Meant(p).data
    <3>1. Sound(p, "data") /\ "data" \in Attributes
      BY <1>1 DEF Sound, Certain, Attributes
    <3>2. IF Asking(p, "data") = {} THEN Has(tree, p, "data", Of(before, "data"))
          ELSE Has(tree, p, "data", Asked(Max(Asking(p, "data")), "data"))
      BY <1>1, <2>1, <2>2, <2>4, <3>1, ValueIs
    <3> QED BY <2>2, <2>3, <2>4, <3>2 DEF Has, Of, Asked
  <2>5. ASSUME p \in DOMAIN scenario.tree \/ ~ IsParent(p)
        PROVE  /\ tree[p].mode.bits = Meant(p).mode.bits
               /\ tree[p].owner = Meant(p).owner
               /\ \/ tree[p].mode.suid = Meant(p).mode.suid
                  \/ /\ tree[p].kind = "file"
                     /\ \E i \in DOMAIN entries :
                          Target(i) = p /\ entries[i].owner \notin {None, Root}
    <3> DEFINE itself == \A i \in DOMAIN entries : Concerns(i, p) => Target(i) = p
    <3>1. \A k \in Attributes : Sound(p, k)
      BY <1>1, <2>5 DEF Sound, Certain
    <3>0. itself
      BY <1>2, <2>5, OnTheWay
    <3>2. \A k \in Attributes \ {"data"} :
            IF Asking(p, k) = {} THEN Has(tree, p, k, Of(before, k))
            ELSE Has(tree, p, k, Asked(Max(Asking(p, k)), k))
      BY <1>1, <2>1, <3>1, ValueIs
    <3>3. {"mode", "uid", "gid"} \subseteq Attributes \ {"data"}
      BY DEF Attributes
    <3>4. Has(tree, p, "mode", Meant(p).mode)
      <4>1. IF Asking(p, "mode") = {} THEN Has(tree, p, "mode", Of(before, "mode"))
            ELSE Has(tree, p, "mode", Asked(Max(Asking(p, "mode")), "mode"))
        BY <3>2, <3>3
      <4> QED BY <2>3, <3>0, <4>1 DEF Of, Asked
    <3>5. tree[p].owner[1] = Meant(p).owner[1]
      <4>1. IF Asking(p, "uid") = {} THEN Has(tree, p, "uid", Of(before, "uid"))
            ELSE Has(tree, p, "uid", Asked(Max(Asking(p, "uid")), "uid"))
        BY <3>2, <3>3
      <4> QED BY <2>3, <3>0, <4>1 DEF Has, Of, Asked
    <3>6. tree[p].owner[2] = Meant(p).owner[2]
      <4>1. IF Asking(p, "gid") = {} THEN Has(tree, p, "gid", Of(before, "gid"))
            ELSE Has(tree, p, "gid", Asked(Max(Asking(p, "gid")), "gid"))
        BY <3>2, <3>3
      <4> QED BY <2>3, <3>0, <4>1 DEF Has, Of, Asked
    <3>7. tree[p].owner = <<tree[p].owner[1], tree[p].owner[2]>>
      <4>1. tree[p].owner \in Nat \X Nat
        BY <1>2 DEF Tree, Node
      <4> QED BY <4>1
    <3>8. Meant(p).owner = <<Meant(p).owner[1], Meant(p).owner[2]>>
      BY <2>3, <3>0
    <3>9. tree[p].owner = Meant(p).owner
      BY <3>5, <3>6, <3>7, <3>8
    <3> QED BY <3>0, <3>4, <3>9 DEF Has, Of, Owns
  <2> QED BY <2>2, <2>3, <2>4, <2>5
<1> QED BY <1>3, <1>4

-----------------------------------------------------------------------------

\* The variables keep their types, whatever fails and wherever the machine goes
\* down: above every file and directory there are directories.
THEOREM FilesTypeCorrect == Spec => []TypeOK
<1>1. Inv => TypeOK
  BY DEF Inv
<1> QED BY <1>1, AlwaysInv, PTL

\* What is there and is no entry's own stays as it is, through errors, crashes
\* and reruns.
THEOREM OthersLeftAlone == Spec => []OthersUntouched
<1>1. Inv => OthersUntouched
  BY DEF Inv
<1> QED BY <1>1, AlwaysInv, PTL

\* An entry for which no error is returned is there at the end, with its
\* content and mode, whatever became of entries elsewhere.
THEOREM EachMade == Spec => []EachForItself
<1>1. Inv => EachForItself
  <2> SUFFICES ASSUME Inv, pc = "done", NEW i \in DOMAIN entries \ failures, Apart(i),
                      Target(i) # <<>>
               PROVE  InPlace(i)
    BY DEF EachForItself, InPlace
  <2>1. /\ n > Len(entries) /\ MadeApart /\ n \in Nat /\ Len(entries) \in Nat
        /\ i \in 1 .. Len(entries)
    BY EntriesType DEF Inv, TypeOK, Working
  <2>2. i < n
    BY <2>1
  <2> QED BY <2>1, <2>2 DEF MadeApart
<1> QED BY <1>1, AlwaysInv, PTL

\* A run that returns Ok leaves what the stage asks for, and no run touches
\* what is no entry's own.
THEOREM StageAsAsked == Spec => []AsAsked
BY AlwaysWhole, WholeIsAsked, PTL
=============================================================================
