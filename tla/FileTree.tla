------------------------------ MODULE FileTree ------------------------------
(***************************************************************************)
(* The plugins that write what a stage lists under `downloads`,            *)
(* `directories` and `files`, which run in this order: each entry is made, *)
(* then given its mode, then its owner, and the stage may be run again     *)
(* after an end, an error or a crash.                                      *)
(*                                                                         *)
(* Of a mode, the set-user-ID bit is kept apart from the others.  There    *)
(* are no links.                                                           *)
(***************************************************************************)
EXTENDS SequencesExt, TLC

CONSTANTS Names,     \* of files and directories
          Data,      \* what files hold
          Partial,   \* what a file holds whose write broke off
          Bits,      \* modes without the set-user-ID bit
          FileBits, DirBits, \* those that new files and directories get
          None,      \* no URL, no mode (`permissions: 0`), a name as owner
          Scenarios, \* stages, what there is before, and faults
          MaxRuns    \* bound: how often the stage is run

Path == Seq(Names) \ {<<>>}
Mode == [bits : Bits, suid : BOOLEAN]
Plain(bits) == [bits |-> bits, suid |-> FALSE]
Root == <<0, 0>>

Node == [kind : {"dir"}, mode : Mode, owner : Nat \X Nat]
        \cup [kind : {"file"}, data : Data \cup {Partial}, mode : Mode, owner : Nat \X Nat]

NewDir == [kind |-> "dir", mode |-> Plain(DirBits), owner |-> Root]

\* In an owner -1 stands for "as it is".  No names and no `slash` are the
\* empty path, no names and a slash the root directory.
Owner == ((Nat \cup {-1}) \X (Nat \cup {-1})) \cup {None}

Entry == [plugin : {"download", "directory", "file"},
          path : Seq(Names), slash : BOOLEAN,
          mode : Mode \cup {None}, owner : Owner,
          url : Names \cup {None}, \* of a download, its file name
          decodes : BOOLEAN,       \* whether a file's content does
          data : Data]

Faults == {"mkdir", "get", "write", "chmod", "chown", "crash"}

\* Every node of a tree stands in a directory.
Tree(t) == \A p \in DOMAIN t :
             /\ p \in Path /\ t[p] \in Node
             /\ Len(p) > 1 => Front(p) \in DOMAIN t /\ t[Front(p)].kind = "dir"

ASSUME FileAssumption ==
  /\ MaxRuns \in Nat \ {0} /\ {FileBits, DirBits} \subseteq Bits
  /\ \A s \in Scenarios :
       /\ DOMAIN s = {"downloads", "directories", "files", "tree", "faults"}
       /\ s.downloads \in Seq(Entry) /\ \A e \in Range(s.downloads) : e.plugin = "download"
       /\ s.directories \in Seq(Entry) /\ \A e \in Range(s.directories) : e.plugin = "directory"
       /\ s.files \in Seq(Entry) /\ \A e \in Range(s.files) : e.plugin = "file"
       /\ Tree(s.tree)
       /\ s.faults \subseteq Faults

VARIABLES
  scenario, \* stays as it is
  tree,     \* what there is
  pc,       \* what comes next
  n,        \* the current entry
  dest,     \* the file it writes
  depth,    \* the part of its path that is made
  failures, \* the entries this run has collected an error for
  clean,    \* whether all earlier runs came to an end without an error
  runs      \* how often the stage has been started

vars == <<scenario, tree, pc, n, dest, depth, failures, clean, runs>>
place == <<n, dest, depth>>
history == <<scenario, clean, runs>>

\* The three plugins in the order of the executor's chain.
entries == scenario.downloads \o scenario.directories \o scenario.files
current == entries[n]
mayFail(what) == what \in scenario.faults

-----------------------------------------------------------------------------

IsDir(t, p) == p = <<>> \/ (p \in DOMAIN t /\ t[p].kind = "dir")

\* mkdir_all takes what is a directory, and makes what is not there.
CanMkdir(t, p) == \A q \in Prefixes(p) : q \in DOMAIN t => IsDir(t, q)

With(t, paths, node) == [q \in DOMAIN t \cup paths |-> IF q \in DOMAIN t THEN t[q] ELSE node]

\* Wrong: only the last directory is made.
WithLastDir(t, p) == With(t, {p} \ {<<>>}, NewDir)

WithDirs(t, p) == With(t, Prefixes(p) \ {<<>>}, NewDir)

\* chown leaves an id that is negative, and takes the set-user-ID bit from a
\* file.
Chowned(node, owner) ==
  LET id(i) == IF owner[i] < 0 THEN node.owner[i] ELSE owner[i]
  IN  [node EXCEPT !.owner = <<id(1), id(2)>>,
                   !.mode.suid = @ /\ node.kind = "dir"]

\* A path that ends in a slash or is a directory gets the name in the URL.
Resolved(t, e) == IF e.slash \/ IsDir(t, e.path) THEN Append(e.path, e.url) ELSE e.path

-----------------------------------------------------------------------------

Init ==
  /\ scenario \in Scenarios
  /\ tree = scenario.tree
  /\ pc = "entry" /\ n = 1 /\ dest = <<>> /\ depth = 1
  /\ failures = {} /\ clean = TRUE /\ runs = 1

At(plugin) == /\ pc = "entry" /\ n <= Len(entries)
              /\ current.plugin = plugin

NextEntry == pc' = "entry" /\ n' = n + 1

\* Wrong: the first error ends the run.
Abort == /\ pc' = "entry" /\ n' = Len(entries) + 1
         /\ failures' = failures \cup {n}

\* The error is collected, and the next entry's turn comes.
Fail == NextEntry /\ failures' = failures \cup {n}

\* The machine goes down in the middle of an entry.
GoDown == pc' = "down" /\ UNCHANGED <<n, failures>>

Nameless == current.path = <<>> /\ ~ current.slash

\* The parents of the file are made, then it is written, unless its content
\* does not come.  A file that is there keeps its mode and owner.
Make(to, writable, comes) ==
  LET ready == WithDirs(tree, Front(to))
      old == IF to \in DOMAIN tree THEN tree[to]
             ELSE [mode |-> Plain(FileBits), owner |-> Root]
      file(data) == [kind |-> "file", data |-> data, mode |-> old.mode, owner |-> old.owner]
      Written(data) == [With(ready, {to}, file(data)) EXCEPT ![to] = file(data)]
  IN  \/ /\ ~ CanMkdir(tree, Front(to)) \/ mayFail("mkdir")
         /\ UNCHANGED tree /\ Fail
      \/ /\ CanMkdir(tree, Front(to))
         /\ tree' = ready
         /\ \/ (FALSE \in comes \/ ~ writable \/ mayFail("write")) /\ Fail
            \/ mayFail("crash") /\ GoDown
      \/ /\ CanMkdir(tree, Front(to)) /\ writable /\ TRUE \in comes
         /\ \/ tree' = Written(current.data) /\ pc' = "chmod" /\ UNCHANGED <<n, failures>>
            \/ tree' = Written(Partial) /\ mayFail("write") /\ Fail
            \/ tree' = Written(Partial) /\ mayFail("crash") /\ GoDown

\* download_one up to the write.
Download ==
  /\ At("download")
  /\ \/ /\ Nameless \/ current.url = None
        /\ Fail
        /\ UNCHANGED <<tree, dest>>
     \/ /\ ~ Nameless /\ current.url # None
        /\ dest' = Resolved(tree, current)
        /\ Make(dest', ~ IsDir(tree, dest'), {TRUE} \cup {~ mayFail("get")})
  /\ UNCHANGED <<history, depth>>

\* write_one up to the write.
File ==
  /\ At("file")
  /\ \/ /\ current.path = <<>>
        /\ Fail
        /\ UNCHANGED <<tree, dest>>
     \/ /\ current.path # <<>>
        /\ dest' = current.path
        /\ Make(dest', ~ current.slash /\ ~ IsDir(tree, dest'), {current.decodes})
  /\ UNCHANGED <<history, depth>>

Chmod ==
  /\ pc = "chmod"
  /\ \/ /\ tree' = IF current.mode = None THEN tree
                   ELSE [tree EXCEPT ![dest].mode = current.mode]
        /\ pc' = "chown"
        /\ UNCHANGED <<n, failures>>
     \/ /\ current.mode # None /\ mayFail("chmod")
        /\ UNCHANGED tree /\ Fail
  /\ UNCHANGED <<history, dest, depth>>

Chown ==
  /\ pc = "chown"
  /\ \/ /\ tree' = IF current.owner \in {None, Root} THEN tree
                   ELSE [tree EXCEPT ![dest] = Chowned(@, current.owner)]
        /\ NextEntry
        /\ UNCHANGED failures
     \/ /\ current.owner \notin {None, Root} /\ mayFail("chown")
        /\ UNCHANGED tree /\ Fail
  /\ UNCHANGED <<history, dest, depth>>

\* ensure_directory: the root directory has no parts.
Directory ==
  /\ At("directory")
  /\ \/ /\ Nameless
        /\ Fail
     \/ /\ current.path = <<>> /\ current.slash
        /\ NextEntry
        /\ UNCHANGED failures
     \/ /\ current.path # <<>>
        /\ pc' = "segment"
        /\ UNCHANGED <<n, failures>>
  /\ depth' = 1
  /\ UNCHANGED <<history, tree, dest>>

segment == SubSeq(current.path, 1, depth)
isLeaf == depth = Len(current.path)

\* What comes after a part of the path.
NextSegment ==
  \/ /\ isLeaf
     /\ NextEntry
     /\ UNCHANGED depth
  \/ /\ ~ isLeaf
     /\ depth' = depth + 1 /\ pc' = "segment"
     /\ UNCHANGED n

MakeSegmentIf(touch) ==
  /\ pc = "segment"
  /\ \/ /\ CanMkdir(tree, segment)
        /\ tree' = WithDirs(tree, segment)
        /\ \/ /\ touch
              /\ pc' = "chmodDir"
              /\ UNCHANGED <<n, depth>>
           \/ /\ ~ touch
              /\ NextSegment
        /\ UNCHANGED failures
     \/ /\ ~ CanMkdir(tree, segment) \/ mayFail("mkdir")
        /\ Fail
        /\ UNCHANGED <<tree, depth>>
  /\ UNCHANGED <<history, dest>>

\* Wrong: a directory that is there does not get them.
MakeNew == MakeSegmentIf(segment \notin DOMAIN tree)

\* The last part and those that are new get them.
MakeSegment == MakeSegmentIf(isLeaf \/ segment \notin DOMAIN tree)

ChmodSegment ==
  /\ pc = "chmodDir"
  /\ \/ /\ tree' = IF current.mode = None THEN tree
                   ELSE [tree EXCEPT ![segment].mode = current.mode]
        /\ pc' = "chownDir"
        /\ UNCHANGED <<n, failures>>
     \/ /\ current.mode # None /\ mayFail("chmod")
        /\ UNCHANGED tree /\ Fail
  /\ UNCHANGED <<history, dest, depth>>

ChownSegment ==
  /\ pc = "chownDir"
  /\ \/ /\ tree' = IF current.owner \in {None, Root} THEN tree
                   ELSE [tree EXCEPT ![segment] = Chowned(@, current.owner)]
        /\ NextSegment
        /\ UNCHANGED failures
     \/ /\ current.owner \notin {None, Root} /\ mayFail("chown")
        /\ Fail
        /\ UNCHANGED <<tree, depth>>
  /\ UNCHANGED <<history, dest>>

End ==
  /\ pc = "entry" /\ n > Len(entries)
  /\ pc' = "done"
  /\ UNCHANGED <<history, tree, place, failures>>

Crash ==
  /\ mayFail("crash") /\ pc \notin {"done", "down"}
  /\ GoDown
  /\ UNCHANGED <<history, tree, dest, depth>>

RunAgain ==
  /\ pc \in {"done", "down"} /\ runs < MaxRuns
  /\ runs' = runs + 1
  /\ clean' = (clean /\ pc = "done" /\ failures = {})
  /\ pc' = "entry" /\ n' = 1 /\ dest' = <<>> /\ depth' = 1 /\ failures' = {}
  /\ UNCHANGED <<scenario, tree>>

Next ==
  \/ Download \/ File \/ Chmod \/ Chown
  \/ Directory \/ MakeSegment \/ ChmodSegment \/ ChownSegment
  \/ End \/ Crash \/ RunAgain

Spec == Init /\ [][Next]_vars

-----------------------------------------------------------------------------

\* The types of the variables: what there is is always a tree.
TypeOK ==
  /\ scenario \in Scenarios
  /\ Tree(tree)
  /\ pc \in {"entry", "chmod", "chown", "segment", "chmodDir", "chownDir", "done", "down"}
  /\ n \in 1 .. Len(entries) + 1
  /\ dest \in Seq(Names) /\ depth \in Nat \ {0}
  /\ failures \subseteq DOMAIN entries
  /\ clean \in BOOLEAN
  /\ runs \in 1 .. MaxRuns

\* Whether an earlier download needs the path of entry i as a directory.
Needed(i) ==
  \E j \in 1 .. i - 1 : \/ IsStrictPrefix(entries[i].path, entries[j].path)
                        \/ entries[i].path = entries[j].path /\ entries[j].slash

\* Where entry i is meant to be.  The name in the URL is added if the path is
\* a directory, one from before or one that is needed.
Target(i) ==
  LET e == entries[i]
  IN  IF e.plugin = "download" /\ (e.slash \/ IsDir(scenario.tree, e.path) \/ Needed(i))
      THEN Append(e.path, e.url) ELSE e.path

Makes(i, p) == IsPrefix(p, Target(i))

\* The value the last of some entries asks for, if any does.
LastOf(wanted, value(_), otherwise) ==
  IF wanted = {} THEN otherwise ELSE value(Max(wanted))

\* What is meant to be at a path when all entries have been made.
Meant(p) ==
  LET here == {i \in DOMAIN entries : Target(i) = p}
      written == {i \in here : entries[i].plugin # "directory"}
      before == IF p \in DOMAIN scenario.tree THEN scenario.tree[p]
                ELSE IF written = {} THEN NewDir
                ELSE [kind |-> "file", data |-> Partial, mode |-> Plain(FileBits), owner |-> Root]
      data == LastOf(written, LAMBDA i : entries[i].data,
                     IF before.kind = "file" THEN before.data ELSE Partial)
      mode == LastOf({i \in here : entries[i].mode # None}, LAMBDA i : entries[i].mode,
                     before.mode)
      owning == {i \in here : entries[i].owner \notin {None, Root}}
      owner == [k \in 1 .. 2 |-> LastOf({i \in owning : entries[i].owner[k] >= 0},
                                       LAMBDA i : entries[i].owner[k], before.owner[k])]
      node == [before EXCEPT !.mode = mode, !.owner = owner]
  IN  IF before.kind = "file" THEN [node EXCEPT !.data = data] ELSE node

\* A path at which a download makes a file is no directory for others.
PathsAgree ==
  \A i, j \in DOMAIN entries :
    /\ entries[i].plugin = "download" /\ Target(i) = entries[i].path
    => /\ ~ IsStrictPrefix(entries[i].path, Target(j))
       /\ entries[j].plugin = "directory" => entries[i].path # Target(j)

IsParent(p) ==
  \E i \in DOMAIN entries : /\ entries[i].plugin = "directory"
                            /\ IsStrictPrefix(p, Target(i))

\* What is there and is no entry's own stays as it is through errors, crashes
\* and reruns, also what an entry's path leads through.
OthersUntouched ==
  \A p \in DOMAIN scenario.tree :
    (\A i \in DOMAIN entries :
       LET e == entries[i]
       IN  p # e.path /\ (e.plugin = "download" => p # Append(e.path, e.url)))
    => p \in DOMAIN tree /\ tree[p] = scenario.tree[p]

\* A run that returns Ok, the first or one after runs that broke off, leaves
\* what the stage asks for: every entry with its content, mode and owner, the
\* last one where several meet, and nothing else; and no run touches what is no
\* entry's own.  Left out are the set-user-ID bit of files that are given an
\* owner, and the modes and owners of new parents of directories.  The code
\* gives a new parent those of its directory (in the run that makes it only),
\* where docs/configuration-reference.md:1226 says "Only final dir gets perms"
\* and docs/migrating-from-go-yip.md:128 "Intermediates get the umask default".
AsAsked ==
  /\ OthersUntouched
  /\ pc = "done" /\ failures = {} /\ (clean \/ PathsAgree) =>
       /\ DOMAIN tree = DOMAIN scenario.tree
                        \cup ((UNION {Prefixes(Target(i)) : i \in DOMAIN entries}) \ {<<>>})
       /\ \A p \in DOMAIN tree :
            LET found == tree[p]
                meant == Meant(p)
            IN  /\ found.kind = meant.kind
                /\ found.kind = "file" => found.data = meant.data
                /\ p \in DOMAIN scenario.tree \/ ~ IsParent(p) =>
                     /\ found.mode.bits = meant.mode.bits
                     /\ found.owner = meant.owner
                     /\ \/ found.mode.suid = meant.mode.suid
                        \/ /\ found.kind = "file"
                           /\ \E i \in DOMAIN entries : Target(i) = p /\ entries[i].owner \notin {None, Root}

\* Entry i shares no path with another one, and where it goes is not left to
\* whether an earlier download has made its directories.
Apart(i) ==
  /\ \A j \in DOMAIN entries \ {i} : ~ Makes(i, Target(j)) /\ ~ Makes(j, Target(i))
  /\ entries[i].plugin = "download" /\ Needed(i)
       => entries[i].slash \/ IsDir(scenario.tree, entries[i].path)

\* "The loop never aborts early": what becomes of an entry does not depend on
\* others elsewhere.  One for which no error is returned is there, with its
\* content and mode, however many others failed.
EachForItself ==
  pc = "done" =>
    \A i \in DOMAIN entries \ failures :
      Apart(i) /\ Target(i) # <<>>
      => /\ Target(i) \in DOMAIN tree
         /\ LET found == tree[Target(i)]
            IN  /\ entries[i].plugin # "directory" => found.data = entries[i].data
                /\ entries[i].mode # None => found.mode.bits = entries[i].mode.bits

=============================================================================
