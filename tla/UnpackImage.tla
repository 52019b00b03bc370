---------------------------- MODULE UnpackImage ----------------------------
(***************************************************************************)
(* The unpack_images plugin: the layers of one image after the other are   *)
(* extracted over what the target directory holds, entry by entry, by a    *)
(* stage that may be run again after an end, an error or a crash.          *)
(*                                                                         *)
(* Paths are relative to the target, which all images of the stage share.  *)
(* A symbolic link leads to a path in the target, and what it leads to     *)
(* crosses no other link.  Modes and times are left out.                   *)
(***************************************************************************)
EXTENDS SequencesExt, TLC

CONSTANTS Names,     \* of files and directories
          Data,      \* what files hold
          Partial,   \* what a file holds whose write broke off
          Scenarios, \* images, what the target holds before, and faults
          MaxRuns    \* bound: how often the stage is run

Path == Seq(Names) \ {<<>>}

Dir == [kind |-> "dir"]
FileNode == [kind : {"file"}, data : Data \cup {Partial}, owner : Nat]
LinkNode == [kind : {"link"}, to : Path]
Node == {Dir} \cup FileNode \cup LinkNode

\* The entries of a layer's tar.  The path of a whiteout is what it removes,
\* that of an opaque whiteout, or of one that is named `.` or `..` ("here" and
\* "up"), the directory it stands in.  "other" entries are devices and the
\* like, "bad" ones have `..` in their path or no link.
TarEntry == [kind : {"file"}, path : Path, data : Data, owner : Nat]
         \cup [kind : {"link", "hard"}, path : Path, to : Path]
         \cup [kind : {"dir", "white", "other", "bad"}, path : Path]
         \cup [kind : {"opaque", "here", "up"}, path : Seq(Names)]

\* Without a source or a target an image is not `given`.
Image == [given : BOOLEAN, layers : Seq(Seq(TarEntry))]

Faults == {"fetch", "corrupt", "remove", "write", "chown", "crash"}

\* Every node of a tree stands in a directory.
Tree(t) ==
  /\ t \in [DOMAIN t -> Node]
  /\ \A p \in DOMAIN t : /\ p \in Path
                         /\ Len(p) > 1 => Front(p) \in DOMAIN t /\ t[Front(p)] = Dir

ASSUME UnpackAssumption ==
  /\ MaxRuns \in Nat \ {0}
  /\ \A s \in Scenarios : /\ DOMAIN s = {"images", "tree", "faults"}
                          /\ s.images \in Seq(Image)
                          /\ Tree(s.tree)
                          /\ s.faults \subseteq Faults

VARIABLES
  scenario, \* stays as it is
  tree,     \* what the target holds
  phase,    \* what comes next
  image, layer, entry, \* the current ones
  failed,   \* whether this run has collected an error
  returned, \* what this run returned
  runs      \* how often the stage has been started

unpackVars == <<scenario, tree, phase, image, layer, entry, failed, returned, runs>>
place == <<image, layer, entry>>

Layers == scenario.images[image].layers
current == Layers[layer][entry]
mayFail(what) == what \in scenario.faults

-----------------------------------------------------------------------------

Kind(t, p) == CASE p = <<>> -> "dir"
                [] p \in DOMAIN t -> t[p].kind
                [] OTHER -> "none"

\* Where a path leads when links are followed, also the last one.
Leads(t, p) ==
  LET links == {q \in Prefixes(p) : Kind(t, q) = "link"}
      q == CHOOSE l \in links : TRUE
  IN  IF links = {} THEN p ELSE t[q].to \o SubSeq(p, Len(q) + 1, Len(p))

\* Where it leads when the last one is not.
At(t, p) == IF p = <<>> THEN p ELSE Append(Leads(t, Front(p)), Last(p))

\* mkdir_all takes what is a directory, and makes what is not there.
CanMkdir(t, p) ==
  \A q \in Prefixes(p) : Kind(t, Leads(t, q)) = "dir" \/ Kind(t, At(t, q)) = "none"

WithDirs(t, p) ==
  LET dirs == {Leads(t, r) : r \in Prefixes(p)} \ {<<>>}
  IN  [q \in DOMAIN t \cup dirs |-> IF q \in DOMAIN t THEN t[q] ELSE Dir]

Put(t, p, node) == [q \in DOMAIN t \cup {p} |-> IF q = p THEN node ELSE t[q]]

\* remove_all: a path and all below.
Without(t, p) == Restrict(t, {q \in DOMAIN t : ~ IsPrefix(At(t, p), q)})

\* What a removal may leave that breaks off: a directory goes after what it
\* holds.
Lessened(t, doomed) ==
  {Restrict(t, DOMAIN t \ gone) :
     gone \in {g \in SUBSET doomed :
                 \A q \in g, r \in DOMAIN t : IsPrefix(q, r) => r \in g}}

PartlyWithout(t, p) == Lessened(t, {q \in DOMAIN t : IsPrefix(At(t, p), q)})

\* What a whiteout named `.` or `..` takes away: what the directory holds that
\* it stands in, or the one above that; the directory itself cannot be removed
\* by such a name.  Above the target everything goes.
Cleared(t, e) ==
  LET dir == Leads(t, e.path)
      cleared == IF e.kind = "up" /\ dir # <<>> THEN Front(dir) ELSE dir
  IN  {q \in DOMAIN t : Kind(t, dir) = "dir" /\ IsStrictPrefix(cleared, q)}

\* Wrong: a directory is removed from above what it holds.
RemovedAlone(t, p) == Restrict(t, DOMAIN t \ {At(t, p)})

\* remove: a file, a link, or a directory that is empty.
Removed(t, p) ==
  IF \E q \in DOMAIN t : IsStrictPrefix(At(t, p), q) THEN t
  ELSE Restrict(t, DOMAIN t \ {At(t, p)})

-----------------------------------------------------------------------------

UnpackInit ==
  /\ scenario \in Scenarios
  /\ tree = scenario.tree
  /\ phase = "fetch"
  /\ image = 1 /\ layer = 1 /\ entry = 1
  /\ failed = FALSE /\ returned = "none"
  /\ runs = 1

NextEntry == entry' = entry + 1 /\ UNCHANGED <<image, layer, phase, failed>>

NextImage == /\ image' = image + 1 /\ layer' = 1 /\ entry' = 1
             /\ phase' = "fetch"

\* run reports the error and takes the next image.
Fail == NextImage /\ failed' = TRUE

\* The machine goes down in the middle of an entry.
GoDown == phase' = "down" /\ UNCHANGED <<image, layer, entry, failed>>

\* unpack_one up to the extraction: all layers are fetched first.
Fetch ==
  /\ phase = "fetch" /\ image <= Len(scenario.images)
  /\ \/ /\ ~ scenario.images[image].given
        /\ NextImage
        /\ UNCHANGED failed
     \/ /\ scenario.images[image].given
        /\ phase' = "extract" /\ layer' = 1 /\ entry' = 1
        /\ UNCHANGED <<image, failed>>
     \/ /\ scenario.images[image].given /\ mayFail("fetch")
        /\ Fail
  /\ UNCHANGED <<scenario, tree, returned, runs>>

Extracting(kinds) ==
  /\ phase = "extract" /\ layer <= Len(Layers) /\ entry <= Len(Layers[layer])
  /\ current.kind \in kinds
  /\ UNCHANGED <<scenario, returned, runs>>

\* A removal that fails is passed over.
Whiteout ==
  /\ Extracting({"white"})
  /\ \/ /\ tree' = Without(tree, current.path)
        /\ NextEntry
     \/ /\ tree' \in PartlyWithout(tree, current.path)
        /\ \/ mayFail("remove") /\ NextEntry
           \/ mayFail("crash") /\ GoDown

\* The name of a whiteout is not looked at, but for its prefix.
WhiteoutDots ==
  /\ Extracting({"here", "up"})
  /\ LET doomed == Cleared(tree, current)
     IN  \/ /\ tree' = Restrict(tree, DOMAIN tree \ doomed)
            /\ NextEntry
         \/ /\ tree' \in Lessened(tree, doomed)
            /\ \/ mayFail("remove") /\ NextEntry
               \/ mayFail("crash") /\ GoDown

\* Wrong: the directory keeps what is in it.
KeepingOpaque ==
  /\ Extracting({"opaque"})
  /\ tree' = IF CanMkdir(tree, current.path) THEN WithDirs(tree, current.path) ELSE tree
  /\ NextEntry

\* The directory is removed and made anew; what fails is passed over.
Opaque ==
  /\ Extracting({"opaque"})
  /\ \/ /\ \E left \in {Without(tree, current.path)}
                       \cup (IF mayFail("remove") THEN PartlyWithout(tree, current.path)
                             ELSE {}) :
             tree' = IF CanMkdir(left, current.path) THEN WithDirs(left, current.path)
                     ELSE left
        /\ NextEntry
     \/ /\ tree' \in PartlyWithout(tree, current.path)
        /\ mayFail("crash") /\ GoDown

Directory ==
  /\ Extracting({"dir"})
  /\ \/ /\ CanMkdir(tree, current.path)
        /\ tree' = WithDirs(tree, current.path)
        /\ NextEntry
     \/ /\ ~ CanMkdir(tree, current.path)
        /\ UNCHANGED tree /\ Fail

\* The text of a hard link is relative to the image, but is read as that of a
\* symbolic one.
LinkTarget(e) == IF e.kind = "hard" THEN Front(e.path) \o e.to ELSE e.to

\* What is in the way is removed, if it can be; then the link is made, if its
\* directory has not been reached by the link that is removed.
Link ==
  /\ Extracting({"link", "hard"})
  /\ LET path == current.path
         cleared == Removed(WithDirs(tree, Front(path)), path)
         free == /\ Kind(cleared, At(cleared, path)) = "none"
                 /\ Kind(cleared, Leads(cleared, Front(path))) = "dir"
     IN  \/ /\ CanMkdir(tree, Front(path)) /\ free
            /\ tree' = Put(cleared, At(cleared, path), [kind |-> "link", to |-> LinkTarget(current)])
            /\ NextEntry
         \/ /\ CanMkdir(tree, Front(path)) /\ (~ free \/ mayFail("write"))
            /\ tree' = cleared /\ Fail
         \/ /\ ~ CanMkdir(tree, Front(path))
            /\ UNCHANGED tree /\ Fail

\* A file that is there is written anew and keeps its owner, unless the entry
\* has another than root.  A link that is there is written through.  An owner
\* that cannot be set is passed over.
File ==
  /\ Extracting({"file"})
  /\ LET ready == WithDirs(tree, Front(current.path))
         to == Leads(ready, current.path)
         writable == Kind(ready, to) # "dir" /\ Kind(ready, Front(to)) = "dir"
         old == IF Kind(ready, to) = "file" THEN ready[to].owner ELSE 0
         new == IF current.owner = 0 THEN old ELSE current.owner
         Written(data, owner) == Put(ready, to, [kind |-> "file", data |-> data, owner |-> owner])
     IN  \/ /\ CanMkdir(tree, Front(current.path)) /\ writable
            /\ \/ tree' = Written(current.data, new)
               \/ mayFail("chown") /\ tree' = Written(current.data, old)
            /\ NextEntry
         \/ /\ CanMkdir(tree, Front(current.path)) /\ writable
            /\ tree' = Written(Partial, old)
            /\ \/ mayFail("write") /\ Fail
               \/ mayFail("crash") /\ GoDown
         \/ /\ CanMkdir(tree, Front(current.path)) /\ ~ writable
            /\ tree' = ready /\ Fail
         \/ /\ ~ CanMkdir(tree, Front(current.path))
            /\ UNCHANGED tree /\ Fail

\* Devices and the like.
Skip == Extracting({"other"}) /\ NextEntry /\ UNCHANGED tree

\* A path with `..`, a link that leads nowhere, or a layer that cannot be
\* unzipped or read any further.
Refuse ==
  /\ phase = "extract" /\ layer <= Len(Layers)
  /\ \/ entry <= Len(Layers[layer]) /\ current.kind = "bad"
     \/ mayFail("corrupt")
  /\ Fail
  /\ UNCHANGED <<scenario, tree, returned, runs>>

NextLayer ==
  /\ phase = "extract" /\ layer <= Len(Layers) /\ entry > Len(Layers[layer])
  /\ layer' = layer + 1 /\ entry' = 1
  /\ UNCHANGED <<scenario, tree, phase, image, failed, returned, runs>>

ImageDone ==
  /\ phase = "extract" /\ layer > Len(Layers)
  /\ NextImage
  /\ UNCHANGED <<scenario, tree, failed, returned, runs>>

Return ==
  /\ phase = "fetch" /\ image > Len(scenario.images)
  /\ phase' = "done"
  /\ returned' = IF failed THEN "error" ELSE "ok"
  /\ UNCHANGED <<scenario, tree, place, failed, runs>>

Crash ==
  /\ mayFail("crash") /\ phase \notin {"done", "down"}
  /\ phase' = "down"
  /\ UNCHANGED <<scenario, tree, place, failed, returned, runs>>

RunAgain ==
  /\ phase \in {"done", "down"} /\ runs < MaxRuns
  /\ runs' = runs + 1
  /\ phase' = "fetch" /\ image' = 1 /\ layer' = 1 /\ entry' = 1
  /\ failed' = FALSE /\ returned' = "none"
  /\ UNCHANGED <<scenario, tree>>

UnpackNext ==
  \/ Fetch \/ Whiteout \/ WhiteoutDots \/ Opaque \/ Directory \/ Link \/ File \/ Skip
  \/ Refuse \/ NextLayer \/ ImageDone \/ Return \/ Crash \/ RunAgain

Unpack == UnpackInit /\ [][UnpackNext]_unpackVars

-----------------------------------------------------------------------------

\* The types of the variables: the target always holds a tree.
UnpackTypeOK ==
  /\ scenario \in Scenarios
  /\ Tree(tree)
  /\ phase \in {"fetch", "extract", "done", "down"}
  /\ image \in Nat \ {0} /\ layer \in Nat \ {0} /\ entry \in Nat \ {0}
  /\ failed \in BOOLEAN /\ returned \in {"none", "ok", "error"}
  /\ runs \in 1 .. MaxRuns

\* The layers of all images by their places in the order in which they are
\* applied.  What the target held before is below them all.
Spots == UNION {{i} \X DOMAIN scenario.images[i].layers :
                  i \in {k \in DOMAIN scenario.images : scenario.images[k].given}}

Bottom == <<0, 0>>

LayerAt(s) == scenario.images[s[1]].layers[s[2]]

Above(s, r) == s[1] > r[1] \/ (s[1] = r[1] /\ s[2] > r[2])

Entries == UNION {Range(LayerAt(s)) : s \in Spots}

Makes(e, p) == e.kind \in {"file", "link", "dir", "opaque"} /\ e.path = p

Implies(e, p) == e.kind \in {"file", "link", "dir", "opaque"} /\ IsStrictPrefix(p, e.path)

Hides(e, p) == \/ e.kind = "white" /\ IsPrefix(e.path, p)
               \/ e.kind = "opaque" /\ IsStrictPrefix(e.path, p)

Made(e) == CASE e.kind = "file" -> [kind |-> "file", data |-> e.data, owner |-> e.owner]
             [] e.kind = "link" -> [kind |-> "link", to |-> e.to]
             [] OTHER -> Dir

Has(s, p) == IF s = Bottom THEN p \in DOMAIN scenario.tree
             ELSE \E e \in Range(LayerAt(s)) : Makes(e, p) \/ Implies(e, p)

\* Layer s is the highest one that has p, and none above it hides p.
Shows(s, p) ==
  /\ Has(s, p)
  /\ \A r \in Spots : Above(r, s) =>
       ~ Has(r, p) /\ \A e \in Range(LayerAt(r)) : ~ Hides(e, p)

\* What layer s has at p: what the last entry for it makes, or a directory that
\* the path of another entry leads through.
Content(s, p) ==
  LET made == {n \in DOMAIN LayerAt(s) : Makes(LayerAt(s)[n], p)}
      last == CHOOSE n \in made : \A m \in made : m <= n
  IN  CASE s = Bottom -> scenario.tree[p]
        [] s # Bottom /\ made = {} -> Dir
        [] OTHER -> Made(LayerAt(s)[last])

\* What the layers mean: a path is there when a layer shows it, and is what it
\* is in that layer.
Union ==
  LET paths == DOMAIN scenario.tree
                 \cup ((UNION {Prefixes(e.path) : e \in Entries}) \ {<<>>})
      all == Spots \cup {Bottom}
  IN  [p \in {q \in paths : \E s \in all : Shows(s, q)} |->
         Content(CHOOSE s \in all : Shows(s, p), p)]

\* A path at which anything makes a link is at most removed otherwise.
LinksStay ==
  LET links == {p \in DOMAIN scenario.tree : scenario.tree[p].kind = "link"}
                 \cup {e.path : e \in {f \in Entries : f.kind \in {"link", "hard"}}}
  IN  \A e \in Entries, l \in links :
        /\ e.kind \in {"file", "dir", "opaque", "here", "up"} => ~ IsPrefix(l, e.path)
        /\ e.kind \in {"link", "hard", "white"} => ~ IsStrictPrefix(l, e.path)

\* In a layer, what hides a path comes before what makes it.
HidesFirst ==
  \A s \in Spots : \A m, n \in DOMAIN LayerAt(s) :
    m < n => ~ Hides(LayerAt(s)[n], LayerAt(s)[m].path)

\* The owners of the files that layer s has at p.
OwnersAt(s, p) ==
  IF s = Bottom
  THEN {scenario.tree[q].owner :
          q \in {r \in DOMAIN scenario.tree : r = p /\ scenario.tree[r].kind = "file"}}
  ELSE {e.owner : e \in {f \in Range(LayerAt(s)) : f.kind = "file" /\ f.path = p}}

\* No file of root's comes over one of somebody else's.
OwnersStay ==
  \A s \in Spots, r \in Spots \cup {Bottom} : ~ Above(r, s) =>
    \A e \in Range(LayerAt(s)) :
      e.kind = "file" /\ e.owner = 0 => OwnersAt(r, e.path) \subseteq {0}

\* Where a path holds a directory to be cleared, its layer has made directories
\* of the parents before, or no layer has a file there.
OpaquesFit ==
  \A s \in Spots : \A n \in DOMAIN LayerAt(s) : LayerAt(s)[n].kind = "opaque" =>
    \A q \in Prefixes(LayerAt(s)[n].path) \ {<<>>, LayerAt(s)[n].path} :
      \/ \E m \in 1 .. n - 1 :
           LET e == LayerAt(s)[m]
           IN  (e.kind = "dir" /\ e.path = q) \/ Implies(e, q)
      \/ \A r \in Spots \cup {Bottom} : OwnersAt(r, q) = {}

\* Hard links become symbolic ones, and whiteouts have names.
PlainEntries == \A e \in Entries : e.kind \notin {"hard", "here", "up"}

\* The directory that a whiteout named `.` or `..` empties.
Emptied(e) == IF e.kind = "up" /\ e.path # <<>> THEN Front(e.path) ELSE e.path

\* What is in the target and in no layer's way stays as it is, also when an
\* image is refused, a layer breaks off or the machine goes down.
OthersUntouched ==
  LinksStay =>
    \A p \in DOMAIN scenario.tree :
      (\A e \in Entries :
         /\ e.kind \in {"file", "link", "hard"} => e.path # p
         /\ e.kind \in {"white", "opaque"} => ~ IsPrefix(e.path, p)
         /\ e.kind \in {"here", "up"} => ~ IsStrictPrefix(Emptied(e), p))
      => p \in DOMAIN tree /\ tree[p] = scenario.tree[p]

\* A node is what it is to be, but for an owner that could not be set.
AsIs(node, wanted) ==
  \/ node = wanted
  \/ /\ mayFail("chown") /\ node.kind = "file" /\ wanted.kind = "file"
     /\ node.data = wanted.data

\* A run that returns Ok, the first or one on top of what an earlier run has
\* left, leaves the layers' union ("extract their rootfs"), and no run touches
\* anything else.  Where chown fails the owners are not said to be the layers':
\* the error is dropped.  Left out of the first half are hard links, which become
\* symbolic ones, whiteouts named `.` or `..`, which empty a directory, links and
\* owners that change between layers, what is hidden by its own layer, an opaque
\* whiteout below a file, and removals that fail.
UnionExtracted ==
  /\ OthersUntouched
  /\ /\ returned = "ok" /\ LinksStay /\ HidesFirst /\ OwnersStay /\ OpaquesFit
     /\ PlainEntries /\ ~ mayFail("remove")
     => /\ DOMAIN tree = DOMAIN Union
        /\ \A p \in DOMAIN tree : AsIs(tree[p], Union[p])

=============================================================================
