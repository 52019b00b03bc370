--------------------------- MODULE MCUnpackImage ---------------------------
(* Images for TLC: all of two layers with up to two entries each over a     *)
(* directory and its neighbour, and images with links, owners, several      *)
(* sources, failures and crashes.                                           *)
EXTENDS UnpackImage

A == <<"a">>
B == <<"b">>
AB == <<"a", "b">>
AC == <<"a", "c">>

file(path, data) == [kind |-> "file", path |-> path, data |-> data, owner |-> 0]
link(path, to) == [kind |-> "link", path |-> path, to |-> to]
other(kind, path) == [kind |-> kind, path |-> path]

node(data) == [kind |-> "file", data |-> data, owner |-> 0]

Old == (A :> Dir) @@ (AB :> node("old")) @@ (AC :> node("old"))

One(layers) == <<[given |-> TRUE, layers |-> layers]>>

EntriesWith(data) == {file(A, data), file(AB, data), other("dir", A), other("white", A),
                  other("white", AB), other("opaque", A), other("opaque", AB)}

LayersOf(data) == {<<e>> : e \in EntriesWith(data)} \cup (EntriesWith(data) \X EntriesWith(data))

Exhaustive ==
  [images : {One(<<l, m>>) : l \in LayersOf("x"), m \in LayersOf("y")},
   tree : {<<>>, Old}, faults : {{}}]

\* The directory is reached by a link as well; one layer drops the link.
Linked ==
  {[images |-> One(<<<<file(AB, "x"), link(B, A)>>, second>>), tree |-> Old,
    faults |-> {"write", "crash"}] :
     second \in {<<link(B, AB)>>, <<other("white", B)>>, <<file(B, "y")>>,
                 <<file(Append(B, "c"), "y")>>, <<other("dir", B)>>,
                 <<other("white", A), link(A, B)>>,
                 <<link(A, AB)>>, <<link(AB, A), link(Append(AB, "b"), A)>>,
                 <<[link(AC, AB) EXCEPT !.kind = "hard"]>>}}

\* Root of the image, owners, devices, refused entries; three images.
Several ==
  [images : {<<[given |-> TRUE,
                layers |-> <<<<[file(AB, "x") EXCEPT !.owner = 1], other("other", A)>>, m>>],
               [given |-> FALSE, layers |-> <<>>],
               [given |-> TRUE, layers |-> <<<<file(B, "y"), last>>>>]>> :
               last \in {other("bad", A), other("white", AC)},
               m \in {<<>>, <<file(AB, "y")>>, <<[file(AB, "y") EXCEPT !.owner = 1]>>,
                      <<other("opaque", <<>>), file(AC, "y")>>}},
   tree : {<<>>, Old}, faults : {{"fetch", "corrupt", "crash"}, {"remove", "write"},
                                 {"chown"}}]

\* Whiteouts named `.` and `..`, in the target, below it and behind a link.
Dots ==
  {[images |-> One(<<<<link(B, A), file(AB, "x")>>, <<other(kind, at), file(AB, "y")>>>>),
    tree |-> Old, faults |-> f] :
     kind \in {"here", "up"}, at \in {<<>>, A, AB, B}, f \in {{}, {"remove", "crash"}}}

Broken ==
  {[images |-> One(<<<<file(AB, "x"), file(AC, "x")>>,
                     <<other("white", AC), other("opaque", A), file(AB, "y"), file(B, "y")>>>>),
    tree |-> t, faults |-> f] :
     t \in {<<>>, Old}, f \in {{"crash", "write", "corrupt"}, {"remove"}}}

MCScenarios == Exhaustive \cup Linked \cup Several \cup Broken \cup Dots
============================================================================
