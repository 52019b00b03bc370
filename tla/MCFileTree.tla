----------------------------- MODULE MCFileTree -----------------------------
(* Stages for TLC: all of up to three entries of a small choice for each    *)
(* plugin, and ones with faults, owners and paths that meet.                *)
EXTENDS FileTree

A == <<"a">>
AB == <<"a", "b">>
ABC == <<"a", "b", "c">>

\* An entry as the YAML gives it when only its path is set.
entry(plugin, path) ==
  [plugin |-> plugin, path |-> path, slash |-> FALSE, mode |-> None, owner |-> Root,
   url |-> "c", decodes |-> TRUE, data |-> plugin]

moded(e, bits) == [e EXCEPT !.mode = Plain(bits)]
owned(e, owner) == [e EXCEPT !.owner = owner]

Old == (A :> [NewDir EXCEPT !.owner = <<1, 1>>])
       @@ (AB :> [kind |-> "file", data |-> "old", mode |-> [bits |-> "closed", suid |-> TRUE],
                  owner |-> Root])

\* One of each plugin, or none.
AtMostOne(S) == {<<>>} \cup {<<e>> : e \in S}

Downloads == {entry("download", p) : p \in {A, AB, <<>>}}
             \cup {[entry("download", A) EXCEPT !.slash = TRUE, !.mode = Plain("closed")],
                   [entry("download", A) EXCEPT !.url = None]}

Directories == {moded(owned(entry("directory", p), <<1, -1>>), "closed") : p \in {A, ABC}}
               \cup {entry("directory", AB), entry("directory", <<>>)}

Files == {entry("file", p) : p \in {A, ABC}}
         \cup {moded(owned(entry("file", AB), <<1, 2>>), "closed"),
               [entry("file", AB) EXCEPT !.decodes = FALSE]}

Exhaustive ==
  [downloads : AtMostOne(Downloads), directories : AtMostOne(Directories),
   files : AtMostOne(Files), tree : {<<>>, Old},
   faults : {{}, {"get", "crash"}, {"mkdir", "write", "chmod", "chown"}}]

\* Two entries of a plugin that meet, with and without an owner by name.
Meeting ==
  [downloads : {<<>>, <<entry("download", AB), moded(entry("download", A), "closed")>>},
   directories : {<<>>, <<moded(entry("directory", ABC), "closed"),
                         moded(owned(entry("directory", A), <<2, 2>>), "dirs")>>,
                  <<moded(entry("directory", AB), "closed"),
                    [entry("directory", <<>>) EXCEPT !.slash = TRUE]>>},
   files : {<<>>, <<moded(owned(entry("file", AB), <<1, 1>>), "closed"), owned(entry("file", AB), None)>>,
            <<[entry("file", AB) EXCEPT !.slash = TRUE], owned(entry("file", ABC), <<-1, 3>>)>>,
            <<owned(entry("file", AB), <<1, 1>>)>>,
            <<[entry("file", ABC) EXCEPT !.mode = [bits |-> "dirs", suid |-> TRUE]],
              [owned(entry("file", <<"b">>), <<0, 3>>) EXCEPT !.mode = [bits |-> "dirs", suid |-> TRUE]]>>},
   tree : {<<>>, Old}, faults : {{}, {"crash", "chmod"}, {"mkdir", "write", "chown"}}]

MCScenarios == Exhaustive \cup Meeting
=============================================================================
