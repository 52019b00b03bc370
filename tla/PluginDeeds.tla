---------------------------- MODULE PluginDeeds ----------------------------
(***************************************************************************)
(* What the smaller plugins have in common: a call works off deeds, each a *)
(* write, a directory or a command, and what a failed deed means for those *)
(* after it.  A plugin's module says which deeds a stage asks for.         *)
(***************************************************************************)
EXTENDS SequencesExt, Subsequences, TLC

\* After a failed deed the plugin goes on, leaves out the next deed too, or
\* returns; in these cases it returns an error.  It may also ignore the failure.
Policies == {"next", "skip", "return", "ignore"}

\* A file's path is a sequence of names; its content is what readers make of it.
Write(path, content, fail) ==
  [op |-> "write", path |-> path, content |-> content, fail |-> fail]

MkdirAll(fail) == [op |-> "mkdir", fail |-> fail]

\* A command is a sequence: what it does, and to what.
Run(command, fail) == [op |-> "run", command |-> command, fail |-> fail]

\* A command that is run only if the plugin has written something.
RunIfWritten(command) == [op |-> "run if written", command |-> command, fail |-> "next"]

\* An error without a deed.
Refuse == [op |-> "refuse", fail |-> "return"]

\* A deed for each of a sequence.
ForEach(seq, DeedFor(_)) == [i \in DOMAIN seq |-> DeedFor(seq[i])]

\* The elements of a sequence that are wanted, in their order.
Those(seq, Wanted(_)) == Subsequence(seq, {i \in DOMAIN seq : Wanted(seq[i])})

\* A map's keys in the order of their names.
Sorted(map, Names) == Those(Names, LAMBDA name : name \in DOMAIN map)

\* Two maps as one; the first has the last word.
Over(first, second) ==
  [key \in DOMAIN first \cup DOMAIN second |->
     IF key \in DOMAIN first THEN first[key] ELSE second[key]]

\* A map with a new value for a key.
Put(map, key, value) == Over([k \in {key} |-> value], map)

\* The file is there, for an empty path list too.
Exists(path, files) == path \in DOMAIN files

=============================================================================
