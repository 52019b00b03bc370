---------------------------- MODULE MCEntityLock ----------------------------
(* Scenarios for TLC: two processes with an edit each, which may die; one   *)
(* process with edits of every kind, whose every call may fail; and, for    *)
(* the lock that two edits of a process undo, more edits.                   *)
EXTENDS EntityLock, TLC

CONSTANTS p, q

line(id, rest) == [id |-> id, rest |-> rest]

edit(kind, name, rest) ==
  [kind |-> kind, parses |-> TRUE, line |-> line(<<name>>, rest)]

anonymous(kind, rest) ==
  [kind |-> kind, parses |-> TRUE, line |-> line(<<>>, rest)]

Lines == <<line(<<"root">>, 1), line(<<"ann">>, 2)>>

On(first, second, faults) ==
  [todo |-> p :> first @@ q :> second, file |-> Lines, faults |-> faults]

PairScenarios ==
  {On(<<edit("ensure", "ann", 3)>>, <<second>>, faults) :
     second \in {edit("ensure", "bob", 1), edit("ensure", "ann", 1),
                 edit("delete", "ann", 2)},
     faults \in {{}, {"crash", "read", "write"}}}

FaultyScenarios ==
  {On(<<edit("ensure", "bob", 3), anonymous("ensure", 1),
        [edit("delete", "bob", 2) EXCEPT !.parses = FALSE],
        anonymous("delete", rest), edit("delete", "ann", 2)>>,
      <<>>, Faults \ {"crash"}) : rest \in {1, 2, 3}}

MCScenarios == PairScenarios \cup FaultyScenarios

SeveralEach == {On(<<edit("ensure", "ann", 2), edit("ensure", "bob", 1)>>,
                   <<edit("ensure", "cid", 1), edit("ensure", "dan", 1)>>, {})}
==============================================================================
