----------------------------- MODULE EntityEdits -----------------------------
(***************************************************************************)
(* What the lock around entity edits is for: each process makes its edits  *)
(* in order, each in one step and on what the file holds at that step, or  *)
(* reports that it could not.                                              *)
(***************************************************************************)
EXTENDS EntityFile

CONSTANTS Procs

VARIABLES file, \* the lines of the file
          todo, \* the edits each process has left
          errs  \* the edits each process has to report

vars == <<file, todo, errs>>

Init ==
  /\ file \in Seq(Line)
  /\ todo \in [Procs -> Seq(Edit)]
  /\ errs = [p \in Procs |-> <<>>]

\* A write that breaks off leaves the beginning of what it had to write.
Torn(p) == {SubSeq(Edited(file, Head(todo[p])), 1, n) :
              n \in 0 .. Len(Edited(file, Head(todo[p])))}

Apply(p) ==
  /\ todo[p] # <<>> /\ Valid(Head(todo[p]))
  /\ file' = Edited(file, Head(todo[p]))
  /\ todo' = [todo EXCEPT ![p] = Tail(@)]
  /\ UNCHANGED errs

Fail(p) ==
  /\ todo[p] # <<>>
  /\ file' \in {file} \cup IF Valid(Head(todo[p])) THEN Torn(p) ELSE {}
  /\ errs' = [errs EXCEPT ![p] = Append(@, Head(todo[p]))]
  /\ todo' = [todo EXCEPT ![p] = Tail(@)]

\* A process that dies leaves the rest of its edits undone.
Die(p) ==
  /\ todo[p] # <<>>
  /\ file' \in {file} \cup IF Valid(Head(todo[p])) THEN Torn(p) ELSE {}
  /\ todo' = [todo EXCEPT ![p] = <<>>]
  /\ UNCHANGED errs

Next == \E p \in Procs : Apply(p) \/ Fail(p) \/ Die(p)

Spec == Init /\ [][Next]_vars /\ \A p \in Procs : WF_vars(Apply(p) \/ Fail(p))
==============================================================================
