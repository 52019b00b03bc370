-------------------------- MODULE EntityLockProofs --------------------------
(***************************************************************************)
(* Theorems about EntityLock, for any number of processes, edits and       *)
(* faults: the variables keep their types, and the lock file does not      *)
(* outlive the edits.  For one process, or two with an edit each, which is *)
(* what the lock is good for: no two edit at the same time, and each edit  *)
(* is as good as a single step.                                            *)
(***************************************************************************)
EXTENDS EntityLock, WellFoundedInduction, SequenceTheorems, TLAPS

\* Some place of a sequence comes first.
LEMMA FirstPlace ==
  ASSUME NEW places, places \subseteq Nat, places # {}
  PROVE  Min(places) \in places
<1>1. PICK i \in places : \A j \in places : <<j, i>> \notin OpToRel(<, Nat)
  BY NatLessThanWellFounded, WFMin
<1>2. \A j \in places : ~ (j < i)
  BY <1>1 DEF OpToRel
<1>3. \A j \in places : i <= j
  BY <1>2
<1> QED BY <1>3 DEF Min

\* Putting another element in a place keeps a sequence one.
LEMMA ReplaceType ==
  ASSUME NEW S, NEW s \in Seq(S), NEW i, NEW e \in S
  PROVE  /\ [s EXCEPT ![i] = e] \in Seq(S)
         /\ Len([s EXCEPT ![i] = e]) = Len(s)
<1>1. s \in [1 .. Len(s) -> S] /\ Len(s) \in Nat
  OBVIOUS
<1>2. [s EXCEPT ![i] = e] \in [1 .. Len(s) -> S]
  BY <1>1
<1> QED BY <1>1, <1>2

\* Cutting text out that begins inside line i leaves lines.
LEMMA CutType ==
  ASSUME NEW lines \in Seq(Line), NEW i \in 1 .. Len(lines), NEW id \in Seq(Names),
         NEW before, before = SubSeq(lines[i].id, 1, Len(lines[i].id) - Len(id))
  PROVE  /\ RemoveAt(lines, i) \in Seq(Line)
         /\ [lines EXCEPT ![i] = [id |-> before, rest |-> NoRest]] \in Seq(Line)
         /\ i # Len(lines) =>
              RemoveAt([lines EXCEPT ![i + 1].id = before \o @], i) \in Seq(Line)
<1>1. \A ls \in Seq(Line) : i \in 1 .. Len(ls) => RemoveAt(ls, i) \in Seq(Line)
  BY DEF RemoveAt
<1>2. before \in Seq(Names)
  <2>0. PICK old \in Line : old = lines[i]
    OBVIOUS
  <2>1. PICK own \in Seq(Names) : own = lines[i].id
    BY <2>0 DEF Line
  <2>2. Len(own) \in Nat /\ Len(id) \in Nat
    BY <2>1
  <2>3. Len(own) - Len(id) <= Len(own)
    BY <2>2
  <2> QED BY <2>1, <2>2, <2>3
<1>3. [id |-> before, rest |-> NoRest] \in Line
  BY <1>2 DEF Line
<1>4. ASSUME i # Len(lines)
      PROVE  RemoveAt([lines EXCEPT ![i + 1].id = before \o @], i) \in Seq(Line)
  <2>1. i + 1 \in 1 .. Len(lines)
    BY <1>4
  <2>2. PICK next \in Line : next = lines[i + 1]
    BY <2>1
  <2>3. before \o next.id \in Seq(Names)
    BY <1>2, <2>2 DEF Line
  <2>4. [next EXCEPT !.id = before \o @] \in Line
    BY <2>2, <2>3 DEF Line
  <2> DEFINE joined == [lines EXCEPT ![i + 1] = [next EXCEPT !.id = before \o @]]
  <2>5. joined \in Seq(Line) /\ Len(joined) = Len(lines)
    BY <2>4, ReplaceType
  <2>6. joined = [lines EXCEPT ![i + 1].id = before \o @]
    BY <2>2
  <2> HIDE DEF joined
  <2> QED BY <1>1, <2>5, <2>6
<1> QED BY <1>1, <1>3, <1>4, ReplaceType

\* An edit turns lines into lines.
LEMMA EditedType ==
  ASSUME NEW lines \in Seq(Line), NEW edit \in Edit
  PROVE  Edited(lines, edit) \in Seq(Line)
<1> DEFINE line == edit.line
<1>1. line.id \in Seq(Names) /\ line \in Line
  BY DEF Edit, Line
<1> HIDE DEF line
<1>2. merge_line(lines, line) \in Seq(Line)
  <2>1. Append(lines, line) \in Seq(Line)
    BY <1>1
  <2> QED BY <1>1, <2>1, ReplaceType DEF merge_line
<1>3. remove_line(lines, line) \in Seq(Line)
  <2> DEFINE places == {i \in DOMAIN lines : /\ lines[i].rest = line.rest
                                             /\ IsSuffix(line.id, lines[i].id)}
             i == Min(places)
             before == SubSeq(lines[i].id, 1, Len(lines[i].id) - Len(line.id))
  <2>1. places \subseteq 1 .. Len(lines) /\ places \subseteq Nat
    OBVIOUS
  <2>2. CASE places = {}
    BY <2>2 DEF remove_line
  <2>3. CASE places # {}
    <3>1. i \in 1 .. Len(lines)
      BY <2>1, <2>3, FirstPlace
    <3>2. /\ RemoveAt(lines, i) \in Seq(Line)
          /\ [lines EXCEPT ![i] = [id |-> before, rest |-> NoRest]] \in Seq(Line)
          /\ i # Len(lines) =>
               RemoveAt([lines EXCEPT ![i + 1].id = before \o @], i) \in Seq(Line)
      BY <1>1, <3>1, CutType
    <3>3. remove_line(lines, line) \in
            {RemoveAt(lines, i),
             [lines EXCEPT ![i] = [id |-> before, rest |-> NoRest]],
             RemoveAt([lines EXCEPT ![i + 1].id = before \o @], i)}
      BY <2>3 DEF remove_line
    <3>4. i = Len(lines) =>
            remove_line(lines, line) \in
              {RemoveAt(lines, i),
               [lines EXCEPT ![i] = [id |-> before, rest |-> NoRest]]}
      BY <2>3 DEF remove_line
    <3> HIDE DEF places, i, before
    <3> QED BY <3>2, <3>3, <3>4
  <2> QED BY <2>2, <2>3
<1> QED BY <1>2, <1>3 DEF Edited, line

-----------------------------------------------------------------------------

\* The types and the places together are inductive.
Inv == TypeOK /\ Places

\* The invariant holds at the start.
LEMMA InitInv == Init => Inv
<1> SUFFICES ASSUME Init
             PROVE  Inv
  OBVIOUS
<1>1. scenario \in Scenario
  BY ScenariosAssumption DEF Init
<1>2. TypeOK
  BY <1>1 DEF Init, TypeOK, Scenario
<1>3. Places
  BY DEF Init, Places
<1> QED BY <1>2, <1>3 DEF Inv

\* Reporting an edit and going on to the next keeps the types.
LEMMA NextEditType ==
  ASSUME TypeOK, NEW p \in Procs, todo[p] # <<>>
  PROVE  /\ Head(todo[p]) \in Edit
         /\ [todo EXCEPT ![p] = Tail(@)] \in [Procs -> Seq(Edit)]
         /\ [errs EXCEPT ![p] = Append(@, Head(todo[p]))] \in [Procs -> Seq(Edit)]
<1>1. todo[p] \in Seq(Edit) /\ errs[p] \in Seq(Edit)
  BY DEF TypeOK
<1>2. Head(todo[p]) \in Edit /\ Tail(todo[p]) \in Seq(Edit)
  BY <1>1
<1>3. Append(errs[p], Head(todo[p])) \in Seq(Edit)
  BY <1>1, <1>2
<1> QED BY <1>2, <1>3 DEF TypeOK

\* What a write leaves in the file are lines.
LEMMA OverlayType ==
  ASSUME TypeOK
  PROVE  \A lines \in Seq(Line) : Overlay(lines) \in Seq(Line)
<1> SUFFICES ASSUME NEW lines \in Seq(Line)
             PROVE  Overlay(lines) \in Seq(Line)
  OBVIOUS
<1>1. file \in Seq(Line) /\ Len(lines) \in Nat
  BY DEF TypeOK
<1>2. SubSeq(file, Len(lines) + 1, Len(file)) \in Seq(Line)
  BY <1>1
<1> QED BY <1>2 DEF Overlay

\* A step keeps the types of what the lock is made of.
LEMMA NextType ==
  ASSUME Inv, [Next]_vars
  PROVE  TypeOK'
<1> USE DEF Inv
<1>1. ASSUME NEW p \in Procs, Reject(p)
      PROVE  TypeOK'
  BY <1>1, NextEditType DEF Reject, Reported, Done, TypeOK, locks
<1>2. ASSUME NEW p \in Procs, Open(p)
      PROVE  TypeOK'
  <2>1. CASE path # 0 /\ fd' = [fd EXCEPT ![p] = path] /\ Goto(p, "lock")
             /\ UNCHANGED <<path, inodes>>
    BY <1>2, <2>1 DEF Open, Goto, TypeOK
  <2>2. CASE /\ path = 0 /\ inodes' = inodes + 1 /\ path' = inodes'
             /\ fd' = [fd EXCEPT ![p] = inodes'] /\ Goto(p, "lock")
    <3>1. inodes' \in Nat /\ path' \in 0 .. inodes'
      BY <2>2 DEF TypeOK
    <3>2. 0 .. inodes \subseteq 0 .. inodes'
      BY <2>2 DEF TypeOK
    <3>3. fd' \in [Procs -> 0 .. inodes']
      BY <2>2, <3>1, <3>2 DEF TypeOK
    <3> QED BY <1>2, <2>2, <3>1, <3>3 DEF Open, Goto, TypeOK
  <2>3. CASE Goto(p, "read") /\ UNCHANGED <<fd, path, inodes>>
    BY <1>2, <2>3 DEF Open, Goto, TypeOK
  <2> QED BY <1>2, <2>1, <2>2, <2>3 DEF Open
<1>3. ASSUME NEW p \in Procs, Lock(p)
      PROVE  TypeOK'
  BY <1>3 DEF Lock, Goto, TypeOK
<1>4. ASSUME NEW p \in Procs, Read(p)
      PROVE  TypeOK'
  <2>1. todo[p] # <<>>
    BY <1>4 DEF Read, Places
  <2>2. Left(p) \in {"next", "unlock"}
    BY DEF Left
  <2>3. todo' \in [Procs -> Seq(Edit)] /\ errs' \in [Procs -> Seq(Edit)]
    BY <1>4, <2>1, NextEditType DEF Read, Done, Reported, TypeOK
  <2>4. seen' \in [Procs -> Seq(Line)]
    BY <1>4 DEF Read, TypeOK
  <2> QED BY <1>4, <2>2, <2>3, <2>4 DEF Read, Goto, TypeOK, locks
<1>5. ASSUME NEW p \in Procs, Truncate(p)
      PROVE  TypeOK'
  BY <1>5 DEF Truncate, Goto, TypeOK, locks
<1>6. ASSUME NEW p \in Procs, Write(p)
      PROVE  TypeOK'
  <2>1. todo[p] # <<>>
    BY <1>6 DEF Write, Places
  <2>2. Left(p) \in {"next", "unlock"}
    BY DEF Left
  <2>3. todo' \in [Procs -> Seq(Edit)] /\ errs' \in [Procs -> Seq(Edit)]
    BY <1>6, <2>1, NextEditType DEF Write, Done, Reported, TypeOK
  <2>4. NewLines(p) \in Seq(Line)
    BY <2>1, NextEditType, EditedType DEF NewLines, TypeOK
  <2>5. \A n \in 0 .. Len(NewLines(p)) - 1 : SubSeq(NewLines(p), 1, n) \in Seq(Line)
    BY <2>4
  <2>6. file' \in Seq(Line)
    BY <1>6, <2>4, <2>5, OverlayType DEF Write
  <2> QED BY <1>6, <2>2, <2>3, <2>6 DEF Write, Goto, TypeOK, locks
<1>7. ASSUME NEW p \in Procs, Unlock(p)
      PROVE  TypeOK'
  BY <1>7 DEF Unlock, Goto, TypeOK
<1>8. ASSUME NEW p \in Procs, Unlink(p)
      PROVE  TypeOK'
  BY <1>8 DEF Unlink, Goto, TypeOK
<1>9. ASSUME NEW p \in Procs, Crash(p)
      PROVE  TypeOK'
  BY <1>9 DEF Crash, Goto, TypeOK
<1>10. CASE UNCHANGED vars
  BY <1>10 DEF vars, locks, TypeOK
<1> QED
  BY <1>1, <1>2, <1>3, <1>4, <1>5, <1>6, <1>7, <1>8, <1>9, <1>10 DEF Next, Step

\* A step keeps somebody around who will unlink the lock file.
LEMMA NextPlaces ==
  ASSUME Inv, [Next]_vars
  PROVE  Places'
<1> USE DEF Inv
<1>1. ASSUME NEW p \in Procs, Reject(p)
      PROVE  Places'
  BY <1>1 DEF Reject, Done, TypeOK, Places, locks
<1>2. ASSUME NEW p \in Procs, Open(p)
      PROVE  Places'
  <2>1. "crash" \notin scenario.faults /\ path # 0 =>
          \E q \in Procs : fd'[q] = path
    BY <1>2 DEF Open, TypeOK, Places
  <2>2. path' = path \/ fd'[p] = path'
    BY <1>2 DEF Open, TypeOK
  <2> QED BY <1>2, <2>1, <2>2 DEF Open, Goto, TypeOK, Places
<1>3. ASSUME NEW p \in Procs, Lock(p)
      PROVE  Places'
  BY <1>3 DEF Lock, Goto, TypeOK, Places
<1>4. ASSUME NEW p \in Procs, Read(p)
      PROVE  Places'
  BY <1>4 DEF Read, Done, Left, Goto, TypeOK, Places, locks
<1>5. ASSUME NEW p \in Procs, Truncate(p)
      PROVE  Places'
  BY <1>5 DEF Truncate, Goto, TypeOK, Places, locks
<1>6. ASSUME NEW p \in Procs, Write(p)
      PROVE  Places'
  BY <1>6 DEF Write, Done, Left, Goto, TypeOK, Places, locks
<1>7. ASSUME NEW p \in Procs, Unlock(p)
      PROVE  Places'
  BY <1>7 DEF Unlock, Goto, TypeOK, Places
<1>8. ASSUME NEW p \in Procs, Unlink(p)
      PROVE  Places'
  BY <1>8 DEF Unlink, Goto, TypeOK, Places
<1>9. ASSUME NEW p \in Procs, Crash(p)
      PROVE  Places'
  BY <1>9 DEF Crash, Goto, TypeOK, Places
<1>10. CASE UNCHANGED vars
  BY <1>10 DEF vars, locks, Places
<1> QED
  BY <1>1, <1>2, <1>3, <1>4, <1>5, <1>6, <1>7, <1>8, <1>9, <1>10 DEF Next, Step

\* Every step keeps it.
LEMMA NextInv == Inv /\ [Next]_vars => Inv'
BY NextType, NextPlaces DEF Inv

\* The variables keep their types in every behaviour of the editors.
THEOREM EditorsTypeCorrect == Spec => []TypeOK
<1>1. Inv => TypeOK
  BY DEF Inv
<1> QED BY InitInv, NextInv, <1>1, PTL DEF Spec

\* Unless one of them dies, the last editor to leave unlinks the lock file,
\* however many there are and however they overtake each other.
THEOREM LockFileGone == Spec => []LockFileCleanedUp
<1>1. Inv => LockFileCleanedUp
  BY DEF Inv, TypeOK, Places, LockFileCleanedUp, Quiet
<1> QED BY InitInv, NextInv, <1>1, PTL DEF Spec

-----------------------------------------------------------------------------

(***************************************************************************)
(* The lock serves its purpose while the edits are few: either one process *)
(* makes them all, or two make one each and can open and lock the lock     *)
(* file.  EntityLockSeveral shows that two edits each are too many.        *)
(***************************************************************************)
AloneWith(p) == \A q \in Procs \ {p} : scenario.todo[q] = <<>>

TwoInAll ==
  /\ \E p, q \in Procs : \A r \in Procs \ {p, q} : scenario.todo[r] = <<>>
  /\ \A p \in Procs : Len(scenario.todo[p]) <= 1
  /\ scenario.faults \cap {"open", "flock"} = {}

FewEdits == (\E p \in Procs : AloneWith(p)) \/ TwoInAll

\* A process without edits stays where it is.
Idle(p) == todo[p] = <<>> /\ pc[p] = "next"

Idlers == \A p \in Procs : scenario.todo[p] = <<>> => Idle(p)

\* Of two editors, each holds the lock while it edits, no inode is held
\* twice, and a lock file that the path no longer leads to is left to the
\* one that still has it open: the other is through.
Turns ==
  /\ \A p \in Procs :
       /\ Len(todo[p]) <= 1
       /\ pc[p] \in {"unlock", "remove"} => todo[p] = <<>>
       /\ p \in guard <=> Editing(p) \/ pc[p] = "unlock"
       /\ pc[p] # "next" => fd[p] # 0
  /\ \A p, q \in guard : fd[p] = fd[q] => p = q
  /\ \A p, q \in Procs : p # q /\ fd[p] # 0 /\ path # fd[p] => Idle(q)

\* What an editor has read is what the file holds, or held when it was
\* emptied.
Reading ==
  \A p \in Procs :
    /\ pc[p] \in {"truncate", "write"} => Valid(Head(todo[p]))
    /\ pc[p] = "truncate" => file = seen[p]
    /\ pc[p] = "write" => file = <<>>

FewInv == FewEdits /\ Inv /\ Idlers /\ (TwoInAll => Turns) /\ Reading

\* Nobody changes the scenario.
LEMMA SameScenario ==
  ASSUME [Next]_vars
  PROVE  scenario' = scenario
BY DEF Next, Step, vars, Reject, Open, Lock, Read, Truncate, Write, Unlock, Unlink, Crash

\* What a process does leaves the others where they are.
LEMMA OthersStay ==
  ASSUME Inv, NEW p \in Procs, Step(p) \/ Crash(p), NEW q \in Procs, q # p
  PROVE  /\ todo'[q] = todo[q] /\ pc'[q] = pc[q] /\ fd'[q] = fd[q] /\ seen'[q] = seen[q]
         /\ q \in guard' <=> q \in guard
<1> USE DEF Inv, TypeOK
<1>1. CASE Reject(p)
  BY <1>1 DEF Reject, Done, locks
<1>2. CASE Open(p)
  BY <1>2 DEF Open, Goto
<1>3. CASE Lock(p)
  BY <1>3 DEF Lock, Goto
<1>4. CASE Read(p)
  BY <1>4 DEF Read, Done, Goto, locks
<1>5. CASE Truncate(p)
  BY <1>5 DEF Truncate, Goto, locks
<1>6. CASE Write(p)
  BY <1>6 DEF Write, Done, Goto, locks
<1>7. CASE Unlock(p)
  BY <1>7 DEF Unlock, Goto
<1>8. CASE Unlink(p)
  BY <1>8 DEF Unlink, Goto
<1>9. CASE Crash(p)
  BY <1>9 DEF Crash, Goto
<1> QED BY <1>1, <1>2, <1>3, <1>4, <1>5, <1>6, <1>7, <1>8, <1>9 DEF Step

\* A process with an edit to make or a lock to give back had edits.
LEMMA ActorHadEdits ==
  ASSUME FewInv, NEW p \in Procs, Step(p) \/ Crash(p)
  PROVE  scenario.todo[p] # <<>>
<1>1. ~ Idle(p)
  BY DEF Idle, Step, Reject, Open, Lock, Read, Truncate, Write, Unlock, Unlink, Crash
<1> QED BY <1>1 DEF FewInv, Idlers

\* Two processes that have something to do are all that have.
LEMMA OnlyTwo ==
  ASSUME TwoInAll, Idlers, NEW p \in Procs, NEW q \in Procs, p # q, ~ Idle(p), ~ Idle(q)
  PROVE  \A r \in Procs \ {p, q} : Idle(r)
BY DEF TwoInAll, Idlers

\* A few editors edit one at a time.
LEMMA FewEditAlone == FewInv => OneEditor
<1> SUFFICES ASSUME FewInv, NEW p \in Procs, NEW q \in Procs, Editing(p), Editing(q), p # q
             PROVE  FALSE
  BY DEF OneEditor
<1>1. ~ Idle(p) /\ ~ Idle(q)
  BY DEF Idle, Editing
<1>2. scenario.todo[p] # <<>> /\ scenario.todo[q] # <<>>
  BY <1>1 DEF FewInv, Idlers
<1>3. TwoInAll /\ Turns
  BY <1>2 DEF FewInv, FewEdits, AloneWith
<1>4. p \in guard /\ q \in guard /\ fd[p] # 0 /\ fd[q] # 0
  BY <1>3 DEF Turns, Editing
<1>5. fd[p] = path /\ fd[q] = path
  BY <1>1, <1>3, <1>4 DEF Turns
<1> QED BY <1>3, <1>4, <1>5 DEF Turns

\* Processes without edits stay idle.
LEMMA NextIdlers ==
  ASSUME FewInv, [Next]_vars
  PROVE  Idlers'
<1>1. ASSUME NEW p \in Procs, Step(p) \/ Crash(p), NEW q \in Procs, scenario.todo[q] = <<>>
      PROVE  Idle(q)'
  <2>1. q # p
    BY <1>1, ActorHadEdits
  <2> QED BY <1>1, <2>1, OthersStay DEF FewInv, Idlers, Idle
<1>2. CASE UNCHANGED vars
  BY <1>2 DEF FewInv, vars, Idlers, Idle
<1> QED BY <1>1, <1>2, SameScenario DEF Next, Idlers

\* Two editors with an edit each keep taking turns.
LEMMA NextTurns ==
  ASSUME FewInv, [Next]_vars, TwoInAll
  PROVE  Turns'
<1> USE DEF Editing, Goto
<1>0. TypeOK /\ Places /\ Idlers /\ Turns /\ Reading
  BY DEF FewInv, Inv
<1>1. ASSUME NEW p \in Procs, Reject(p)
      PROVE  Turns'
  <2>1. todo[p] \in Seq(Edit) /\ Len(todo[p]) <= 1
    BY <1>0 DEF TypeOK, Turns
  <2>2. todo' = [todo EXCEPT ![p] = <<>>]
    <3>1. Tail(todo[p]) = <<>>
      BY <1>1, <2>1 DEF Reject
    <3> QED BY <1>0, <1>1, <3>1 DEF Reject, Done, TypeOK
  <2>3. Len(<<>>) <= 1
    OBVIOUS
  <2> QED BY <1>0, <1>1, <2>2, <2>3 DEF Reject, Turns, Idle, TypeOK, locks
<1>2. ASSUME NEW p \in Procs, Open(p)
      PROVE  Turns'
  <2>1. "open" \notin scenario.faults /\ todo[p] # <<>> /\ pc[p] = "next" /\ ~ Idle(p)
    BY <1>2 DEF TwoInAll, Open, Idle
  <2>2. fd[p] = 0 /\ p \notin guard
    BY <1>0, <2>1 DEF Places, Turns
  <2>3. \A q \in Procs : q # p /\ fd[q] # 0 => path = fd[q]
    BY <1>0, <2>1 DEF Turns
  <2>4. fd' = [fd EXCEPT ![p] = path'] /\ path' # 0
    BY <1>0, <1>2, <2>1 DEF Open, TypeOK
  <2>5. path # 0 => path' = path
    BY <1>2, <2>1 DEF Open
  <2>6. UNCHANGED <<todo, guard>> /\ pc' = [pc EXCEPT ![p] = "lock"]
    BY <1>2, <2>1 DEF Open
  <2>7. \A q, r \in Procs : q # r /\ fd'[q] # 0 /\ path' # fd'[q] => Idle(r)'
    BY <1>0, <2>3, <2>4, <2>5 DEF TypeOK
  <2>8. /\ \A q \in Procs :
             /\ Len(todo'[q]) <= 1
             /\ pc'[q] \in {"unlock", "remove"} => todo'[q] = <<>>
             /\ q \in guard' <=> Editing(q)' \/ pc'[q] = "unlock"
             /\ pc'[q] # "next" => fd'[q] # 0
        /\ \A q, r \in guard' : fd'[q] = fd'[r] => q = r
    BY <1>0, <2>1, <2>2, <2>4, <2>6 DEF Turns, TypeOK
  <2> QED BY <2>7, <2>8 DEF Turns
<1>3. ASSUME NEW p \in Procs, Lock(p)
      PROVE  Turns'
  <2>1. (\A q \in guard : fd[q] # fd[p]) /\ guard' = guard \cup {p}
    BY <1>3 DEF Lock, TwoInAll
  <2> QED BY <1>0, <1>3, <2>1 DEF Lock, Turns, Idle, TypeOK
<1>4. ASSUME NEW p \in Procs, Read(p)
      PROVE  Turns'
  <2>1. CASE UNCHANGED todo /\ Goto(p, "truncate")
    BY <1>0, <1>4, <2>1 DEF Read, Turns, Idle, TypeOK, locks
  <2>2. CASE Done(p) /\ Goto(p, Left(p))
    <3>1. todo[p] \in Seq(Edit) /\ Len(todo[p]) <= 1 /\ todo[p] # <<>>
      BY <1>0, <1>4 DEF TypeOK, Turns, Places, Read
    <3>2. Tail(todo[p]) = <<>>
      BY <3>1
    <3>3. todo' = [todo EXCEPT ![p] = <<>>]
      BY <1>0, <2>2, <3>2 DEF Done, TypeOK
    <3>4. Left(p) = "unlock"
      BY <1>0, <1>4 DEF Left, Read, Turns
    <3>5. Len(<<>>) <= 1
      OBVIOUS
    <3> QED BY <1>0, <1>4, <2>2, <3>3, <3>4, <3>5 DEF Read, Turns, Idle, TypeOK, locks
  <2> QED BY <1>4, <2>1, <2>2 DEF Read
<1>5. ASSUME NEW p \in Procs, Truncate(p)
      PROVE  Turns'
  BY <1>0, <1>5 DEF Truncate, Turns, Idle, TypeOK, locks
<1>6. ASSUME NEW p \in Procs, Write(p)
      PROVE  Turns'
  <2>1. todo[p] \in Seq(Edit) /\ Len(todo[p]) <= 1 /\ todo[p] # <<>>
    BY <1>0, <1>6 DEF TypeOK, Turns, Places, Write
  <2>2. Tail(todo[p]) = <<>>
    BY <2>1
  <2>3. todo' = [todo EXCEPT ![p] = <<>>]
    BY <1>0, <1>6, <2>2 DEF Write, Done, TypeOK
  <2>4. Left(p) = "unlock"
    BY <1>0, <1>6 DEF Left, Write, Turns
  <2>5. Len(<<>>) <= 1
    OBVIOUS
  <2> QED BY <1>0, <1>6, <2>3, <2>4, <2>5 DEF Write, Turns, Idle, TypeOK, locks
<1>7. ASSUME NEW p \in Procs, Unlock(p)
      PROVE  Turns'
  BY <1>0, <1>7 DEF Unlock, Turns, Idle, TypeOK
<1>8. ASSUME NEW p \in Procs, Unlink(p)
      PROVE  Turns'
  <2>1. Idle(p)' /\ ~ Idle(p) /\ p \notin guard
    BY <1>0, <1>8 DEF Unlink, Turns, Idle, TypeOK
  <2>2. ASSUME NEW q \in Procs, NEW r \in Procs, q # r, fd'[q] # 0
        PROVE  Idle(r)'
    <3>1. q # p /\ ~ Idle(q)
      BY <1>0, <1>8, <2>2 DEF Unlink, Places, Idle, TypeOK
    <3>2. r # p => Idle(r)
      BY <1>0, <2>1, <2>2, <3>1, OnlyTwo
    <3>3. r # p => Idle(r)'
      BY <1>0, <1>8, <3>2 DEF Unlink, Idle, TypeOK
    <3> QED BY <2>1, <3>3
  <2> QED BY <1>0, <1>8, <2>1, <2>2 DEF Unlink, Turns, Idle, TypeOK
<1>9. ASSUME NEW p \in Procs, Crash(p)
      PROVE  Turns'
  <2>1. Len(<<>>) <= 1
    OBVIOUS
  <2> QED BY <1>0, <1>9, <2>1 DEF Crash, Turns, Idle, TypeOK
<1>10. CASE UNCHANGED vars
  BY <1>0, <1>10 DEF vars, locks, Turns, Idle
<1> QED
  BY <1>1, <1>2, <1>3, <1>4, <1>5, <1>6, <1>7, <1>8, <1>9, <1>10 DEF Next, Step

\* What an editor has read stays what the file held.
LEMMA NextReading ==
  ASSUME FewInv, [Next]_vars
  PROVE  Reading'
<1>0. TypeOK /\ Places /\ Reading /\ OneEditor
  BY FewEditAlone DEF FewInv, Inv
<1>1. ASSUME NEW p \in Procs, Step(p) \/ Crash(p), NEW q \in Procs, q # p
      PROVE  /\ pc'[q] \in {"truncate", "write"} => Valid(Head(todo'[q]))
             /\ pc'[q] = "truncate" => file' = seen'[q]
             /\ pc'[q] = "write" => file' = <<>>
  <2>1. todo'[q] = todo[q] /\ pc'[q] = pc[q] /\ seen'[q] = seen[q]
    BY <1>1, OthersStay DEF FewInv
  <2>2. Editing(q) => file' = file
    <3>1. ~ Editing(p) => file' = file
      BY <1>1 DEF Editing, Step, Reject, Open, Lock, Read, Truncate, Write, Unlock, Unlink, Crash
    <3> QED BY <1>0, <1>1, <3>1 DEF OneEditor
  <2> QED BY <1>0, <2>1, <2>2 DEF Reading, Editing
<1>2. ASSUME NEW p \in Procs, Step(p) \/ Crash(p)
      PROVE  /\ pc'[p] \in {"truncate", "write"} => Valid(Head(todo'[p]))
             /\ pc'[p] = "truncate" => file' = seen'[p]
             /\ pc'[p] = "write" => file' = <<>>
  <2>1. CASE Read(p)
    BY <1>0, <2>1 DEF Read, Goto, Left, TypeOK
  <2>2. CASE Truncate(p)
    BY <1>0, <2>2 DEF Truncate, Goto, TypeOK, Reading
  <2>3. CASE ~ Read(p) /\ ~ Truncate(p)
    <3>1. pc'[p] \notin {"truncate", "write"}
      BY <1>0, <1>2, <2>3 DEF Goto, Left, TypeOK,
                              Step, Reject, Open, Lock, Write, Unlock, Unlink, Crash
    <3> QED BY <3>1
  <2> QED BY <2>1, <2>2, <2>3
<1>3. CASE UNCHANGED vars
  BY <1>0, <1>3 DEF vars, Reading
<1> QED BY <1>1, <1>2, <1>3 DEF Next, Reading

\* Few edits take turns from the start to the end.
LEMMA FewInvariant == Spec /\ FewEdits => []FewInv
<1>1. Init /\ FewEdits => FewInv
  <2> SUFFICES ASSUME Init, FewEdits
               PROVE  FewInv
    OBVIOUS
  <2>1. Inv
    BY InitInv
  <2>2. TwoInAll => Turns
    BY DEF Init, Turns, TwoInAll, Editing
  <2>3. Idlers /\ Reading
    BY DEF Init, Idlers, Idle, Reading
  <2> QED BY <2>1, <2>2, <2>3 DEF FewInv
<1>2. FewInv /\ [Next]_vars => FewInv'
  <2> SUFFICES ASSUME FewInv, [Next]_vars
               PROVE  FewInv'
    OBVIOUS
  <2>1. FewEdits' /\ (TwoInAll' <=> TwoInAll)
    BY SameScenario DEF FewInv, FewEdits, AloneWith, TwoInAll
  <2>2. Inv'
    BY NextInv DEF FewInv
  <2> QED BY <2>1, <2>2, NextIdlers, NextTurns, NextReading DEF FewInv
<1> QED BY <1>1, <1>2, PTL DEF Spec

\* The edits do not overlap when one process makes them all, whatever
\* fails, or two make one each and get the lock file, whatever else fails
\* and wherever they die.
THEOREM FewEditInTurn == Spec /\ FewEdits => []OneEditor
BY FewInvariant, FewEditAlone, PTL

-----------------------------------------------------------------------------

(***************************************************************************)
(* A few edits are as good as atomic.  The file is taken to hold, while an *)
(* editor rewrites it, what that editor has read; an edit is made by the   *)
(* step that writes, fails or dies, and every other step is unnoticed.     *)
(***************************************************************************)
Contents == IF \E p \in Procs : pc[p] = "write"
            THEN seen[CHOOSE p \in Procs : pc[p] = "write"] ELSE file

\* The edits of the two specifications are the same.
LEMMA SameEdit ==
  /\ Edits!Line = Line /\ Edits!Edit = Edit
  /\ \A edit : Edits!Valid(edit) = Valid(edit)
  /\ \A lines, edit : Edits!Edited(lines, edit) = Edited(lines, edit)
<1>1. \A lines, line : Edits!merge_line(lines, line) = merge_line(lines, line)
  BY DEF Edits!merge_line, merge_line, Edits!Min, Min
<1>2. \A lines, line : Edits!remove_line(lines, line) = remove_line(lines, line)
  BY DEF Edits!remove_line, remove_line, Edits!Min, Min, Edits!RemoveAt, RemoveAt,
         Edits!IsSuffix, IsSuffix, Edits!IsPrefix, IsPrefix, Edits!Reverse, Reverse
<1> QED BY <1>1, <1>2 DEF Edits!Line, Line, Edits!Edit, Edit, Edits!Valid, Valid,
                          Edits!Edited, Edited

\* What the file is taken to hold.
LEMMA ContentsAre ==
  ASSUME OneEditor
  PROVE  /\ \A p \in Procs : pc[p] = "write" => Contents = seen[p]
         /\ (\A p \in Procs : pc[p] # "write") => Contents = file
<1>1. ASSUME NEW p \in Procs, pc[p] = "write"
      PROVE  Contents = seen[p]
  <2>1. \A q \in Procs : pc[q] = "write" => q = p
    BY <1>1 DEF OneEditor, Editing
  <2>2. (CHOOSE q \in Procs : pc[q] = "write") = p
    BY <1>1, <2>1
  <2> QED BY <1>1, <2>2 DEF Contents
<1> QED BY <1>1 DEF Contents

\* While a process edits, nobody else writes.
LEMMA ContentsOf ==
  ASSUME OneEditor, NEW p \in Procs, Editing(p)
  PROVE  Contents = IF pc[p] = "write" THEN seen[p] ELSE file
<1>1. \A q \in Procs : pc[q] = "write" => q = p
  BY DEF OneEditor, Editing
<1> QED BY <1>1, ContentsAre

\* A step of a process that does not edit is not noticed in the file.
LEMMA ContentsStay ==
  ASSUME FewInv, OneEditor, OneEditor', NEW p \in Procs, Step(p) \/ Crash(p), ~ Editing(p)
  PROVE  Contents' = Contents
<1>2. file' = file /\ pc'[p] # "write"
  BY DEF FewInv, Inv, TypeOK, Editing, Goto, locks,
         Step, Reject, Open, Lock, Read, Truncate, Write, Unlock, Unlink, Crash
<1>3. \A q \in Procs : (pc'[q] = "write" <=> pc[q] = "write")
                       /\ (pc[q] = "write" => seen'[q] = seen[q])
  BY <1>2, OthersStay DEF FewInv, Editing
<1>4. CASE \E q \in Procs : pc[q] = "write"
  <2>1. PICK q \in Procs : pc[q] = "write"
    BY <1>4
  <2>2. Contents = seen[q]
    BY <2>1, ContentsAre
  <2>3. Contents' = seen'[q]
    <3>1. \A r \in Procs : pc'[r] = "write" => r = q
      BY <1>3, <2>1 DEF OneEditor, Editing
    <3>2. pc'[q] = "write" /\ (CHOOSE r \in Procs : pc'[r] = "write") = q
      BY <1>3, <2>1, <3>1
    <3> QED BY <3>2 DEF Contents
  <2> QED BY <1>3, <2>1, <2>2, <2>3
<1>5. CASE \A q \in Procs : pc[q] # "write"
  BY <1>2, <1>3, <1>5 DEF Contents
<1> QED BY <1>4, <1>5

\* A step of an editor reads, empties or writes the file, or dies over it.
LEMMA EditorStep ==
  ASSUME FewInv, OneEditor, OneEditor', NEW p \in Procs, Step(p) \/ Crash(p), Editing(p)
  PROVE  \/ UNCHANGED <<Contents, todo, errs>>
         \/ Edits!Apply(p) \/ Edits!Fail(p) \/ Edits!Die(p)
<1> DEFINE lines == NewLines(p)
<1>0. /\ TypeOK /\ Places /\ Reading
      /\ todo[p] # <<>> /\ todo[p] \in Seq(Edit)
  BY DEF FewInv, Inv, Places, Editing, TypeOK
<1>1. Contents = IF pc[p] = "write" THEN seen[p] ELSE file
  BY ContentsOf
<1>2. Contents' = IF pc'[p] = "write" THEN seen'[p] ELSE file'
  <2>1. \A q \in Procs : q # p => pc'[q] # "write"
    BY OthersStay DEF FewInv, OneEditor, Editing
  <2>2. pc'[p] = "write" => (CHOOSE q \in Procs : pc'[q] = "write") = p
    BY <2>1
  <2> QED BY <2>1, <2>2 DEF Contents
<1>3. /\ Valid(Head(todo[p])) => Edits!Valid(Head(todo[p]))
      /\ Edits!Edited(seen[p], Head(todo[p])) = lines
  BY SameEdit DEF NewLines
<1>4. lines \in Seq(Line)
  BY <1>0, NextEditType, EditedType DEF NewLines, TypeOK
<1>5. pc[p] = "write" => /\ Valid(Head(todo[p])) /\ file = <<>>
                         /\ \A part \in Seq(Line) : Overlay(part) = part
  <2>1. \A part \in Seq(Line) : SubSeq(<<>>, Len(part) + 1, 0) = <<>> /\ part \o <<>> = part
    OBVIOUS
  <2> QED BY <1>0, <2>1 DEF Reading, Overlay
<1>6. SubSeq(lines, 1, 0) = <<>> /\ Len(lines) \in Nat
  BY <1>4
<1> HIDE DEF lines
<1>7. CASE Read(p)
  <2>1. CASE Goto(p, "truncate") /\ UNCHANGED <<todo, errs>>
    BY <1>0, <1>1, <1>2, <1>7, <2>1 DEF Read, Goto, TypeOK
  <2>2. CASE Reported(p) /\ Done(p) /\ Goto(p, Left(p)) /\ UNCHANGED seen
    <3>1. UNCHANGED Contents
      BY <1>0, <1>1, <1>2, <1>7, <2>2 DEF Read, Goto, Left, TypeOK
    <3> QED BY <1>0, <2>2, <3>1 DEF Edits!Fail, Reported, Done, Contents
  <2> QED BY <1>7, <2>1, <2>2 DEF Read
<1>8. CASE Truncate(p)
  BY <1>0, <1>1, <1>2, <1>8 DEF Truncate, Goto, Reading, TypeOK
<1>9. CASE Write(p)
  <2>1. Contents = seen[p] /\ Contents' = file'
    BY <1>0, <1>1, <1>2, <1>9 DEF Write, Goto, Left, TypeOK
  <2>2. CASE file' = Overlay(NewLines(p)) /\ UNCHANGED errs
    <3>1. Contents' = Edits!Edited(Contents, Head(todo[p]))
      BY <1>3, <1>4, <1>5, <1>9, <2>1, <2>2 DEF Write, lines
    <3> QED BY <1>0, <1>3, <1>5, <1>9, <2>2, <3>1 DEF Edits!Apply, Write, Done, Contents
  <2>3. CASE /\ \E n \in 0 .. Len(NewLines(p)) - 1 : file' = Overlay(SubSeq(NewLines(p), 1, n))
             /\ Reported(p)
    <3>1. PICK n \in 0 .. Len(lines) - 1 : file' = Overlay(SubSeq(lines, 1, n))
      BY <2>3 DEF lines
    <3>2. SubSeq(lines, 1, n) \in Seq(Line) /\ n \in 0 .. Len(lines)
      BY <1>4, <3>1
    <3>3. Contents' = SubSeq(lines, 1, n)
      BY <1>5, <1>9, <2>1, <3>1, <3>2 DEF Write
    <3>4. Contents' \in Edits!Torn(p)
      BY <1>3, <2>1, <3>2, <3>3 DEF Edits!Torn, Contents
    <3> QED BY <1>0, <1>3, <1>5, <1>9, <2>3, <3>4 DEF Edits!Fail, Write, Done, Reported, Contents
  <2> QED BY <1>9, <2>2, <2>3 DEF Write
<1>10. CASE Crash(p)
  <2>1. Contents' = file
    BY <1>0, <1>2, <1>10 DEF Crash, Goto, TypeOK
  <2>2. Contents' \in {Contents} \cup IF Edits!Valid(Head(todo[p])) THEN Edits!Torn(p) ELSE {}
    <3>1. CASE pc[p] = "write"
      <4>1. Contents' = SubSeq(lines, 1, 0) /\ 0 \in 0 .. Len(lines)
        BY <1>5, <1>6, <2>1, <3>1
      <4>2. Contents' \in Edits!Torn(p)
        BY <1>1, <1>3, <3>1, <4>1 DEF Edits!Torn, Contents
      <4> QED BY <1>3, <1>5, <3>1, <4>2
    <3>2. CASE pc[p] # "write"
      BY <1>1, <2>1, <3>2
    <3> QED BY <3>1, <3>2
  <2> QED BY <1>0, <1>10, <2>2 DEF Edits!Die, Crash, Contents
<1>11. ~ (Reject(p) \/ Open(p) \/ Lock(p) \/ Unlock(p) \/ Unlink(p))
  BY DEF Editing, Reject, Open, Lock, Unlock, Unlink
<1> QED BY <1>7, <1>8, <1>9, <1>10, <1>11 DEF Step

\* A step of the editors is a step of the atomic edits, or is not noticed.
LEMMA NextEdits ==
  ASSUME FewInv, OneEditor, OneEditor', [Next]_vars
  PROVE  [Edits!Next]_(Edits!vars)
<1>1. UNCHANGED <<Contents, todo, errs>> => UNCHANGED Edits!vars
  BY DEF Edits!vars, Contents
<1>2. ASSUME NEW p \in Procs, Step(p) \/ Crash(p), ~ Editing(p)
      PROVE  \/ UNCHANGED <<Contents, todo, errs>> \/ Edits!Fail(p) \/ Edits!Die(p)
  <2>1. Contents' = Contents
    BY <1>2, ContentsStay
  <2>2. CASE Reject(p)
    BY <2>1, <2>2 DEF Reject, Reported, Done, Edits!Fail, Contents
  <2>3. CASE Crash(p)
    <3>1. CASE todo[p] = <<>>
      BY <2>1, <2>3, <3>1 DEF Crash, FewInv, Inv, TypeOK
    <3>2. CASE todo[p] # <<>>
      BY <2>1, <2>3, <3>2 DEF Crash, Edits!Die, Contents
    <3> QED BY <3>1, <3>2
  <2>4. CASE Open(p) \/ Lock(p) \/ Unlock(p) \/ Unlink(p)
    BY <2>1, <2>4 DEF Open, Lock, Unlock, Unlink
  <2>5. ~ (Read(p) \/ Truncate(p) \/ Write(p))
    BY <1>2 DEF Editing, Read, Truncate, Write
  <2> QED BY <1>2, <2>2, <2>3, <2>4, <2>5 DEF Step
<1>3. CASE UNCHANGED vars
  BY <1>1, <1>3 DEF vars, Contents
<1> QED BY <1>1, <1>2, <1>3, EditorStep DEF Next, Edits!Next

\* The atomic edits as far as a step can show: EditsAtomic without its
\* fairness.
EditsInOneStep == Edits!Init /\ [][Edits!Next]_(Edits!vars)

\* Edits that are few are as good as atomic: each is made in one step, on
\* what the file holds at that step, or reported.
THEOREM FewEditsAtomic == Spec /\ FewEdits => EditsInOneStep
<1>1. Init => Edits!Init
  <2> SUFFICES ASSUME Init
               PROVE  Edits!Init
    OBVIOUS
  <2>1. TypeOK
    BY InitInv DEF Inv
  <2>2. \A p \in Procs : pc[p] # "write"
    BY DEF Init
  <2> QED BY <2>1, <2>2, SameEdit DEF Init, Edits!Init, TypeOK
<1>2. FewInv => OneEditor
  BY FewEditAlone
<1>3. FewInv /\ OneEditor /\ OneEditor' /\ [Next]_vars => [Edits!Next]_(Edits!vars)
  BY NextEdits
<1> QED BY <1>1, <1>2, <1>3, FewInvariant, PTL DEF Spec, EditsInOneStep
=============================================================================
