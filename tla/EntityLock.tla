----------------------------- MODULE EntityLock -----------------------------
(***************************************************************************)
(* Parallel executors that edit one passwd-style file through the entities *)
(* plugins: with_passwd_lock around ensure_one or delete_one.  The lock is *)
(* an flock on a sibling file that each editor opens, creating it when the *)
(* path has none, and unlinks when it is through.  A process waits on the  *)
(* inode it opened, whether or not the path still leads there.             *)
(*                                                                         *)
(* All lines have the same length: a write at the start of the file        *)
(* replaces as many lines as it writes.                                    *)
(***************************************************************************)
EXTENDS EntityFile

CONSTANTS Procs,
          Scenarios \* the edits of each process and what may go wrong

Faults == {"open", "flock", "read", "write", "crash"}

Scenario == [todo : [Procs -> Seq(Edit)], file : Seq(Line), faults : SUBSET Faults]

ASSUME ScenariosAssumption == Scenarios \subseteq Scenario

VARIABLES
  scenario, \* the scenario, which stays as it is
  todo,    \* the edits each process has left, the current one first
  errs,    \* the edits each process has to report
  pc,      \* where each process is
  fd,      \* the lock file's inode each process has opened, or 0
  guard,   \* the processes that hold the flock on their inode
  path,    \* the inode that the lock file's path leads to, or 0
  inodes,  \* the lock files created so far
  file,    \* the lines of the edited file
  seen     \* what each process has read of it

locks == <<fd, guard, path, inodes>>
vars == <<scenario, todo, errs, pc, locks, file, seen>>

NewLines(p) == Edited(seen[p], Head(todo[p]))

Done(p) == todo' = [todo EXCEPT ![p] = Tail(@)]

Reported(p) == errs' = [errs EXCEPT ![p] = Append(@, Head(todo[p]))]

\* Wrong: only an editor that held the lock unlinks the lock file.
HolderLeft(p) == IF p \in guard THEN "unlock" ELSE "next"

\* Where a process goes when its edit is made or has failed.
Left(p) == IF fd[p] = 0 THEN "next" ELSE "unlock"

Goto(p, place) == pc' = [pc EXCEPT ![p] = place]

Init ==
  /\ scenario \in Scenarios
  /\ todo = scenario.todo /\ file = scenario.file
  /\ errs = [p \in Procs |-> <<>>]
  /\ pc = [p \in Procs |-> "next"]
  /\ fd = [p \in Procs |-> 0] /\ guard = {}
  /\ path = 0 /\ inodes = 0
  /\ seen = [p \in Procs |-> <<>>]

\* A body that does not parse has no target: no lock, and an error.
Reject(p) ==
  /\ pc[p] = "next" /\ todo[p] # <<>> /\ ~ Head(todo[p]).parses
  /\ Reported(p) /\ Done(p)
  /\ UNCHANGED <<scenario, pc, locks, file, seen>>

\* Wrong: a lock file made anew is not a new inode.
RevivingOpen(p) ==
  /\ pc[p] = "next" /\ todo[p] # <<>> /\ Head(todo[p]).parses
  /\ path' = IF path = 0 THEN inodes + 1 ELSE path
  /\ fd' = [fd EXCEPT ![p] = path']
  /\ Goto(p, "lock")
  /\ UNCHANGED <<scenario, inodes, todo, errs, guard, file, seen>>

\* Without a lock file the edit is made unguarded.
Open(p) ==
  /\ pc[p] = "next" /\ todo[p] # <<>> /\ Head(todo[p]).parses
  /\ \/ /\ path # 0
        /\ fd' = [fd EXCEPT ![p] = path]
        /\ Goto(p, "lock")
        /\ UNCHANGED <<path, inodes>>
     \/ /\ path = 0
        /\ inodes' = inodes + 1 /\ path' = inodes'
        /\ fd' = [fd EXCEPT ![p] = inodes']
        /\ Goto(p, "lock")
     \/ /\ "open" \in scenario.faults
        /\ Goto(p, "read")
        /\ UNCHANGED <<fd, path, inodes>>
  /\ UNCHANGED <<scenario, todo, errs, guard, file, seen>>

\* Wrong: the lock is tried, not waited for.
TryLock(p) ==
  /\ pc[p] = "lock"
  /\ guard' = IF \A q \in guard : fd[q] # fd[p] THEN guard \cup {p} ELSE guard
  /\ Goto(p, "read")
  /\ UNCHANGED <<scenario, todo, errs, fd, path, inodes, file, seen>>

\* flock waits for the holder; when it fails the edit is made unguarded.
Lock(p) ==
  /\ pc[p] = "lock"
  /\ \/ (\A q \in guard : fd[q] # fd[p]) /\ guard' = guard \cup {p}
     \/ "flock" \in scenario.faults /\ UNCHANGED guard
  /\ Goto(p, "read")
  /\ UNCHANGED <<scenario, todo, errs, fd, path, inodes, file, seen>>

\* ensure_one and delete_one up to the write.
Read(p) ==
  /\ pc[p] = "read"
  /\ \/ /\ Valid(Head(todo[p]))
        /\ seen' = [seen EXCEPT ![p] = file]
        /\ Goto(p, "truncate")
        /\ UNCHANGED <<todo, errs>>
     \/ /\ ~ Valid(Head(todo[p])) \/ "read" \in scenario.faults
        /\ Reported(p) /\ Done(p)
        /\ Goto(p, Left(p))
        /\ UNCHANGED seen
  /\ UNCHANGED <<scenario, locks, file>>

\* RealVfs::write empties the file, then writes it.
Truncate(p) ==
  /\ pc[p] = "truncate"
  /\ file' = <<>>
  /\ Goto(p, "write")
  /\ UNCHANGED <<scenario, todo, errs, locks, seen>>

Overlay(lines) == lines \o SubSeq(file, Len(lines) + 1, Len(file))

\* Wrong: a write that fails is taken for one that was made.
SilentWrite(p) ==
  /\ pc[p] = "write"
  /\ Done(p)
  /\ \/ /\ file' = Overlay(NewLines(p))
        /\ UNCHANGED errs
     \/ /\ "write" \in scenario.faults
        /\ \E n \in 0 .. Len(NewLines(p)) - 1 :
             file' = Overlay(SubSeq(NewLines(p), 1, n))
        /\ UNCHANGED errs
  /\ Goto(p, Left(p))
  /\ UNCHANGED <<scenario, locks, seen>>

Write(p) ==
  /\ pc[p] = "write"
  /\ Done(p)
  /\ \/ /\ file' = Overlay(NewLines(p))
        /\ UNCHANGED errs
     \/ /\ "write" \in scenario.faults
        /\ \E n \in 0 .. Len(NewLines(p)) - 1 :
             file' = Overlay(SubSeq(NewLines(p), 1, n))
        /\ Reported(p)
  /\ Goto(p, Left(p))
  /\ UNCHANGED <<scenario, locks, seen>>

Unlock(p) ==
  /\ pc[p] = "unlock"
  /\ guard' = guard \ {p}
  /\ Goto(p, "remove")
  /\ UNCHANGED <<scenario, todo, errs, fd, path, inodes, file, seen>>

\* Unlinking succeeds whoever has the file open or locked.
Unlink(p) ==
  /\ pc[p] = "remove"
  /\ path' = 0
  /\ fd' = [fd EXCEPT ![p] = 0]
  /\ Goto(p, "next")
  /\ UNCHANGED <<scenario, todo, errs, guard, inodes, file, seen>>

\* The system closes a dead process's files and so releases its lock.
Crash(p) ==
  /\ "crash" \in scenario.faults /\ (todo[p] # <<>> \/ pc[p] # "next")
  /\ todo' = [todo EXCEPT ![p] = <<>>]
  /\ guard' = guard \ {p} /\ fd' = [fd EXCEPT ![p] = 0]
  /\ Goto(p, "next")
  /\ UNCHANGED <<scenario, errs, path, inodes, file, seen>>

Step(p) == \/ Reject(p) \/ Open(p) \/ Lock(p) \/ Read(p)
           \/ Truncate(p) \/ Write(p) \/ Unlock(p) \/ Unlink(p)

Next == \E p \in Procs : Step(p) \/ Crash(p)

\* The system runs every process.
Spec == Init /\ [][Next]_vars /\ \A p \in Procs : WF_vars(Step(p))

-----------------------------------------------------------------------------

\* The types of the variables.
TypeOK ==
  /\ scenario \in Scenarios
  /\ todo \in [Procs -> Seq(Edit)] /\ errs \in [Procs -> Seq(Edit)]
  /\ pc \in [Procs -> {"next", "lock", "read", "truncate", "write", "unlock", "remove"}]
  /\ inodes \in Nat /\ path \in 0 .. inodes
  /\ fd \in [Procs -> 0 .. inodes] /\ guard \subseteq Procs
  /\ file \in Seq(Line) /\ seen \in [Procs -> Seq(Line)]

Editing(p) == pc[p] \in {"read", "truncate", "write"}

\* Two processes never edit the file at the same time ("Serialise concurrent
\* edits").
OneEditor == \A p, q \in Procs : Editing(p) /\ Editing(q) => p = q

\* Where each process stands with its edit and with the lock file, and that
\* somebody who has the lock file open is there to unlink it: the inductive
\* part of LockFileCleanedUp.
Places ==
  /\ \A p \in Procs :
       /\ pc[p] \in {"lock", "read", "truncate", "write"} => todo[p] # <<>>
       /\ pc[p] = "next" => fd[p] = 0
  /\ "crash" \notin scenario.faults /\ path # 0 => \E p \in Procs : fd[p] = path

Quiet == \A p \in Procs : pc[p] = "next" /\ todo[p] = <<>>

\* When every process is through and none died, the path leads to no lock
\* file, however the processes overtook each other.
LockFileCleanedUp == "crash" \notin scenario.faults /\ Quiet => path = 0

\* A line that one process ensured, and that no other edit concerns, is in
\* the file when all are through ("Prevents corruption when [...] two
\* parallel yip executors race to mutate the same passwd/shadow file").
EnsuredLinesKept ==
  Quiet /\ scenario.faults = {} =>
    \A p \in Procs : \A i \in DOMAIN scenario.todo[p] :
      LET edit == scenario.todo[p][i]
      IN  /\ edit.kind = "ensure" /\ Valid(edit)
          /\ \A q \in Procs : \A j \in DOMAIN scenario.todo[q] :
               scenario.todo[q][j].line.id = edit.line.id => <<q, j>> = <<p, i>>
          => \E l \in DOMAIN file : file[l] = edit.line

Edits == INSTANCE EntityEdits WITH
  file <- IF \E p \in Procs : pc[p] = "write"
          THEN seen[CHOOSE p \in Procs : pc[p] = "write"] ELSE file

\* The edits of the processes are as good as atomic.
EditsAtomic == Edits!Spec
=============================================================================
