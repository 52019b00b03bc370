------------------------------ MODULE Accounts ------------------------------
(***************************************************************************)
(* The plugins that make accounts: `user` and, next in the chain, `ssh`,   *)
(* applied to one machine by a stage that may be run again, after an end,  *)
(* an error or a crash.  Each user is a sequence of writes to passwd,      *)
(* shadow and group, to the home directory and to authorized_keys; one     *)
(* that fails ends the work on that user and no other's.                   *)
(*                                                                         *)
(* A write empties the file before it fills it: one that fails or meets a  *)
(* crash leaves the file as it was, or the beginning of what it was for.   *)
(* Owners can be set; names are not numbers; each user has a home          *)
(* directory of its own.                                                   *)
(***************************************************************************)
EXTENDS SequencesExt, Subsequences

CONSTANTS Names,      \* of users and groups
          Keys,       \* lines of authorized_keys
          HumanIdMin, \* HUMAN_ID_MIN
          IdLimit,    \* ids are below it: 2^32
          Scenarios,  \* stage, machine and faults
          MaxRuns     \* bound: how often the stage is run

Id == 0 .. IdLimit - 1

\* A line of passwd or group: one that parses, one with too few fields, or one
\* whose ids are no numbers.
Shape == {"row", "short", "odd"}
PasswdRow == [shape : Shape, name : Names, uid : Id, gid : Id]
GroupRow == [shape : Shape, name : Names, gid : Id, members : SUBSET Names]

ShadowRow == [password : {"!", "*", "given", "salted", "old"}, aging : {"old", "default"}]

User == [name : Names,
         uid : [kind : {"auto", "given", "invalid"}, id : Id],
         primary : [kind : {"own", "named", "numeric"}, name : Names, id : Id],
         groups : SUBSET Names, password : {"!", "*", "given", "salted"},
         home : BOOLEAN, keys : SUBSET Keys]

SshEntry == [name : Names, raw : SUBSET Keys, fetched : SUBSET Keys]

\* users and ssh are in the order of the names, each of which is there once.
Scenario == [users : Seq(User), ssh : Seq(SshEntry),
             passwd : Seq(PasswdRow), group : Seq(GroupRow),
             keys : [Names -> SUBSET Keys], illegible : SUBSET Names,
             faults : SUBSET {"read", "write", "crash", "fetch"}]

ASSUME AccountsAssumption ==
  /\ HumanIdMin \in Nat \ {0} /\ IdLimit \in Nat /\ HumanIdMin < IdLimit
  /\ Scenarios \subseteq Scenario
  /\ \A s \in Scenarios : \A i, j \in DOMAIN s.users : s.users[i].name = s.users[j].name => i = j
  /\ MaxRuns \in Nat \ {0}

VARIABLES
  scenario,  \* stays as it is
  passwd, group, \* the tables, line by line
  shadow,    \* the rows of shadow, by name
  homes,     \* the owners of the home directories, by name
  keys,      \* the lines of each authorized_keys
  illegible, \* the names whose authorized_keys is not UTF-8
  pc, at,    \* the next write, the place of the current user
  draft,     \* what apply_one has worked out for the current user
  failed,    \* whether this run has an error to report
  found,     \* history: the groups that this run found, row by row
  runs       \* how often the stage has been started

files == <<passwd, group, shadow, homes, keys, illegible>>
vars == <<scenario, files, pc, at, draft, failed, found, runs>>

Put(f, name, value) ==
  [n \in DOMAIN f \cup {name} |-> IF n = name THEN value ELSE f[n]]

\* PasswdTable::parse and GroupTable::parse drop the lines they cannot read.
Parsed(rows) == Subsequence(rows, {i \in DOMAIN rows : rows[i].shape = "row"})

Find(rows, name) == SelectInSeq(rows, LAMBDA r : r.name = name)

Upsert(rows, row) ==
  LET i == Find(rows, row.name)
  IN  IF i = 0 THEN Append(rows, row) ELSE [rows EXCEPT ![i] = row]

\* Wrong: the sum does not wrap.
UnboundedNextId(ids) == Max(ids \cup {HumanIdMin - 1}) + 1

\* Wrong: the highest id is given out again.
HighestId(ids) == Max(ids \cup {HumanIdMin - 1})

\* max_uid and max_gid plus one, in 32 bits.
NextId(ids) == (Max(ids \cup {HumanIdMin - 1}) + 1) % IdLimit

Uids(rows) == {r.uid : r \in Range(rows)}
Gids(rows) == {r.gid : r \in Range(rows)}

\* Wrong: a user that exists is given another uid.
AllocatingResolveUid(rows, u) ==
  IF u.uid.kind = "given" THEN u.uid.id ELSE NextId(Uids(rows))

resolve_uid(rows, u) ==
  CASE u.uid.kind = "given" -> u.uid.id
    [] u.uid.kind = "auto" /\ Find(rows, u.name) # 0 -> rows[Find(rows, u.name)].uid
    [] OTHER -> NextId(Uids(rows))

GroupOf(u) == IF u.primary.kind = "own" THEN u.name ELSE u.primary.name

\* The groups afterwards, and the place of the primary group among them; 0
\* when a numeric one does not exist.
resolve_primary_group(rows, u) ==
  IF u.primary.kind = "numeric"
  THEN [rows |-> rows, place |-> SelectInSeq(rows, LAMBDA r : r.gid = u.primary.id)]
  ELSE LET place == Find(rows, GroupOf(u))
           new == [shape |-> "row", name |-> GroupOf(u), gid |-> NextId(Gids(rows)),
                   members |-> {}]
       IN  IF place # 0 THEN [rows |-> rows, place |-> place]
           ELSE [rows |-> Append(rows, new), place |-> Len(rows) + 1]

\* Wrong: the primary group gets no member.
SecondaryMembers(rows, primary, u) ==
  [i \in DOMAIN rows |->
     IF rows[i].name \in u.groups /\ Find(rows, rows[i].name) = i
     THEN [rows[i] EXCEPT !.members = @ \cup {u.name}] ELSE rows[i]]

\* The user joins the first group of each name that is the primary group's
\* or is listed; a listed name that no group has is passed over.
WithMember(rows, primary, u) ==
  [i \in DOMAIN rows |->
     IF /\ rows[i].name \in u.groups \cup {primary}
        /\ Find(rows, rows[i].name) = i
     THEN [rows[i] EXCEPT !.members = @ \cup {u.name}] ELSE rows[i]]

Users == scenario.users
u == Users[at]
NoDraft == [uid |-> 0, gid |-> 0, group |-> <<>>]

Init ==
  /\ scenario \in Scenarios
  /\ passwd = scenario.passwd /\ group = scenario.group
  /\ shadow = [n \in {r.name : r \in Range(Parsed(passwd))} |->
                 [password |-> "old", aging |-> "old"]]
  /\ homes = [n \in {} |-> [uid |-> 0, gid |-> 0]]
  /\ keys = scenario.keys /\ illegible = scenario.illegible
  /\ pc = "user" /\ at = 1
  /\ draft = NoDraft
  /\ failed = FALSE
  /\ found = Parsed(group)
  /\ runs = 1

NextUser == pc' = "user" /\ at' = at + 1

\* apply_one up to the first write.
Resolve ==
  /\ pc = "user" /\ at <= Len(Users)
  /\ LET groups == resolve_primary_group(Parsed(group), u)
     IN  /\ groups.place # 0 /\ u.uid.kind # "invalid"
         /\ draft' = [uid |-> resolve_uid(Parsed(passwd), u),
                      gid |-> groups.rows[groups.place].gid,
                      group |-> WithMember(groups.rows, groups.rows[groups.place].name, u)]
  /\ pc' = "passwd"
  /\ UNCHANGED <<scenario, files, at, failed, found, runs>>

\* The user cannot be made, and nothing has been written for it.  (An empty
\* name counts as a uid that is no number.)
Refuse ==
  /\ pc = "user" /\ at <= Len(Users)
  /\ \/ "read" \in scenario.faults
     \/ u.uid.kind = "invalid"
     \/ resolve_primary_group(Parsed(group), u).place = 0
  /\ failed' = TRUE
  /\ NextUser
  /\ UNCHANGED <<scenario, files, draft, found, runs>>

NewPasswd == Upsert(Parsed(passwd), [shape |-> "row", name |-> u.name,
                                     uid |-> draft.uid, gid |-> draft.gid])

WritePasswd ==
  /\ pc = "passwd"
  /\ passwd' = NewPasswd
  /\ pc' = "shadow"
  /\ UNCHANGED <<scenario, group, shadow, homes, keys, illegible, at, draft, failed, found, runs>>

\* build_shadow_row keeps the aging fields of the row it replaces.
NewShadow ==
  Put(shadow, u.name, [password |-> u.password,
                       aging |-> IF u.name \in DOMAIN shadow THEN shadow[u.name].aging
                                 ELSE "default"])

WriteShadow ==
  /\ pc = "shadow"
  /\ shadow' = NewShadow
  /\ pc' = "group"
  /\ UNCHANGED <<scenario, passwd, group, homes, keys, illegible, at, draft, failed, found, runs>>

WriteGroup ==
  /\ pc = "group"
  /\ group' = draft.group
  /\ pc' = "home"
  /\ UNCHANGED <<scenario, passwd, shadow, homes, keys, illegible, at, draft, failed, found, runs>>

MakeHome ==
  /\ pc = "home"
  /\ homes' = IF u.home THEN Put(homes, u.name, [uid |-> draft.uid, gid |-> draft.gid])
              ELSE homes
  /\ pc' = "keys"
  /\ UNCHANGED <<scenario, passwd, group, shadow, keys, illegible, at, draft, failed, found, runs>>

\* Wrong: the file is written with the keys of the stage.
ReplacingWriteKeys ==
  /\ pc = "keys"
  /\ u.keys # {} => u.name \notin illegible
  /\ keys' = IF u.keys = {} THEN keys ELSE [keys EXCEPT ![u.name] = u.keys]
  /\ NextUser
  /\ UNCHANGED <<scenario, passwd, group, shadow, homes, illegible, draft, failed, found, runs>>

\* write_ssh_keys adds the keys that are missing.
WriteKeys ==
  /\ pc = "keys"
  /\ u.keys # {} => u.name \notin illegible
  /\ keys' = [keys EXCEPT ![u.name] = @ \cup u.keys]
  /\ NextUser
  /\ UNCHANGED <<scenario, passwd, group, shadow, homes, illegible, draft, failed, found, runs>>

StartSsh ==
  /\ pc = "user" /\ at > Len(Users)
  /\ pc' = "ssh" /\ at' = 1
  /\ UNCHANGED <<scenario, files, draft, failed, found, runs>>

\* The lookup ends at a line with too few fields, and at the user's own when
\* its ids do not parse.
lookup_user(name) ==
  LET i == SelectInSeq(passwd, LAMBDA r : r.shape = "short" \/ r.name = name)
  IN  i # 0 /\ passwd[i].shape = "row"

Entry == scenario.ssh[at]

\* What ensure_keys may write: keys that cannot be fetched are left out; a
\* file that cannot be read counts as empty.
SshKeys ==
  {there \cup Entry.raw \cup fetched :
     there \in (IF Entry.name \in illegible THEN {} ELSE {keys[Entry.name]})
                 \cup (IF Entry.name \in illegible \/ "read" \in scenario.faults THEN {{}} ELSE {}),
     fetched \in IF "fetch" \in scenario.faults THEN {{}, Entry.fetched} ELSE {Entry.fetched}}

\* What is left of a table: its first lines; of group, the last one perhaps
\* with some members only.  A line that does not parse counts as missing.  The
\* rows of shadow are in any order here.
Beginnings(rows) == {SubSeq(rows, 1, k) : k \in 0 .. Len(rows)}
GroupBeginnings(rows) ==
  {<<>>} \cup UNION {{[SubSeq(rows, 1, k) EXCEPT ![k].members = some] :
                        some \in SUBSET rows[k].members} : k \in DOMAIN rows}
ShadowBeginnings(rows) == {Restrict(rows, names) : names \in SUBSET DOMAIN rows}

\* The file that the next write is for, when it breaks off.
BreakOff ==
  \/ UNCHANGED files
  \/ /\ pc = "passwd" /\ passwd' \in Beginnings(NewPasswd)
     /\ UNCHANGED <<group, shadow, homes, keys, illegible>>
  \/ /\ pc = "shadow" /\ shadow' \in ShadowBeginnings(NewShadow)
     /\ UNCHANGED <<passwd, group, homes, keys, illegible>>
  \/ /\ pc = "group" /\ group' \in GroupBeginnings(draft.group)
     /\ UNCHANGED <<passwd, shadow, homes, keys, illegible>>
  \/ /\ pc = "keys" /\ u.keys # {} /\ u.name \notin illegible
     /\ \E left \in SUBSET (keys[u.name] \cup u.keys) : keys' = [keys EXCEPT ![u.name] = left]
     /\ UNCHANGED <<passwd, group, shadow, homes, illegible>>
  \/ /\ pc = "ssh" /\ at <= Len(scenario.ssh) /\ lookup_user(Entry.name)
     /\ \E new \in SshKeys : \E left \in SUBSET new : keys' = [keys EXCEPT ![Entry.name] = left]
     /\ illegible' = illegible \ {Entry.name}
     /\ UNCHANGED <<passwd, group, shadow, homes>>

\* A read or write that fails ends the work on this user.
FailWrite ==
  /\ \/ /\ "write" \in scenario.faults
        /\ \/ pc \in {"passwd", "shadow", "group"}
           \/ pc = "home" /\ u.home
           \/ pc = "keys" /\ u.keys # {}
        /\ BreakOff
     \/ /\ pc = "keys" /\ u.keys # {} /\ (u.name \in illegible \/ "read" \in scenario.faults)
        /\ UNCHANGED files
  /\ failed' = TRUE
  /\ NextUser
  /\ UNCHANGED <<scenario, draft, found, runs>>

\* ensure_keys, whose write may break off, or fail at the file's mode or owner.
EnsureKeys ==
  /\ pc = "ssh" /\ at <= Len(scenario.ssh)
  /\ \/ /\ ~ lookup_user(Entry.name)
        /\ UNCHANGED <<files, failed>>
     \/ /\ lookup_user(Entry.name)
        /\ \E new \in SshKeys : keys' = [keys EXCEPT ![Entry.name] = new]
        /\ illegible' = illegible \ {Entry.name}
        /\ UNCHANGED <<passwd, group, shadow, homes, failed>>
     \/ /\ "read" \in scenario.faults /\ failed' = TRUE
        /\ UNCHANGED files
     \/ /\ "write" \in scenario.faults /\ failed' = TRUE
        /\ BreakOff
  /\ at' = at + 1
  /\ UNCHANGED <<scenario, pc, draft, found, runs>>

End ==
  /\ pc = "ssh" /\ at > Len(scenario.ssh)
  /\ pc' = "done"
  /\ UNCHANGED <<scenario, files, at, draft, failed, found, runs>>

Crash ==
  /\ "crash" \in scenario.faults /\ pc \notin {"done", "down"}
  /\ pc' = "down"
  /\ BreakOff
  /\ UNCHANGED <<scenario, at, draft, failed, found, runs>>

\* The machine boots again, or the command is repeated.
RunAgain ==
  /\ pc \in {"done", "down"} /\ runs < MaxRuns
  /\ runs' = runs + 1
  /\ pc' = "user" /\ at' = 1 /\ failed' = FALSE /\ draft' = NoDraft
  /\ found' = Parsed(group)
  /\ UNCHANGED <<scenario, files>>

Next ==
  \/ Resolve \/ Refuse \/ WritePasswd \/ WriteShadow \/ WriteGroup \/ MakeHome
  \/ WriteKeys \/ FailWrite \/ StartSsh \/ EnsureKeys \/ End \/ Crash \/ RunAgain

Spec == Init /\ [][Next]_vars

-----------------------------------------------------------------------------

\* The types of the variables.
TypeOK ==
  /\ scenario \in Scenarios
  /\ passwd \in Seq(PasswdRow) /\ group \in Seq(GroupRow)
  /\ DOMAIN shadow \subseteq Names /\ \A n \in DOMAIN shadow : shadow[n] \in ShadowRow
  /\ DOMAIN homes \subseteq Names /\ \A n \in DOMAIN homes : homes[n] \in [uid : Id, gid : Id]
  /\ keys \in [Names -> SUBSET Keys] /\ illegible \subseteq Names
  /\ pc \in {"user", "passwd", "shadow", "group", "home", "keys", "ssh", "done", "down"}
  /\ at \in Nat \ {0}
  /\ draft \in [uid : Id, gid : Id, group : Seq(GroupRow)]
  /\ failed \in BOOLEAN
  /\ found \in Seq(GroupRow)
  /\ runs \in 1 .. MaxRuns

UidOf(rows, name) == Parsed(rows)[Find(Parsed(rows), name)].uid

Explicit == {Users[i].name : i \in {j \in DOMAIN Users : Users[j].uid.kind = "given"}}

\* A write of the table breaks off, and the run reports it or ends with it.
BreaksOff(table) == pc = table /\ (pc' = "down" \/ (pc' = "user" /\ failed'))

\* However often the stage is run, an account loses its row or its aging fields
\* only by a write of their own table that breaks off, which the run reports
\* unless the machine goes down; and one that has a row has no other uid than
\* before or than the stage says, also after such a write ("reuse the existing
\* entry's UID", "preserving aging fields").
AccountsKept ==
  [][/\ \A r \in Range(Parsed(passwd)) :
          IF Find(Parsed(passwd'), r.name) = 0 THEN BreaksOff("passwd")
          ELSE r.name \notin Explicit => UidOf(passwd', r.name) = UidOf(passwd, r.name)
     /\ \A n \in DOMAIN shadow :
          \/ n \in DOMAIN shadow' /\ shadow'[n].aging = shadow[n].aging
          \/ BreaksOff("shadow")]_vars

\* Two accounts share a uid only if they did before or the stage gives one
\* of them its uid, as long as the last id is not in use and was not at the
\* start.
UidsDistinct ==
  LET rows == Parsed(passwd)
      given == {r.name : r \in Range(Parsed(scenario.passwd))}
  IN  IdLimit - 1 \notin Uids(rows) \cup Uids(Parsed(scenario.passwd)) =>
        \A i, j \in DOMAIN rows :
          /\ i # j /\ rows[i].uid = rows[j].uid
          => {rows[i].name, rows[j].name} \subseteq given
             \/ {rows[i].name, rows[j].name} \cap Explicit # {}

\* A run without an error leaves every account complete, whatever earlier
\* runs left half done or cut short: a row with the gid of the primary group,
\* the password asked for, membership of that group (of the first of its
\* name) and of the listed ones that the run found, a home directory of its
\* own, and its keys, which only the ssh plugin may have lost, by a file that
\* it could not read.
AccountsComplete ==
  pc = "done" /\ ~ failed =>
    \A i \in DOMAIN Users :
      LET w == Users[i]
          row == passwd[Find(passwd, w.name)]
          primary == resolve_primary_group(group, w)
      IN  /\ Find(passwd, w.name) # 0
          /\ primary.rows = group /\ row.gid = group[primary.place].gid
          /\ w.name \in group[Find(group, group[primary.place].name)].members
          /\ \A g \in w.groups :
               Find(found, g) # 0 => w.name \in group[Find(group, g)].members
          /\ shadow[w.name].password = w.password
          /\ w.home => homes[w.name] = [uid |-> row.uid, gid |-> row.gid]
          /\ \/ w.keys \subseteq keys[w.name]
             \/ "read" \in scenario.faults /\ \E j \in DOMAIN scenario.ssh : scenario.ssh[j].name = w.name

\* A write of this file breaks off, or could have.
KeysBreakOff(name) ==
  /\ \/ pc = "keys" /\ u.name = name
     \/ pc = "ssh" /\ Entry.name = name
  /\ pc' = "down" \/ (failed' /\ "write" \in scenario.faults)

\* A key that is in an authorized_keys is lost ("never clobber existing keys")
\* only by a write of this very file that breaks off, which the run reports
\* unless the machine goes down, or by the ssh plugin when it cannot read the
\* file: it takes one that is not UTF-8 or gives an error for an empty one.
KeysKept ==
  [][\A n \in Names :
       \/ "read" \in scenario.faults \/ n \in illegible
       \/ keys[n] \subseteq keys'[n] \/ KeysBreakOff(n)]_vars
=============================================================================
