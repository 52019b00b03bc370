--------------------------- MODULE AccountsProofs ---------------------------
(***************************************************************************)
(* Theorems about Accounts, for every stage, machine and fault and any     *)
(* number of runs: the types, that accounts and keys are lost only by a    *)
(* write that breaks off, that new accounts get uids of their own, and     *)
(* that a run without an error leaves every account complete.              *)
(*                                                                         *)
(* The proofs go by what the writes do to the first row of each name: the  *)
(* row a write is for is the only one it changes, and one that breaks off  *)
(* leaves the beginning of what it was for.                                *)
(***************************************************************************)
EXTENDS Accounts, SubsequenceProofs

\* The highest of a bounded set of numbers and the lowest of any are in it.
LEMMA MaxProperty ==
  ASSUME NEW n \in Nat, NEW S, S \subseteq 0 .. n, S # {}
  PROVE  Max(S) \in S /\ \A j \in S : j <= Max(S)
<1>1. PICK i \in S : \A j \in S : j <= i
  BY Greatest
<1>2. \A j \in S : i >= j
  BY <1>1
<1>3. Max(S) \in S /\ \A y \in S : Max(S) >= y
  BY <1>2 DEF Max
<1> QED BY <1>3

\* The lowest of any numbers is one of them.
LEMMA MinProperty ==
  ASSUME NEW S, S \subseteq Nat, S # {}
  PROVE  Min(S) \in S /\ \A j \in S : Min(S) <= j
<1>1. \E i \in S : \A j \in S : i <= j
  BY Least
<1> QED BY <1>1 DEF Min

\* Find gives the first row that has the name, or 0.
LEMMA FindProperty ==
  ASSUME NEW S, NEW rows \in Seq(S), NEW name
  PROVE  /\ Find(rows, name) \in 0 .. Len(rows)
         /\ Find(rows, name) # 0 =>
              /\ Find(rows, name) \in DOMAIN rows /\ rows[Find(rows, name)].name = name
              /\ \A j \in DOMAIN rows : rows[j].name = name => Find(rows, name) <= j
         /\ Find(rows, name) = 0 => \A j \in DOMAIN rows : rows[j].name # name
<1> DEFINE hits == {i \in 1 .. Len(rows) : rows[i].name = name}
<1>1. Len(rows) \in Nat /\ DOMAIN rows = 1 .. Len(rows) /\ hits \subseteq Nat
  OBVIOUS
<1>2. Find(rows, name) = IF hits # {} THEN Min(hits) ELSE 0
  BY DEF Find, SelectInSeq
<1>3. hits # {} => Min(hits) \in hits /\ \A j \in hits : Min(hits) <= j
  <2> HIDE DEF hits
  <2> QED BY <1>1, MinProperty
<1> QED BY <1>1, <1>2, <1>3

\* A row of the name with no such row before it is the one that is found.
LEMMA FoundFirst ==
  ASSUME NEW S, NEW rows \in Seq(S), NEW name, NEW i \in DOMAIN rows, rows[i].name = name,
         \A j \in DOMAIN rows : j < i => rows[j].name # name
  PROVE  Find(rows, name) = i
<1>1. Len(rows) \in Nat /\ DOMAIN rows = 1 .. Len(rows)
  OBVIOUS
<1> DEFINE f == Find(rows, name)
<1>2. /\ f # 0 => f \in DOMAIN rows /\ rows[f].name = name
                  /\ \A j \in DOMAIN rows : rows[j].name = name => f <= j
      /\ f = 0 => \A j \in DOMAIN rows : rows[j].name # name
  BY FindProperty
<1> HIDE DEF f
<1>3. f \in DOMAIN rows /\ f <= i /\ ~ (f < i)
  BY <1>2
<1>4. f = i
  BY <1>1, <1>3
<1> QED BY <1>4 DEF f

\* Where names stay, and rows are only appended, the same row is found.
LEMMA FoundAgain ==
  ASSUME NEW S, NEW rows \in Seq(S), NEW more \in Seq(S), NEW name,
         Len(rows) <= Len(more), \A i \in DOMAIN rows : more[i].name = rows[i].name,
         Find(rows, name) # 0
  PROVE  Find(more, name) = Find(rows, name)
<1> DEFINE f == Find(rows, name)
<1>1. /\ Len(rows) \in Nat /\ DOMAIN rows = 1 .. Len(rows)
      /\ Len(more) \in Nat /\ DOMAIN more = 1 .. Len(more)
  OBVIOUS
<1>2. f \in DOMAIN rows /\ rows[f].name = name
      /\ \A j \in DOMAIN rows : rows[j].name = name => f <= j
  BY FindProperty
<1> HIDE DEF f
<1>3. f \in DOMAIN more /\ more[f].name = name
  BY <1>1, <1>2
<1>4. \A j \in DOMAIN more : j < f => more[j].name # name
  <2> SUFFICES ASSUME NEW j \in DOMAIN more, j < f PROVE more[j].name # name
    OBVIOUS
  <2>1. j \in DOMAIN rows /\ ~ (f <= j)
    BY <1>1, <1>2
  <2> QED BY <1>2, <2>1
<1>5. Find(more, name) = f
  BY <1>3, <1>4, FoundFirst
<1> QED BY <1>5 DEF f

\* The tables as the program reads them.
Plain(rows) == \A i \in DOMAIN rows : rows[i].shape = "row"

\* What is read has no other lines, and what is written is read as it is.
LEMMA ParsedType ==
  ASSUME NEW S, NEW rows \in Seq(S)
  PROVE  /\ Parsed(rows) \in Seq(S) /\ Plain(Parsed(rows))
         /\ Plain(rows) => Parsed(rows) = rows
<1> DEFINE places == {i \in DOMAIN rows : rows[i].shape = "row"}
           sub == Subsequence(rows, places)
<1>1. places \subseteq DOMAIN rows /\ Parsed(rows) = sub
  BY DEF Parsed
<1>2. \A i \in places : rows[i].shape = "row"
  OBVIOUS
<1>3. Plain(rows) => places = DOMAIN rows
  BY DEF Plain
<1> HIDE DEF places
<1>4. /\ sub \in Seq(S)
      /\ \A k \in DOMAIN sub : Place(places, k) \in places /\ sub[k] = rows[Place(places, k)]
  BY <1>1, SubsequenceElements
<1>5. places = DOMAIN rows => sub = rows
  BY SubsequenceWhole
<1> HIDE DEF sub
<1>6. Plain(sub)
  BY <1>2, <1>4 DEF Plain
<1> QED BY <1>1, <1>3, <1>4, <1>5, <1>6

\* The beginning of a table: what is found in all of it, if it is there.
LEMMA BeginningRows ==
  ASSUME NEW S, NEW rows \in Seq(S), Plain(rows), NEW k \in 0 .. Len(rows)
  PROVE  LET cut == SubSeq(rows, 1, k)
         IN  /\ cut \in Seq(S) /\ Len(cut) = k /\ DOMAIN cut = 1 .. k
             /\ \A i \in 1 .. k : i \in DOMAIN rows /\ cut[i] = rows[i]
             /\ Plain(cut) /\ Parsed(cut) = cut
             /\ \A name : Find(cut, name) # 0 =>
                  Find(cut, name) = Find(rows, name) /\ cut[Find(cut, name)] = rows[Find(cut, name)]
<1> DEFINE cut == SubSeq(rows, 1, k)
<1>1. /\ cut \in Seq(S) /\ Len(cut) = k /\ DOMAIN cut = 1 .. k
      /\ \A i \in 1 .. k : i \in DOMAIN rows /\ cut[i] = rows[i]
      /\ Len(rows) \in Nat /\ k <= Len(rows)
  OBVIOUS
<1> HIDE DEF cut
<1>2. Plain(cut)
  BY <1>1 DEF Plain
<1>3. Parsed(cut) = cut
  BY <1>1, <1>2, ParsedType
<1>4. ASSUME NEW name, Find(cut, name) # 0
      PROVE  Find(cut, name) = Find(rows, name) /\ cut[Find(cut, name)] = rows[Find(cut, name)]
  <2>1. Find(rows, name) = Find(cut, name)
    BY <1>1, <1>4, FoundAgain
  <2>2. Find(cut, name) \in DOMAIN cut
    BY <1>1, <1>4, FindProperty
  <2> QED BY <1>1, <2>1, <2>2
<1> QED BY <1>1, <1>2, <1>3, <1>4 DEF cut

\* Where a row goes.
Spot(rows, name) == IF Find(rows, name) = 0 THEN Len(rows) + 1 ELSE Find(rows, name)

\* The row is put there, and the others are left alone.
PutAt(rows, new, spot, row) ==
  /\ DOMAIN new = DOMAIN rows \cup {spot} /\ new[spot] = row
  /\ \A i \in DOMAIN rows : i # spot => new[i] = rows[i]
  /\ spot \in 1 .. Len(rows) + 1 /\ Len(rows) <= Len(new)

\* Upsert puts the row at its spot and leaves the rest.
LEMMA UpsertRows ==
  ASSUME NEW S, NEW rows \in Seq(S), NEW row \in S
  PROVE  /\ Upsert(rows, row) \in Seq(S)
         /\ PutAt(rows, Upsert(rows, row), Spot(rows, row.name), row)
<1> DEFINE f == Find(rows, row.name)
<1>1. Len(rows) \in Nat /\ DOMAIN rows = 1 .. Len(rows) /\ f \in 0 .. Len(rows)
  BY FindProperty
<1>2. CASE f = 0
  <2>1. Upsert(rows, row) = Append(rows, row) /\ Spot(rows, row.name) = Len(rows) + 1
    BY <1>2 DEF Upsert, Spot
  <2> QED BY <1>1, <2>1 DEF PutAt
<1>3. CASE f # 0
  <2>1. Upsert(rows, row) = [rows EXCEPT ![f] = row] /\ Spot(rows, row.name) = f
    BY <1>3 DEF Upsert, Spot
  <2> HIDE DEF f
  <2>2. f \in DOMAIN rows
    BY <1>1, <1>3
  <2>3. [rows EXCEPT ![f] = row] \in Seq(S) /\ Len([rows EXCEPT ![f] = row]) = Len(rows)
    BY <2>2
  <2> QED BY <1>1, <2>1, <2>2, <2>3 DEF PutAt
<1> QED BY <1>2, <1>3

\* Afterwards it is what is found by its name, and what is found by another
\* is what was.
LEMMA UpsertFound ==
  ASSUME NEW S, NEW rows \in Seq(S), NEW row \in S
  PROVE  /\ Find(Upsert(rows, row), row.name) = Spot(rows, row.name)
         /\ Find(Upsert(rows, row), row.name) # 0
         /\ Upsert(rows, row)[Find(Upsert(rows, row), row.name)] = row
         /\ \A name : name # row.name /\ Find(rows, name) # 0 =>
              /\ Find(Upsert(rows, row), name) = Find(rows, name)
              /\ Upsert(rows, row)[Find(rows, name)] = rows[Find(rows, name)]
<1> DEFINE new == Upsert(rows, row)
           spot == Spot(rows, row.name)
<1>1. /\ new \in Seq(S) /\ DOMAIN new = DOMAIN rows \cup {spot} /\ new[spot] = row
      /\ \A i \in DOMAIN rows : i # spot => new[i] = rows[i]
      /\ spot \in 1 .. Len(rows) + 1 /\ Len(rows) <= Len(new)
  <2>1. new \in Seq(S) /\ PutAt(rows, new, spot, row)
    BY UpsertRows
  <2> HIDE DEF new, spot
  <2> QED BY <2>1 DEF PutAt
<1>2. /\ Len(rows) \in Nat /\ DOMAIN rows = 1 .. Len(rows)
      /\ spot \in DOMAIN rows => /\ rows[spot].name = row.name
      /\ \A j \in DOMAIN rows : j < spot => rows[j].name # row.name
  <2>1. Len(rows) \in Nat /\ DOMAIN rows = 1 .. Len(rows)
    OBVIOUS
  <2> DEFINE f == Find(rows, row.name)
  <2>2. /\ f # 0 => /\ f \in DOMAIN rows /\ rows[f].name = row.name
                    /\ \A j \in DOMAIN rows : rows[j].name = row.name => f <= j
        /\ f = 0 => \A j \in DOMAIN rows : rows[j].name # row.name
    BY FindProperty
  <2>3. spot = IF f = 0 THEN Len(rows) + 1 ELSE f
    BY DEF Spot
  <2> HIDE DEF f, spot
  <2>4. \A j \in DOMAIN rows : f <= j => ~ (j < f)
    BY <2>1, <2>2
  <2>5. f # 0 => \A j \in DOMAIN rows : j < f => rows[j].name # row.name
    BY <2>1, <2>2
  <2> QED BY <2>1, <2>2, <2>3, <2>5
<1>3. Find(new, row.name) = spot
  <2> HIDE DEF new, spot
  <2>1. spot \in DOMAIN new /\ new[spot].name = row.name
    BY <1>1
  <2>2. \A j \in DOMAIN new : j < spot => new[j].name # row.name
    <3> SUFFICES ASSUME NEW j \in DOMAIN new, j < spot PROVE new[j].name # row.name
      OBVIOUS
    <3>1. j # spot
      BY <1>1
    <3> QED BY <1>1, <1>2, <3>1
  <2> QED BY <1>1, <2>1, <2>2, FoundFirst
<1>4. spot # 0
  BY <1>1, <1>2
<1>5. ASSUME NEW name, name # row.name, Find(rows, name) # 0
      PROVE  Find(new, name) = Find(rows, name) /\ new[Find(rows, name)] = rows[Find(rows, name)]
  <2> HIDE DEF new, spot
  <2>1. Find(rows, name) \in DOMAIN rows /\ rows[Find(rows, name)].name = name
    BY <1>5, FindProperty
  <2>2. \A i \in DOMAIN rows : new[i].name = rows[i].name
    BY <1>1, <1>2
  <2>3. Find(new, name) = Find(rows, name)
    BY <1>1, <1>5, <2>2, FoundAgain
  <2> QED BY <1>1, <1>2, <1>5, <2>1, <2>3
<1> HIDE DEF new, spot
<1>6. new[Find(new, row.name)] = row
  BY <1>1, <1>3
<1> QED BY <1>3, <1>4, <1>5, <1>6 DEF new, spot

-----------------------------------------------------------------------------

\* The next id is one, and above all that are in use, unless the last is.
LEMMA NextIdProperty ==
  ASSUME NEW ids, ids \subseteq Id
  PROVE  /\ NextId(ids) \in Id
         /\ IdLimit - 1 \notin ids => \A i \in ids : i < NextId(ids)
<1> DEFINE all == ids \cup {HumanIdMin - 1}
           top == Max(all)
<1>1. IdLimit \in Nat /\ IdLimit # 0 /\ HumanIdMin - 1 \in 0 .. IdLimit - 1
      /\ HumanIdMin - 1 # IdLimit - 1
  BY AccountsAssumption
<1>2. all \subseteq 0 .. IdLimit - 1 /\ all \subseteq 0 .. IdLimit /\ all # {}
  <2> DEFINE human == HumanIdMin - 1
  <2>1. ids \subseteq 0 .. IdLimit - 1 /\ human \in 0 .. IdLimit - 1
    BY <1>1 DEF Id
  <2>2. \A i \in 0 .. IdLimit - 1 : i \in 0 .. IdLimit
    BY <1>1
  <2> HIDE DEF human
  <2>3. ids \cup {human} \subseteq 0 .. IdLimit - 1
    BY <2>1
  <2>4. ids \cup {human} \subseteq 0 .. IdLimit
    BY <2>2, <2>3
  <2>5. all = ids \cup {human}
    BY DEF human
  <2> QED BY <2>3, <2>4, <2>5
<1>3. top \in all /\ \A j \in all : j <= top
  <2> HIDE DEF all
  <2> QED BY <1>1, <1>2, MaxProperty
<1>4. NextId(ids) = (top + 1) % IdLimit
  BY DEF NextId
<1>5. IdLimit - 1 \notin ids => top # IdLimit - 1
  BY <1>1, <1>3
<1>6. top \in 0 .. IdLimit - 1 /\ \A j \in ids : j \in Nat /\ j <= top
  BY <1>1, <1>2, <1>3
<1> HIDE DEF top
<1>7. (top + 1) % IdLimit \in 0 .. IdLimit - 1
  BY <1>1, <1>6
<1>8. top # IdLimit - 1 => (top + 1) % IdLimit = top + 1
  BY <1>1, <1>6
<1>9. \A j \in ids : j < top + 1
  BY <1>6
<1> QED BY <1>4, <1>5, <1>7, <1>8, <1>9 DEF Id

\* The parts of a user of the stage.
LEMMA UserType ==
  ASSUME NEW w \in User
  PROVE  /\ w.name \in Names /\ w.uid.id \in Id /\ w.uid.kind \in {"auto", "given", "invalid"}
         /\ w.primary.kind \in {"own", "named", "numeric"} /\ w.primary.name \in Names
         /\ w.groups \subseteq Names /\ w.password \in {"!", "*", "given", "salted"}
         /\ w.home \in BOOLEAN /\ w.keys \subseteq Keys /\ GroupOf(w) \in Names
BY DEF User, GroupOf

\* The parts of the rows.
LEMMA RowTypes ==
  /\ \A r \in PasswdRow : r.name \in Names /\ r.uid \in Id /\ r.gid \in Id
  /\ \A r \in GroupRow : r.name \in Names /\ r.gid \in Id /\ r.members \subseteq Names
BY DEF PasswdRow, GroupRow

\* The uid resolved is one.
LEMMA ResolveUidType ==
  ASSUME NEW rows \in Seq(PasswdRow), NEW w \in User
  PROVE  resolve_uid(rows, w) \in Id
<1>1. Uids(rows) \subseteq Id
  <2>1. \A i \in DOMAIN rows : rows[i] \in PasswdRow
    OBVIOUS
  <2> QED BY <2>1, RowTypes DEF Uids, Range
<1>2. NextId(Uids(rows)) \in Id
  BY <1>1, NextIdProperty
<1>3. Find(rows, w.name) # 0 => rows[Find(rows, w.name)].uid \in Id
  <2>1. Find(rows, w.name) # 0 => Find(rows, w.name) \in DOMAIN rows
    BY FindProperty
  <2> DEFINE f == Find(rows, w.name)
  <2> HIDE DEF f
  <2>2. f \in DOMAIN rows => rows[f] \in PasswdRow
    OBVIOUS
  <2>3. f \in DOMAIN rows => rows[f].uid \in Id
    BY <2>2, RowTypes
  <2> QED BY <2>1, <2>3 DEF f
<1> QED BY <1>2, <1>3, UserType DEF resolve_uid

\* The same groups, of which some may have new members, and new ones.
Grown(rows, more) ==
  /\ Len(rows) <= Len(more)
  /\ \A i \in DOMAIN rows : /\ more[i].name = rows[i].name /\ more[i].gid = rows[i].gid
                            /\ rows[i].members \subseteq more[i].members

\* The primary group is one of the groups, a new one if need be.
LEMMA PrimaryRows ==
  ASSUME NEW rows \in Seq(GroupRow), NEW w \in User
  PROVE  LET g == resolve_primary_group(rows, w)
         IN  /\ g.rows \in Seq(GroupRow) /\ Grown(rows, g.rows)
             /\ Plain(rows) => Plain(g.rows)
             /\ g.place # 0 => g.place \in DOMAIN g.rows
<1>1. Len(rows) \in Nat /\ DOMAIN rows = 1 .. Len(rows) /\ \A i \in DOMAIN rows : rows[i] \in GroupRow
  OBVIOUS
<1>2. Grown(rows, rows)
  BY <1>1 DEF Grown
<1>3. CASE w.primary.kind = "numeric"
  <2> DEFINE hits == {i \in 1 .. Len(rows) : rows[i].gid = w.primary.id}
  <2>1. resolve_primary_group(rows, w) =
          [rows |-> rows, place |-> IF hits # {} THEN Min(hits) ELSE 0]
    BY <1>3 DEF resolve_primary_group, SelectInSeq
  <2>2. hits \subseteq Nat /\ hits \subseteq DOMAIN rows
    BY <1>1
  <2> HIDE DEF hits
  <2>3. hits # {} => Min(hits) \in DOMAIN rows
    BY <2>2, MinProperty
  <2> QED BY <1>2, <2>1, <2>3
<1>4. CASE w.primary.kind # "numeric"
  <2> DEFINE place == Find(rows, GroupOf(w))
             new == [shape |-> "row", name |-> GroupOf(w), gid |-> NextId(Gids(rows)),
                     members |-> {}]
  <2>1. resolve_primary_group(rows, w) =
          IF place # 0 THEN [rows |-> rows, place |-> place]
          ELSE [rows |-> Append(rows, new), place |-> Len(rows) + 1]
    BY <1>4 DEF resolve_primary_group
  <2>2. place # 0 => place \in DOMAIN rows
    BY FindProperty
  <2>3. new \in GroupRow /\ new.shape = "row"
    <3>1. Gids(rows) \subseteq Id
      BY <1>1, RowTypes DEF Gids, Range
    <3>2. NextId(Gids(rows)) \in Id
      BY <3>1, NextIdProperty
    <3>3. GroupOf(w) \in Names
      BY UserType
    <3> QED BY <3>2, <3>3 DEF GroupRow, Shape
  <2> HIDE DEF place, new
  <2> DEFINE more == Append(rows, new)
  <2>4. /\ more \in Seq(GroupRow) /\ Len(more) = Len(rows) + 1 /\ DOMAIN more = 1 .. Len(rows) + 1
        /\ more[Len(rows) + 1] = new /\ \A i \in DOMAIN rows : more[i] = rows[i]
    BY <1>1, <2>3
  <2> HIDE DEF more
  <2>5. Grown(rows, more) /\ (Plain(rows) => Plain(more)) /\ Len(rows) + 1 \in DOMAIN more
    BY <1>1, <2>3, <2>4 DEF Grown, Plain
  <2>6. resolve_primary_group(rows, w) =
          IF place # 0 THEN [rows |-> rows, place |-> place]
          ELSE [rows |-> more, place |-> Len(rows) + 1]
    BY <2>1 DEF more
  <2> QED BY <1>2, <2>2, <2>4, <2>5, <2>6
<1> QED BY <1>3, <1>4

\* A user that joins groups changes nothing else about them.
LEMMA JoinedRows ==
  ASSUME NEW rows \in Seq(GroupRow), NEW primary, NEW w \in User
  PROVE  LET more == WithMember(rows, primary, w)
         IN  /\ more \in Seq(GroupRow) /\ Grown(rows, more) /\ Len(more) = Len(rows)
             /\ Plain(rows) => Plain(more)
             /\ \A name \in w.groups \cup {primary} :
                  Find(rows, name) # 0 => w.name \in more[Find(rows, name)].members
<1> DEFINE more == WithMember(rows, primary, w)
           joined(i) == [rows[i] EXCEPT !.members = @ \cup {w.name}]
           joins(i) == rows[i].name \in w.groups \cup {primary} /\ Find(rows, rows[i].name) = i
<1>1. Len(rows) \in Nat /\ DOMAIN rows = 1 .. Len(rows) /\ \A i \in DOMAIN rows : rows[i] \in GroupRow
  OBVIOUS
<1>2. /\ more = [i \in DOMAIN rows |-> IF joins(i) THEN joined(i) ELSE rows[i]]
      /\ \A i \in DOMAIN rows : more[i] = IF joins(i) THEN joined(i) ELSE rows[i]
  BY DEF WithMember
<1>3. ASSUME NEW i \in DOMAIN rows
      PROVE  /\ joined(i) \in GroupRow /\ joined(i).name = rows[i].name
             /\ joined(i).gid = rows[i].gid /\ joined(i).shape = rows[i].shape
             /\ joined(i).members = rows[i].members \cup {w.name}
  <2>1. rows[i] \in GroupRow /\ w.name \in Names
    BY <1>1, UserType
  <2> DEFINE r == rows[i]
             name == w.name
  <2>2. r \in GroupRow /\ name \in Names
    BY <2>1
  <2> HIDE DEF r, name
  <2>3. LET j == [r EXCEPT !.members = @ \cup {name}]
        IN  /\ j \in GroupRow /\ j.name = r.name /\ j.gid = r.gid /\ j.shape = r.shape
            /\ j.members = r.members \cup {name}
    BY <2>2 DEF GroupRow
  <2> QED BY <2>3 DEF r, name
<1> HIDE DEF joined, joins, more
<1>4. \A i \in DOMAIN rows : more[i] \in GroupRow
  BY <1>1, <1>2, <1>3
<1>5. more \in [1 .. Len(rows) -> GroupRow]
  <2>1. DOMAIN more = DOMAIN rows /\ more = [i \in DOMAIN more |-> more[i]]
    BY <1>2
  <2> QED BY <1>1, <1>4, <2>1
<1>6. more \in Seq(GroupRow) /\ Len(more) = Len(rows)
  BY <1>1, <1>5
<1>7. Grown(rows, more)
  BY <1>1, <1>2, <1>3, <1>6 DEF Grown
<1>8. Plain(rows) => Plain(more)
  BY <1>1, <1>2, <1>3, <1>5 DEF Plain
<1>9. ASSUME NEW name \in w.groups \cup {primary}, Find(rows, name) # 0
      PROVE  w.name \in more[Find(rows, name)].members
  <2> DEFINE f == Find(rows, name)
  <2>1. f \in DOMAIN rows /\ rows[f].name = name
    BY <1>9, FindProperty
  <2>2. joins(f)
    BY <2>1 DEF joins
  <2> HIDE DEF f
  <2>3. w.name \in more[f].members
    BY <1>2, <1>3, <2>1, <2>2
  <2> QED BY <2>3 DEF f
<1> QED BY <1>6, <1>7, <1>8, <1>9 DEF more

-----------------------------------------------------------------------------

\* A write is for one of the stage's users.
TypeInv ==
  /\ TypeOK
  /\ pc \in {"passwd", "shadow", "group", "home", "keys"} => at \in DOMAIN Users

\* What is known of a scenario.
LEMMA ScenarioTypes ==
  ASSUME NEW s \in Scenarios
  PROVE  /\ s.users \in Seq(User) /\ s.ssh \in Seq(SshEntry)
         /\ s.passwd \in Seq(PasswdRow) /\ s.group \in Seq(GroupRow)
         /\ s.keys \in [Names -> SUBSET Keys] /\ s.illegible \subseteq Names
         /\ \A i, j \in DOMAIN s.users : s.users[i].name = s.users[j].name => i = j
         /\ DOMAIN s.users = 1 .. Len(s.users) /\ Len(s.users) \in Nat
         /\ \A i \in DOMAIN s.users : s.users[i] \in User
<1>1. s \in Scenario
  BY AccountsAssumption
<1>2. /\ s.users \in Seq(User) /\ s.ssh \in Seq(SshEntry)
      /\ s.passwd \in Seq(PasswdRow) /\ s.group \in Seq(GroupRow)
      /\ s.keys \in [Names -> SUBSET Keys] /\ s.illegible \subseteq Names
  BY <1>1 DEF Scenario
<1>3. \A i, j \in DOMAIN s.users : s.users[i].name = s.users[j].name => i = j
  BY AccountsAssumption
<1>4. DOMAIN s.users = 1 .. Len(s.users) /\ Len(s.users) \in Nat
      /\ \A i \in DOMAIN s.users : s.users[i] \in User
  <2> DEFINE all == s.users
  <2>1. all \in Seq(User)
    BY <1>2
  <2> HIDE DEF all
  <2>2. DOMAIN all = 1 .. Len(all) /\ Len(all) \in Nat /\ \A i \in DOMAIN all : all[i] \in User
    BY <2>1
  <2> QED BY <2>2 DEF all
<1> QED BY <1>2, <1>3, <1>4

\* There are ids.
LEMMA IdIsThere == 0 \in Id
BY AccountsAssumption DEF Id

\* The types hold at the start.
LEMMA InitTypes == Init => TypeInv
<1> SUFFICES ASSUME Init PROVE TypeInv
  OBVIOUS
<1>1. scenario \in Scenarios /\ passwd = scenario.passwd /\ group = scenario.group
      /\ keys = scenario.keys /\ illegible = scenario.illegible
      /\ pc = "user" /\ at = 1 /\ failed = FALSE /\ runs = 1
  BY DEF Init
<1>2. passwd \in Seq(PasswdRow) /\ group \in Seq(GroupRow)
      /\ keys \in [Names -> SUBSET Keys] /\ illegible \subseteq Names
  BY <1>1, ScenarioTypes
<1>3. DOMAIN shadow \subseteq Names /\ \A n \in DOMAIN shadow : shadow[n] \in ShadowRow
  <2> DEFINE there == {r.name : r \in Range(Parsed(passwd))}
  <2>1. Parsed(passwd) \in Seq(PasswdRow)
    BY <1>2, ParsedType
  <2>2. \A i \in DOMAIN Parsed(passwd) : Parsed(passwd)[i] \in PasswdRow
    BY <2>1
  <2>3. there \subseteq Names
    BY <2>2, RowTypes DEF Range
  <2>4. shadow = [n \in there |-> [password |-> "old", aging |-> "old"]]
    BY DEF Init
  <2> HIDE DEF there
  <2>5. [password |-> "old", aging |-> "old"] \in ShadowRow
    BY DEF ShadowRow
  <2> QED BY <2>3, <2>4, <2>5
<1>4. DOMAIN homes \subseteq Names /\ \A n \in DOMAIN homes : homes[n] \in [uid : Id, gid : Id]
  <2>1. DOMAIN homes = {}
    BY DEF Init
  <2> QED BY <2>1
<1>5. draft \in [uid : Id, gid : Id, group : Seq(GroupRow)]
  <2>1. draft = [uid |-> 0, gid |-> 0, group |-> <<>>]
    BY DEF Init, NoDraft
  <2>2. <<>> \in Seq(GroupRow)
    OBVIOUS
  <2> QED BY <2>1, <2>2, IdIsThere
<1>6. runs \in 1 .. MaxRuns
  BY <1>1, AccountsAssumption
<1>7. TypeOK
  <2>0. found \in Seq(GroupRow)
    BY <1>2, ParsedType DEF Init
  <2>1. pc \in {"user", "passwd", "shadow", "group", "home", "keys", "ssh", "done", "down"}
        /\ at \in Nat \ {0}
    BY <1>1
  <2>2. failed \in BOOLEAN
    BY <1>1, Zenon
  <2> QED BY <1>1, <1>2, <1>3, <1>4, <1>5, <1>6, <2>0, <2>1, <2>2 DEF TypeOK
<1> QED BY <1>1, <1>7 DEF TypeInv

\* What apply_one works out has its type.
LEMMA ResolvedTypes ==
  ASSUME TypeInv, Resolve
  PROVE  /\ draft' \in [uid : Id, gid : Id, group : Seq(GroupRow)]
         /\ at \in DOMAIN Users
<1>1. at \in DOMAIN Users
  <2>1. scenario \in Scenarios /\ at \in Nat \ {0} /\ at <= Len(Users)
    BY DEF TypeInv, TypeOK, Resolve
  <2> QED BY <2>1, ScenarioTypes DEF Users
<1>2. u \in User
  BY <1>1, ScenarioTypes DEF u, Users, TypeInv, TypeOK
<1>3. passwd \in Seq(PasswdRow) /\ group \in Seq(GroupRow)
  BY DEF TypeInv, TypeOK
<1> DEFINE w == u
           g == resolve_primary_group(Parsed(group), w)
<1>4. g.place # 0 /\ draft' = [uid |-> resolve_uid(Parsed(passwd), w),
                               gid |-> g.rows[g.place].gid,
                               group |-> WithMember(g.rows, g.rows[g.place].name, w)]
  BY DEF Resolve
<1>5. resolve_uid(Parsed(passwd), w) \in Id
  <2>1. Parsed(passwd) \in Seq(PasswdRow)
    BY <1>3, ParsedType
  <2> QED BY <1>2, <2>1, ResolveUidType
<1>6. g.rows \in Seq(GroupRow) /\ g.place \in DOMAIN g.rows
  <2>1. Parsed(group) \in Seq(GroupRow)
    BY <1>3, ParsedType
  <2> QED BY <1>2, <1>4, <2>1, PrimaryRows
<1> HIDE DEF g
<1>7. g.rows[g.place].gid \in Id
  <2>1. g.rows[g.place] \in GroupRow
    BY <1>6
  <2> QED BY <2>1, RowTypes
<1>8. WithMember(g.rows, g.rows[g.place].name, w) \in Seq(GroupRow)
  <2>1. w \in User
    BY <1>2
  <2> HIDE DEF w
  <2> QED BY <1>6, <2>1, JoinedRows
<1> QED BY <1>1, <1>4, <1>5, <1>7, <1>8

\* The row that the next write of passwd is for, and the table with it.
NewRow == [shape |-> "row", name |-> u.name, uid |-> draft.uid, gid |-> draft.gid]

LEMMA NewPasswdType ==
  ASSUME TypeInv, pc = "passwd"
  PROVE  /\ at \in DOMAIN Users /\ u \in User /\ Parsed(passwd) \in Seq(PasswdRow)
         /\ NewRow \in PasswdRow /\ NewRow.name = u.name
         /\ NewRow.uid = draft.uid /\ NewRow.gid = draft.gid
         /\ NewPasswd = Upsert(Parsed(passwd), NewRow)
         /\ NewPasswd \in Seq(PasswdRow) /\ Plain(NewPasswd)
<1>1. at \in DOMAIN Users /\ u \in User
  BY ScenarioTypes DEF TypeInv, TypeOK, u, Users
<1>2. Parsed(passwd) \in Seq(PasswdRow) /\ Plain(Parsed(passwd))
  BY ParsedType DEF TypeInv, TypeOK
<1> DEFINE rows == Parsed(passwd)
<1>3. NewRow \in PasswdRow /\ NewRow.shape = "row" /\ NewRow.name = u.name
      /\ NewRow.uid = draft.uid /\ NewRow.gid = draft.gid
  <2>1. u.name \in Names
    BY <1>1, UserType
  <2>2. draft.uid \in Id /\ draft.gid \in Id
    BY DEF TypeInv, TypeOK
  <2> QED BY <2>1, <2>2 DEF NewRow, PasswdRow, Shape
<1>4. NewPasswd = Upsert(rows, NewRow)
  BY DEF NewPasswd, NewRow
<1> HIDE DEF rows
<1>5. NewPasswd \in Seq(PasswdRow) /\ PutAt(rows, NewPasswd, Spot(rows, NewRow.name), NewRow)
  BY <1>2, <1>3, <1>4, UpsertRows DEF rows
<1>6. Plain(NewPasswd)
  BY <1>2, <1>3, <1>5 DEF Plain, PutAt, rows
<1> QED BY <1>1, <1>2, <1>3, <1>4, <1>5, <1>6 DEF rows

\* The table that the next write of shadow is for.
LEMMA NewShadowType ==
  ASSUME TypeInv, pc = "shadow"
  PROVE  DOMAIN NewShadow \subseteq Names /\ \A n \in DOMAIN NewShadow : NewShadow[n] \in ShadowRow
<1>1. at \in DOMAIN Users
  BY DEF TypeInv
<1>2. u \in User
  BY <1>1, ScenarioTypes DEF u, Users, TypeInv, TypeOK
<1> DEFINE row == [password |-> u.password,
                   aging |-> IF u.name \in DOMAIN shadow THEN shadow[u.name].aging
                             ELSE "default"]
<1>3. DOMAIN shadow \subseteq Names /\ \A n \in DOMAIN shadow : shadow[n] \in ShadowRow
  BY DEF TypeInv, TypeOK
<1>4. u.name \in Names /\ u.password \in {"!", "*", "given", "salted"}
  BY <1>2, UserType
<1>5. row \in ShadowRow
  BY <1>3, <1>4 DEF ShadowRow
<1>6. NewShadow = Put(shadow, u.name, row)
  BY DEF NewShadow
<1> HIDE DEF row
<1> QED BY <1>3, <1>4, <1>5, <1>6 DEF Put

\* What ensure_keys may write are keys.
LEMMA SshKeysType ==
  ASSUME TypeInv, at <= Len(scenario.ssh)
  PROVE  at \in DOMAIN scenario.ssh /\ Entry.name \in Names /\ \A new \in SshKeys : new \subseteq Keys
<1>1. scenario.ssh \in Seq(SshEntry) /\ at \in Nat \ {0} /\ keys \in [Names -> SUBSET Keys]
  BY ScenarioTypes DEF TypeInv, TypeOK
<1>2. at \in DOMAIN scenario.ssh
  BY <1>1
<1>3. Entry \in SshEntry
  BY <1>1, <1>2 DEF Entry
<1>4. Entry.name \in Names /\ Entry.raw \subseteq Keys /\ Entry.fetched \subseteq Keys
  BY <1>3 DEF SshEntry
<1>5. ASSUME NEW new \in SshKeys PROVE new \subseteq Keys
  <2>1. PICK there \in (IF Entry.name \in illegible THEN {} ELSE {keys[Entry.name]})
                 \cup (IF Entry.name \in illegible \/ "read" \in scenario.faults THEN {{}} ELSE {}),
             fetched \in IF "fetch" \in scenario.faults THEN {{}, Entry.fetched} ELSE {Entry.fetched} :
               new = there \cup Entry.raw \cup fetched
    BY <1>5 DEF SshKeys
  <2>2. there \subseteq Keys
    BY <1>1, <1>4, <2>1
  <2>3. fetched \subseteq Keys
    BY <1>4, <2>1
  <2> QED BY <1>4, <2>1, <2>2, <2>3
<1> QED BY <1>2, <1>4, <1>5

\* Fewer members make a row of group no other row.
LEMMA GroupBeginningsType ==
  ASSUME NEW rows \in Seq(GroupRow), NEW cut \in GroupBeginnings(rows)
  PROVE  cut \in Seq(GroupRow)
<1>1. CASE cut = <<>>
  BY <1>1
<1>2. CASE cut # <<>>
  <2>0. PICK k \in DOMAIN rows : \E some \in SUBSET rows[k].members :
          cut = [SubSeq(rows, 1, k) EXCEPT ![k].members = some]
    BY <1>2 DEF GroupBeginnings
  <2>1. PICK some \in SUBSET rows[k].members :
          cut = [SubSeq(rows, 1, k) EXCEPT ![k].members = some]
    BY <2>0
  <2> DEFINE begin == SubSeq(rows, 1, k)
             row == [rows[k] EXCEPT !.members = some]
  <2>2. begin \in Seq(GroupRow) /\ k \in DOMAIN begin /\ begin[k] = rows[k] /\ rows[k] \in GroupRow
    BY <2>1
  <2>3. row \in GroupRow
    <3> DEFINE r == rows[k]
    <3>1. r \in GroupRow /\ some \subseteq r.members
      BY <2>1, <2>2
    <3> HIDE DEF r
    <3>2. [r EXCEPT !.members = some] \in GroupRow
      BY <3>1 DEF GroupRow
    <3> QED BY <3>2 DEF r
  <2>4. cut = [begin EXCEPT ![k] = row]
    <3> HIDE DEF begin
    <3> QED BY <2>1, <2>2 DEF begin
  <2> HIDE DEF begin, row
  <2> QED BY <2>2, <2>3, <2>4
<1> QED BY <1>1, <1>2

\* The types of the files.
FilesTyped ==
  /\ passwd \in Seq(PasswdRow) /\ group \in Seq(GroupRow)
  /\ DOMAIN shadow \subseteq Names /\ \A n \in DOMAIN shadow : shadow[n] \in ShadowRow
  /\ DOMAIN homes \subseteq Names /\ \A n \in DOMAIN homes : homes[n] \in [uid : Id, gid : Id]
  /\ keys \in [Names -> SUBSET Keys] /\ illegible \subseteq Names

\* A write that breaks off leaves the types as they are.
LEMMA BreakOffTypes ==
  ASSUME TypeInv, BreakOff
  PROVE  /\ passwd' \in Seq(PasswdRow) /\ group' \in Seq(GroupRow)
         /\ DOMAIN shadow' \subseteq Names /\ \A n \in DOMAIN shadow' : shadow'[n] \in ShadowRow
         /\ keys' \in [Names -> SUBSET Keys] /\ illegible' \subseteq Names /\ homes' = homes
<1>1. /\ passwd \in Seq(PasswdRow) /\ group \in Seq(GroupRow)
      /\ DOMAIN shadow \subseteq Names /\ \A n \in DOMAIN shadow : shadow[n] \in ShadowRow
      /\ keys \in [Names -> SUBSET Keys] /\ illegible \subseteq Names
      /\ draft.group \in Seq(GroupRow)
  BY DEF TypeInv, TypeOK
<1>2. CASE UNCHANGED files
  BY <1>1, <1>2 DEF files
<1>3. CASE pc = "passwd" /\ passwd' \in Beginnings(NewPasswd)
           /\ UNCHANGED <<group, shadow, homes, keys, illegible>>
  <2>1. NewPasswd \in Seq(PasswdRow) /\ Plain(NewPasswd)
    BY <1>3, NewPasswdType
  <2>2. PICK k \in 0 .. Len(NewPasswd) : passwd' = SubSeq(NewPasswd, 1, k)
    BY <1>3 DEF Beginnings
  <2>3. passwd' \in Seq(PasswdRow)
    BY <2>1, <2>2, BeginningRows
  <2> QED BY <1>1, <1>3, <2>3
<1>4. CASE pc = "shadow" /\ shadow' \in ShadowBeginnings(NewShadow)
           /\ UNCHANGED <<passwd, group, homes, keys, illegible>>
  <2>1. DOMAIN NewShadow \subseteq Names /\ \A n \in DOMAIN NewShadow : NewShadow[n] \in ShadowRow
    BY <1>4, NewShadowType
  <2>2. PICK names \in SUBSET DOMAIN NewShadow : shadow' = Restrict(NewShadow, names)
    BY <1>4 DEF ShadowBeginnings
  <2>3. DOMAIN shadow' = names /\ \A n \in names : shadow'[n] = NewShadow[n]
    BY <2>2 DEF Restrict
  <2> QED BY <1>1, <1>4, <2>1, <2>2, <2>3
<1>5. CASE pc = "group" /\ group' \in GroupBeginnings(draft.group)
           /\ UNCHANGED <<passwd, shadow, homes, keys, illegible>>
  <2>1. group' \in Seq(GroupRow)
    BY <1>1, <1>5, GroupBeginningsType
  <2> QED BY <1>1, <1>5, <2>1
<1>6. CASE /\ pc = "keys" /\ u.keys # {} /\ u.name \notin illegible
           /\ \E left \in SUBSET (keys[u.name] \cup u.keys) : keys' = [keys EXCEPT ![u.name] = left]
           /\ UNCHANGED <<passwd, group, shadow, homes, illegible>>
  <2>1. u \in User
    BY <1>6, ScenarioTypes DEF u, Users, TypeInv, TypeOK
  <2>2. u.name \in Names /\ u.keys \subseteq Keys
    BY <2>1, UserType
  <2> DEFINE name == u.name
             new == u.keys
  <2>3. PICK left \in SUBSET (keys[name] \cup new) : keys' = [keys EXCEPT ![name] = left]
    BY <1>6
  <2> HIDE DEF name, new
  <2>4. keys' \in [Names -> SUBSET Keys]
    BY <1>1, <2>2, <2>3 DEF name, new
  <2> QED BY <1>1, <1>6, <2>4
<1>7. CASE /\ pc = "ssh" /\ at <= Len(scenario.ssh) /\ lookup_user(Entry.name)
           /\ \E new \in SshKeys : \E left \in SUBSET new : keys' = [keys EXCEPT ![Entry.name] = left]
           /\ illegible' = illegible \ {Entry.name}
           /\ UNCHANGED <<passwd, group, shadow, homes>>
  <2>1. Entry.name \in Names /\ \A new \in SshKeys : new \subseteq Keys
    BY <1>7, SshKeysType
  <2>2. PICK new \in SshKeys : \E left \in SUBSET new : keys' = [keys EXCEPT ![Entry.name] = left]
    BY <1>7
  <2>3. PICK left \in SUBSET new : keys' = [keys EXCEPT ![Entry.name] = left]
    BY <2>2
  <2>4. keys' \in [Names -> SUBSET Keys]
    BY <1>1, <2>1, <2>3
  <2> QED BY <1>1, <1>7, <2>4
<1> QED BY <1>2, <1>3, <1>4, <1>5, <1>6, <1>7 DEF BreakOff

\* Every step keeps the types.
LEMMA NextTypes ==
  ASSUME TypeInv, [Next]_vars
  PROVE  TypeInv'
<1>1. /\ scenario \in Scenarios /\ Users \in Seq(User) /\ scenario.ssh \in Seq(SshEntry)
      /\ at \in Nat \ {0} /\ runs \in 1 .. MaxRuns /\ MaxRuns \in Nat
      /\ keys \in [Names -> SUBSET Keys] /\ illegible \subseteq Names
  BY ScenarioTypes, AccountsAssumption DEF TypeInv, TypeOK, Users
<1>2. at \in DOMAIN Users => u \in User /\ u.name \in Names /\ u.keys \subseteq Keys
                             /\ u.password \in {"!", "*", "given", "salted"}
  BY <1>1, ScenarioTypes, UserType DEF u, Users
<1>3. draft.uid \in Id /\ draft.gid \in Id /\ draft.group \in Seq(GroupRow)
  BY DEF TypeInv, TypeOK
<1>4. CASE Resolve
  BY <1>4, ResolvedTypes DEF Resolve, TypeInv, TypeOK, files, Users
<1>5. CASE Refuse
  BY <1>1, <1>5 DEF Refuse, NextUser, TypeInv, TypeOK, files
<1>6. CASE WritePasswd
  <2>1. passwd' \in Seq(PasswdRow)
    BY <1>6, NewPasswdType DEF WritePasswd
  <2> QED BY <1>6, <2>1 DEF WritePasswd, TypeInv, TypeOK, Users
<1>7. CASE WriteShadow
  <2>1. DOMAIN shadow' \subseteq Names /\ \A n \in DOMAIN shadow' : shadow'[n] \in ShadowRow
    BY <1>7, NewShadowType DEF WriteShadow
  <2> QED BY <1>7, <2>1 DEF WriteShadow, TypeInv, TypeOK, Users
<1>8. CASE WriteGroup
  BY <1>3, <1>8 DEF WriteGroup, TypeInv, TypeOK, Users
<1>9. CASE MakeHome
  <2> DEFINE home == [uid |-> draft.uid, gid |-> draft.gid]
  <2>1. home \in [uid : Id, gid : Id] /\ u.name \in Names
    BY <1>2, <1>3, <1>9 DEF MakeHome, TypeInv
  <2>2. homes' = Put(homes, u.name, home) \/ homes' = homes
    BY <1>9 DEF MakeHome
  <2>3. DOMAIN homes \subseteq Names /\ \A n \in DOMAIN homes : homes[n] \in [uid : Id, gid : Id]
    BY DEF TypeInv, TypeOK
  <2> HIDE DEF home
  <2>4. DOMAIN homes' \subseteq Names /\ \A n \in DOMAIN homes' : homes'[n] \in [uid : Id, gid : Id]
    BY <2>1, <2>2, <2>3 DEF Put
  <2> QED BY <1>9, <2>4 DEF MakeHome, TypeInv, TypeOK, Users
<1>10. CASE WriteKeys
  <2>1. keys' \in [Names -> SUBSET Keys]
    BY <1>1, <1>2, <1>10 DEF WriteKeys, TypeInv
  <2> QED BY <1>1, <1>10, <2>1 DEF WriteKeys, NextUser, TypeInv, TypeOK
<1>11. CASE FailWrite
  <2>1. BreakOff \/ UNCHANGED files
    BY <1>11 DEF FailWrite
  <2>2. /\ scenario' = scenario /\ draft' = draft /\ runs' = runs /\ found' = found
        /\ at' = at + 1 /\ pc' = "user" /\ failed' = TRUE
    BY <1>11 DEF FailWrite, NextUser
  <2>3. FilesTyped'
    BY <2>1, BreakOffTypes DEF FilesTyped, TypeInv, TypeOK, files
  <2>4. at' \in Nat \ {0} /\ failed' \in BOOLEAN
    BY <1>1, <2>2
  <2>5. TypeOK'
    BY <2>2, <2>3, <2>4 DEF TypeInv, TypeOK, FilesTyped
  <2> QED BY <2>2, <2>5 DEF TypeInv
<1>12. CASE StartSsh
  BY <1>12 DEF StartSsh, TypeInv, TypeOK, files
<1>13. CASE EnsureKeys
  <2>1. /\ scenario' = scenario /\ pc' = pc /\ draft' = draft /\ runs' = runs /\ found' = found
        /\ at' = at + 1 /\ pc = "ssh" /\ at <= Len(scenario.ssh)
    BY <1>13 DEF EnsureKeys
  <2>2. failed' = failed \/ failed' = TRUE
    BY <1>13 DEF EnsureKeys
  <2>3. FilesTyped'
    <3>1. CASE BreakOff \/ UNCHANGED files
      BY <3>1, BreakOffTypes DEF FilesTyped, TypeInv, TypeOK, files
    <3>2. CASE ~ (BreakOff \/ UNCHANGED files)
      <4>1. /\ \E new \in SshKeys : keys' = [keys EXCEPT ![Entry.name] = new]
            /\ illegible' = illegible \ {Entry.name}
            /\ UNCHANGED <<passwd, group, shadow, homes>>
        BY <1>13, <3>2 DEF EnsureKeys
      <4>2. Entry.name \in Names /\ \A new \in SshKeys : new \subseteq Keys
        BY <2>1, SshKeysType
      <4>3. keys' \in [Names -> SUBSET Keys] /\ illegible' \subseteq Names
        BY <1>1, <4>1, <4>2
      <4> QED BY <4>1, <4>3 DEF FilesTyped, TypeInv, TypeOK
    <3> QED BY <3>1, <3>2
  <2>4. at' \in Nat \ {0} /\ failed' \in BOOLEAN
    <3>1. at' \in Nat \ {0}
      BY <1>1, <2>1
    <3>2. failed \in BOOLEAN
      BY DEF TypeInv, TypeOK
    <3>3. failed' \in BOOLEAN
      BY <2>2, <3>2, Zenon
    <3> QED BY <3>1, <3>3
  <2>5. TypeOK'
    BY <2>1, <2>3, <2>4 DEF TypeInv, TypeOK, FilesTyped
  <2> QED BY <2>1, <2>5 DEF TypeInv
<1>14. CASE End
  BY <1>14 DEF End, TypeInv, TypeOK, files
<1>15. CASE Crash
  <2>1. /\ scenario' = scenario /\ draft' = draft /\ runs' = runs /\ found' = found
        /\ at' = at /\ pc' = "down" /\ failed' = failed /\ BreakOff
    BY <1>15 DEF Crash
  <2>2. FilesTyped'
    BY <2>1, BreakOffTypes DEF FilesTyped, TypeInv, TypeOK
  <2>3. TypeOK'
    BY <2>1, <2>2 DEF TypeInv, TypeOK, FilesTyped
  <2> QED BY <2>1, <2>3 DEF TypeInv
<1>16. CASE RunAgain
  <2>1. draft' \in [uid : Id, gid : Id, group : Seq(GroupRow)]
    <3>1. <<>> \in Seq(GroupRow)
      OBVIOUS
    <3> QED BY <1>16, <3>1, IdIsThere DEF RunAgain, NoDraft
  <2>2. runs' \in 1 .. MaxRuns
    BY <1>1, <1>16 DEF RunAgain
  <2>3. failed' \in BOOLEAN /\ at' \in Nat \ {0} /\ pc' = "user"
    <3>1. failed' = FALSE /\ at' = 1 /\ pc' = "user"
      BY <1>16 DEF RunAgain
    <3>2. failed' \in BOOLEAN
      BY <3>1, Zenon
    <3> QED BY <3>1, <3>2
  <2>4. UNCHANGED <<scenario, passwd, group, shadow, homes, keys, illegible>>
    BY <1>16 DEF RunAgain, files
  <2>6. found' \in Seq(GroupRow)
    BY <1>16, ParsedType DEF RunAgain, TypeInv, TypeOK
  <2>5. TypeOK'
    BY <2>1, <2>2, <2>3, <2>4, <2>6 DEF TypeInv, TypeOK
  <2> QED BY <2>3, <2>5 DEF TypeInv
<1>17. CASE UNCHANGED vars
  BY <1>17 DEF vars, files, TypeInv, TypeOK, Users
<1> QED BY <1>4, <1>5, <1>6, <1>7, <1>8, <1>9, <1>10, <1>11, <1>12, <1>13, <1>14, <1>15,
           <1>16, <1>17 DEF Next

\* The types, and whom a write is for, hold throughout.
LEMMA TypesHold == Spec => []TypeInv
BY InitTypes, NextTypes, PTL DEF Spec

\* What is in the tables and the files, what apply_one has worked out and
\* where the run is always have their types, ids their width.
THEOREM AccountsTypeCorrect == Spec => []TypeOK
<1>1. TypeInv => TypeOK
  BY DEF TypeInv
<1> QED BY <1>1, TypesHold, PTL

-----------------------------------------------------------------------------

\* What the steps do with the tables.
LEMMA TableSteps ==
  ASSUME [Next]_vars
  PROVE  /\ UNCHANGED scenario
         /\ \/ UNCHANGED passwd
            \/ pc = "passwd" /\ passwd' = NewPasswd
            \/ BreaksOff("passwd") /\ passwd' \in Beginnings(NewPasswd)
         /\ UNCHANGED shadow \/ (pc = "shadow" /\ shadow' = NewShadow) \/ BreaksOff("shadow")
<1>1. BreakOff => /\ UNCHANGED passwd \/ (pc = "passwd" /\ passwd' \in Beginnings(NewPasswd))
                  /\ UNCHANGED shadow \/ pc = "shadow"
  BY DEF BreakOff, files
<1>2. CASE FailWrite
  BY <1>1, <1>2 DEF FailWrite, NextUser, BreaksOff, files
<1>3. CASE Crash
  BY <1>1, <1>3 DEF Crash, BreaksOff
<1>4. CASE EnsureKeys
  BY <1>1, <1>4 DEF EnsureKeys, files
<1>5. CASE WritePasswd \/ WriteShadow
  BY <1>5 DEF WritePasswd, WriteShadow
<1>6. CASE Resolve \/ Refuse \/ WriteGroup \/ MakeHome \/ WriteKeys \/ StartSsh \/ End \/ RunAgain
           \/ UNCHANGED vars
  BY <1>6 DEF Resolve, Refuse, WriteGroup, MakeHome, WriteKeys, StartSsh, End, RunAgain, vars, files
<1> QED BY <1>2, <1>3, <1>4, <1>5, <1>6 DEF Next

\* What WritePasswd writes is what apply_one has worked out from the table
\* that is still there.
ResolvedInv ==
  pc = "passwd" => u.uid.kind # "invalid" /\ draft.uid = resolve_uid(Parsed(passwd), u)

\* Nothing happens between apply_one and the write of passwd.
LEMMA NextResolved ==
  ASSUME TypeInv, ResolvedInv, [Next]_vars
  PROVE  ResolvedInv'
<1>1. CASE Resolve
  BY <1>1 DEF Resolve, files, ResolvedInv, u, Users
<1>2. CASE UNCHANGED vars
  BY <1>2 DEF vars, files, ResolvedInv, u, Users
<1>3. CASE ~ Resolve /\ ~ UNCHANGED vars
  <2>1. pc' # "passwd"
    <3> USE <1>3
    <3>1. CASE Refuse \/ WriteKeys \/ FailWrite
      BY <3>1 DEF Refuse, WriteKeys, FailWrite, NextUser
    <3>2. CASE WritePasswd \/ WriteShadow \/ WriteGroup \/ MakeHome
      BY <3>2 DEF WritePasswd, WriteShadow, WriteGroup, MakeHome
    <3>3. CASE StartSsh \/ End \/ Crash \/ RunAgain
      BY <3>3 DEF StartSsh, End, Crash, RunAgain
    <3>4. CASE EnsureKeys
      BY <3>4 DEF EnsureKeys
    <3> QED BY <3>1, <3>2, <3>3, <3>4 DEF Next
  <2> QED BY <2>1 DEF ResolvedInv
<1> QED BY <1>1, <1>2, <1>3

\* Both hold throughout.
LEMMA ResolvedHolds == Spec => [](TypeInv /\ ResolvedInv)
<1>1. Init => ResolvedInv
  BY DEF Init, ResolvedInv
<1> QED BY <1>1, InitTypes, NextTypes, NextResolved, PTL DEF Spec

\* The row that the write of passwd is for, and the table with it.
LEMMA PasswdWritten ==
  ASSUME TypeInv, ResolvedInv, pc = "passwd"
  PROVE  /\ at \in DOMAIN Users /\ u \in User /\ u.uid.kind # "invalid"
         /\ Parsed(passwd) \in Seq(PasswdRow)
         /\ NewPasswd \in Seq(PasswdRow) /\ Parsed(NewPasswd) = NewPasswd /\ Plain(NewPasswd)
         /\ \E row \in PasswdRow :
              /\ row.name = u.name /\ row.uid = resolve_uid(Parsed(passwd), u)
              /\ row.uid = draft.uid /\ row.gid = draft.gid
              /\ NewPasswd = Upsert(Parsed(passwd), row)
<1>1. u.uid.kind # "invalid" /\ draft.uid = resolve_uid(Parsed(passwd), u)
  BY DEF ResolvedInv
<1>2. Parsed(NewPasswd) = NewPasswd
  BY NewPasswdType, ParsedType
<1> QED BY <1>1, <1>2, NewPasswdType

\* Who has a row keeps one, and its uid too unless the stage gives another.
LEMMA RowsKept ==
  ASSUME NEW rows \in Seq(PasswdRow), NEW w \in User, w.uid.kind # "invalid",
         NEW row \in PasswdRow, row.name = w.name, row.uid = resolve_uid(rows, w)
  PROVE  \A r \in Range(rows) :
           /\ Find(Upsert(rows, row), r.name) # 0
           /\ \/ r.name = w.name /\ w.uid.kind = "given"
              \/ Upsert(rows, row)[Find(Upsert(rows, row), r.name)].uid
                   = rows[Find(rows, r.name)].uid
<1> DEFINE new == Upsert(rows, row)
<1>1. /\ Find(new, row.name) # 0 /\ new[Find(new, row.name)] = row
      /\ \A name : name # row.name /\ Find(rows, name) # 0 =>
           Find(new, name) = Find(rows, name) /\ new[Find(rows, name)] = rows[Find(rows, name)]
  BY UpsertFound
<1> HIDE DEF new
<1> SUFFICES ASSUME NEW r \in Range(rows)
             PROVE  /\ Find(new, r.name) # 0
                    /\ \/ r.name = w.name /\ w.uid.kind = "given"
                       \/ new[Find(new, r.name)].uid = rows[Find(rows, r.name)].uid
  BY DEF new
<1>2. Find(rows, r.name) # 0
  <2>1. PICK i \in DOMAIN rows : rows[i] = r
    BY DEF Range
  <2> QED BY <2>1, FindProperty
<1>3. CASE r.name # w.name
  BY <1>1, <1>2, <1>3
<1>4. CASE r.name = w.name
  <2>1. w.uid.kind # "given" => row.uid = rows[Find(rows, w.name)].uid
    BY <1>2, <1>4, UserType DEF resolve_uid
  <2> QED BY <1>1, <1>4, <2>1
<1> QED BY <1>3, <1>4

\* The new table has who has a row, with the uids that the stage does not give.
LEMMA PasswdKept ==
  ASSUME TypeInv, ResolvedInv, pc = "passwd"
  PROVE  \A r \in Range(Parsed(passwd)) :
           /\ Find(NewPasswd, r.name) # 0
           /\ r.name \notin Explicit =>
                NewPasswd[Find(NewPasswd, r.name)].uid = UidOf(passwd, r.name)
<1> DEFINE rows == Parsed(passwd)
           w == u
<1>1. /\ rows \in Seq(PasswdRow) /\ w \in User /\ w.uid.kind # "invalid" /\ at \in DOMAIN Users
  BY PasswdWritten
<1>2. PICK row \in PasswdRow : row.name = w.name /\ row.uid = resolve_uid(rows, w)
                               /\ NewPasswd = Upsert(rows, row)
  BY PasswdWritten
<1>3. w.uid.kind = "given" => w.name \in Explicit
  BY <1>1 DEF Explicit, u
<1> HIDE DEF w
<1>4. \A r \in Range(rows) :
        /\ Find(NewPasswd, r.name) # 0
        /\ \/ r.name = w.name /\ w.uid.kind = "given"
           \/ NewPasswd[Find(NewPasswd, r.name)].uid = rows[Find(rows, r.name)].uid
  <2> HIDE DEF rows
  <2>1. \A r \in Range(rows) :
          /\ Find(Upsert(rows, row), r.name) # 0
          /\ \/ r.name = w.name /\ w.uid.kind = "given"
             \/ Upsert(rows, row)[Find(Upsert(rows, row), r.name)].uid
                  = rows[Find(rows, r.name)].uid
    BY <1>1, <1>2, RowsKept
  <2> QED BY <1>2, <2>1
<1> QED BY <1>3, <1>4 DEF UidOf

\* The rows that a step keeps, and which it may lose.
RowsStay ==
  \A r \in Range(Parsed(passwd)) :
    IF Find(Parsed(passwd'), r.name) = 0 THEN BreaksOff("passwd")
    ELSE r.name \notin Explicit => UidOf(passwd', r.name) = UidOf(passwd, r.name)

LEMMA NextRowsStay ==
  ASSUME TypeInv, ResolvedInv, [Next]_vars
  PROVE  RowsStay
<1>1. CASE UNCHANGED passwd
  <2> DEFINE rows == Parsed(passwd)
  <2>1. rows \in Seq(PasswdRow)
    BY ParsedType DEF TypeInv, TypeOK
  <2>2. \A r \in Range(rows) : Find(rows, r.name) # 0
    <3> HIDE DEF rows
    <3> SUFFICES ASSUME NEW i \in DOMAIN rows PROVE Find(rows, rows[i].name) # 0
      BY DEF Range
    <3> QED BY <2>1, FindProperty
  <2>3. Parsed(passwd') = rows /\ \A name : UidOf(passwd', name) = UidOf(passwd, name)
    BY <1>1
  <2> QED BY <2>2, <2>3 DEF RowsStay
<1>2. CASE pc = "passwd" /\ passwd' = NewPasswd
  <2>1. Parsed(passwd') = NewPasswd /\ \A name : UidOf(passwd', name) = NewPasswd[Find(NewPasswd, name)].uid
    BY <1>2, PasswdWritten DEF UidOf
  <2> QED BY <1>2, <2>1, PasswdKept DEF RowsStay
<1>3. CASE BreaksOff("passwd") /\ passwd' \in Beginnings(NewPasswd)
  <2>1. pc = "passwd"
    BY <1>3 DEF BreaksOff
  <2>2. NewPasswd \in Seq(PasswdRow) /\ Plain(NewPasswd)
    BY <2>1, PasswdWritten
  <2>3. PICK k \in 0 .. Len(NewPasswd) : passwd' = SubSeq(NewPasswd, 1, k)
    BY <1>3 DEF Beginnings
  <2>4. /\ Parsed(passwd') = passwd'
        /\ \A name : Find(passwd', name) # 0 =>
             passwd'[Find(passwd', name)] = NewPasswd[Find(NewPasswd, name)]
    <3> DEFINE cut == SubSeq(NewPasswd, 1, k)
    <3>1. /\ Parsed(cut) = cut
          /\ \A name : Find(cut, name) # 0 =>
               Find(cut, name) = Find(NewPasswd, name) /\ cut[Find(cut, name)] = NewPasswd[Find(cut, name)]
      BY <2>2, BeginningRows
    <3>2. passwd' = cut
      BY <2>3
    <3> HIDE DEF cut
    <3> QED BY <3>1, <3>2
  <2>5. \A name : Find(Parsed(passwd'), name) # 0 =>
                   UidOf(passwd', name) = NewPasswd[Find(NewPasswd, name)].uid
    BY <2>4 DEF UidOf
  <2> QED BY <1>3, <2>1, <2>5, PasswdKept DEF RowsStay
<1> QED BY <1>1, <1>2, <1>3, TableSteps

\* However often the stage is run, and whatever fails, an account loses its row
\* or its aging fields only by a write of their own table that breaks off, and
\* one that has a row has no other uid than before or than the stage says.
THEOREM NoAccountLost == Spec => AccountsKept
<1> DEFINE Kept ==
      /\ \A r \in Range(Parsed(passwd)) :
           IF Find(Parsed(passwd'), r.name) = 0 THEN BreaksOff("passwd")
           ELSE r.name \notin Explicit => UidOf(passwd', r.name) = UidOf(passwd, r.name)
      /\ \A n \in DOMAIN shadow :
           \/ n \in DOMAIN shadow' /\ shadow'[n].aging = shadow[n].aging
           \/ BreaksOff("shadow")
<1>1. ASSUME TypeInv, ResolvedInv, [Next]_vars PROVE Kept
  <2>1. RowsStay
    BY <1>1, NextRowsStay
  <2>2. UNCHANGED shadow \/ shadow' = NewShadow \/ BreaksOff("shadow")
    BY <1>1, TableSteps
  <2>3. shadow' = NewShadow => \A n \in DOMAIN shadow :
                                 n \in DOMAIN shadow' /\ shadow'[n].aging = shadow[n].aging
    BY DEF NewShadow, Put
  <2> QED BY <2>1, <2>2, <2>3 DEF RowsStay
<1>2. Spec => [][Kept]_vars
  <2> HIDE DEF Kept
  <2> QED BY <1>1, ResolvedHolds, PTL DEF Spec
<1> QED BY <1>2 DEF AccountsKept

-----------------------------------------------------------------------------

LastId == IdLimit - 1

\* Who got the last id may keep it: no user of the stage takes it away.
Pinned(rows) ==
  \A i \in DOMAIN rows : rows[i].uid = LastId =>
    \E k \in DOMAIN Users : /\ Users[k].name = rows[i].name
                            /\ Users[k].uid.kind = "given" => Users[k].uid.id = LastId

GivenNames == {r.name : r \in Range(Parsed(scenario.passwd))}

Apart(one, other) ==
  one.uid = other.uid => \/ {one.name, other.name} \subseteq GivenNames
                         \/ {one.name, other.name} \cap Explicit # {}

\* The rows from the first to this one that have not got the last id.
NoLast(rows, j) == \A k \in 1 .. j : rows[k].uid # LastId

\* Each is apart from those before it, unless the last id is among them: this
\* stays so when the end of the table is lost.
AllApart(rows) ==
  \A i, j \in DOMAIN rows : i < j /\ NoLast(rows, j) => Apart(rows[i], rows[j])

\* Once the last id has been given out it stays in use, by a row in front of
\* those whose ids have wrapped; until then new ids are above all others.
UidInv ==
  LastId \notin Uids(Parsed(scenario.passwd)) =>
    Pinned(Parsed(passwd)) /\ AllApart(Parsed(passwd))

\* A row that has the last id keeps it when it is written again.
LEMMA LastIdStays ==
  ASSUME TypeInv, ResolvedInv, pc = "passwd", Pinned(Parsed(passwd)),
         NEW i \in DOMAIN Parsed(passwd), Parsed(passwd)[i].uid = LastId
  PROVE  NewPasswd[i].uid = LastId
<1> DEFINE rows == Parsed(passwd)
           w == u
<1>1. /\ rows \in Seq(PasswdRow) /\ w \in User /\ w.uid.kind # "invalid"
      /\ at \in DOMAIN Users /\ w = Users[at]
  BY PasswdWritten DEF u
<1>2. PICK row \in PasswdRow : row.name = w.name /\ row.uid = resolve_uid(rows, w)
                               /\ NewPasswd = Upsert(rows, row)
  BY PasswdWritten
<1>3. \A k, j \in DOMAIN Users : Users[k].name = Users[j].name => k = j
  BY ScenarioTypes DEF TypeInv, TypeOK, Users
<1> HIDE DEF w
<1>4. PutAt(rows, NewPasswd, Spot(rows, w.name), row)
  BY <1>1, <1>2, UpsertRows
<1>5. CASE i # Spot(rows, w.name)
  BY <1>4, <1>5 DEF PutAt
<1>6. CASE i = Spot(rows, w.name)
  <2>1. Find(rows, w.name) = i /\ rows[i].name = w.name /\ i # 0
    <3> HIDE DEF rows
    <3>1. Len(rows) \in Nat /\ DOMAIN rows = 1 .. Len(rows) /\ i \in DOMAIN rows
      BY <1>1 DEF rows
    <3>2. Find(rows, w.name) # 0
      BY <1>6, <3>1 DEF Spot
    <3>3. Find(rows, w.name) = i
      BY <1>6, <3>2 DEF Spot
    <3> QED BY <1>1, <3>1, <3>2, <3>3, FindProperty
  <2>2. w.uid.kind = "given" => w.uid.id = LastId
    <3>1. PICK k \in DOMAIN Users : /\ Users[k].name = rows[i].name
                                    /\ Users[k].uid.kind = "given" => Users[k].uid.id = LastId
      BY DEF Pinned
    <3>2. k = at
      BY <1>1, <1>3, <2>1, <3>1
    <3> QED BY <1>1, <3>1, <3>2
  <2>3. row.uid = LastId
    <3>1. w.uid.kind = "given" \/ w.uid.kind = "auto"
      BY <1>1, UserType
    <3>2. w.uid.kind = "given" => resolve_uid(rows, w) = w.uid.id
      BY DEF resolve_uid
    <3>3. w.uid.kind = "auto" => resolve_uid(rows, w) = rows[i].uid
      BY <2>1 DEF resolve_uid
    <3> QED BY <1>2, <2>2, <3>1, <3>2, <3>3
  <2> QED BY <1>4, <1>6, <2>3 DEF PutAt
<1> QED BY <1>5, <1>6

\* A row that is given the last id is pinned.
LEMMA StaysPinned ==
  ASSUME TypeInv, ResolvedInv, pc = "passwd", Pinned(Parsed(passwd))
  PROVE  Pinned(NewPasswd)
<1> DEFINE rows == Parsed(passwd)
           w == u
<1>1. /\ rows \in Seq(PasswdRow) /\ w \in User /\ w.uid.kind # "invalid"
      /\ at \in DOMAIN Users /\ w = Users[at]
  BY PasswdWritten DEF u
<1>2. PICK row \in PasswdRow : row.name = w.name /\ row.uid = resolve_uid(rows, w)
                               /\ NewPasswd = Upsert(rows, row)
  BY PasswdWritten
<1> HIDE DEF w
<1>3. PutAt(rows, NewPasswd, Spot(rows, w.name), row)
  BY <1>1, <1>2, UpsertRows
<1>4. w.uid.kind = "given" => row.uid = w.uid.id
  BY <1>2 DEF resolve_uid
<1> SUFFICES ASSUME NEW i \in DOMAIN NewPasswd, NewPasswd[i].uid = LastId
             PROVE  \E k \in DOMAIN Users :
                      /\ Users[k].name = NewPasswd[i].name
                      /\ Users[k].uid.kind = "given" => Users[k].uid.id = LastId
  BY DEF Pinned
<1>5. CASE i = Spot(rows, w.name)
  BY <1>1, <1>2, <1>3, <1>4, <1>5 DEF PutAt
<1>6. CASE i # Spot(rows, w.name)
  <2>1. i \in DOMAIN rows /\ NewPasswd[i] = rows[i]
    BY <1>3, <1>6 DEF PutAt
  <2> QED BY <2>1 DEF Pinned
<1> QED BY <1>5, <1>6

\* The row written is apart from those that were apart.
LEMMA RowApart ==
  ASSUME TypeInv, ResolvedInv, pc = "passwd", Pinned(Parsed(passwd)), AllApart(Parsed(passwd))
  PROVE  AllApart(NewPasswd)
<1> DEFINE rows == Parsed(passwd)
           w == u
           spot == Spot(rows, w.name)
           new == NewPasswd
<1>1. /\ rows \in Seq(PasswdRow) /\ w \in User /\ w.uid.kind # "invalid" /\ at \in DOMAIN Users
      /\ new \in Seq(PasswdRow)
  BY PasswdWritten
<1>2. PICK row \in PasswdRow : row.name = w.name /\ row.uid = resolve_uid(rows, w)
                               /\ new = Upsert(rows, row)
  BY PasswdWritten
<1>3. w.uid.kind = "given" => w.name \in Explicit
  BY <1>1 DEF Explicit, u
<1>4. \A i \in DOMAIN rows : rows[i].uid = LastId => new[i].uid = LastId
  BY LastIdStays
<1>5. w.uid.kind \in {"given", "auto"}
  BY <1>1, UserType
<1> HIDE DEF w, new
<1>6. PutAt(rows, new, spot, row)
  BY <1>1, <1>2, UpsertRows
<1>7. /\ Find(rows, w.name) # 0 => spot = Find(rows, w.name) /\ spot \in DOMAIN rows
      /\ Find(rows, w.name) = 0 => spot = Len(rows) + 1
  BY <1>1, FindProperty DEF Spot
<1>8. /\ \A j \in DOMAIN rows : rows[j].uid \in Id /\ rows[j].uid \in Uids(rows)
      /\ \A x \in Uids(rows) : \E j \in DOMAIN rows : rows[j].uid = x
  <2> HIDE DEF rows
  <2>1. \A j \in DOMAIN rows : rows[j] \in PasswdRow
    BY <1>1
  <2> QED BY <2>1, RowTypes DEF Uids, Range
<1>9. LastId \notin Uids(rows) => \A j \in DOMAIN rows : rows[j].uid < NextId(Uids(rows))
  <2>1. Uids(rows) \subseteq Id
    BY <1>8
  <2> HIDE DEF rows
  <2> QED BY <1>8, <2>1, NextIdProperty DEF LastId
<1>10. /\ Len(rows) \in Nat /\ DOMAIN rows = 1 .. Len(rows)
       /\ Len(new) \in Nat /\ DOMAIN new = 1 .. Len(new)
  <2> HIDE DEF rows
  <2> QED BY <1>1
<1> HIDE DEF spot
<1> SUFFICES ASSUME NEW i \in DOMAIN new, NEW j \in DOMAIN new, i < j, NoLast(new, j)
             PROVE  Apart(new[i], new[j])
  BY DEF AllApart, new
<1>11. CASE w.uid.kind = "given" /\ (i = spot \/ j = spot)
  <2>1. new[spot].name \in Explicit
    BY <1>2, <1>3, <1>6, <1>11 DEF PutAt
  <2>2. {new[i].name, new[j].name} \cap Explicit # {}
    BY <1>11, <2>1
  <2> QED BY <2>2 DEF Apart
<1>12. CASE w.uid.kind = "auto" /\ Find(rows, w.name) = 0 /\ (i = spot \/ j = spot)
  <2>1. j = spot /\ i \in DOMAIN rows /\ spot = Len(rows) + 1
    <3> HIDE DEF rows
    <3> QED BY <1>6, <1>7, <1>10, <1>12 DEF PutAt
  <2>2. \A k \in DOMAIN rows : rows[k].uid # LastId
    <3>1. \A k \in DOMAIN rows : k \in 1 .. j
      <4> HIDE DEF rows
      <4> QED BY <1>10, <2>1
    <3>2. \A k \in DOMAIN rows : new[k].uid # LastId
      BY <3>1 DEF NoLast
    <3> QED BY <1>4, <3>2
  <2>3. LastId \notin Uids(rows)
    BY <1>8, <2>2
  <2>4. new[j].uid = NextId(Uids(rows)) /\ new[i] = rows[i]
    <3>1. i # spot
      <4> HIDE DEF rows
      <4> QED BY <1>10, <2>1
    <3>2. row.uid = NextId(Uids(rows))
      BY <1>2, <1>12 DEF resolve_uid
    <3> QED BY <1>6, <2>1, <3>1, <3>2 DEF PutAt
  <2>5. rows[i].uid < NextId(Uids(rows)) /\ rows[i].uid \in Id
    BY <1>8, <1>9, <2>1, <2>3
  <2>6. new[i].uid # new[j].uid
    BY <2>4, <2>5 DEF Id
  <2> QED BY <2>6 DEF Apart
<1>13. CASE \/ i # spot /\ j # spot
            \/ w.uid.kind = "auto" /\ Find(rows, w.name) # 0
  <2>1. \A k \in {i, j} : k \in DOMAIN rows /\ new[k].uid = rows[k].uid /\ new[k].name = rows[k].name
    <3>1. CASE i # spot /\ j # spot
      BY <1>6, <3>1 DEF PutAt
    <3>2. CASE w.uid.kind = "auto" /\ Find(rows, w.name) # 0
      <4>1. row.uid = rows[spot].uid /\ row.name = rows[spot].name /\ spot \in DOMAIN rows
        BY <1>1, <1>2, <1>7, <3>2, FindProperty DEF resolve_uid
      <4> QED BY <1>6, <4>1 DEF PutAt
    <3> QED BY <1>13, <3>1, <3>2
  <2>2. NoLast(rows, j)
    <3>1. \A k \in 1 .. j : k \in DOMAIN rows /\ new[k].uid # LastId
      <4>1. j \in DOMAIN rows
        BY <2>1
      <4> HIDE DEF rows
      <4> QED BY <1>10, <4>1 DEF NoLast
    <3> QED BY <1>4, <3>1 DEF NoLast
  <2>3. Apart(rows[i], rows[j])
    BY <2>1, <2>2 DEF AllApart
  <2> QED BY <2>1, <2>3 DEF Apart
<1> QED BY <1>5, <1>11, <1>12, <1>13

\* Rows apart stay apart when the end of the table is lost.
LEMMA CutApart ==
  ASSUME NEW rows \in Seq(PasswdRow), Plain(rows), Pinned(rows), AllApart(rows),
         NEW k \in 0 .. Len(rows)
  PROVE  LET cut == SubSeq(rows, 1, k)
         IN  Parsed(cut) = cut /\ Pinned(cut) /\ AllApart(cut)
<1> DEFINE cut == SubSeq(rows, 1, k)
<1>1. /\ DOMAIN cut = 1 .. k /\ Parsed(cut) = cut
      /\ \A i \in 1 .. k : i \in DOMAIN rows /\ cut[i] = rows[i]
  BY BeginningRows
<1> HIDE DEF cut
<1>2. Pinned(cut)
  BY <1>1 DEF Pinned
<1>3. AllApart(cut)
  <2> SUFFICES ASSUME NEW i \in 1 .. k, NEW j \in 1 .. k, i < j, NoLast(cut, j)
               PROVE  Apart(cut[i], cut[j])
    BY <1>1 DEF AllApart
  <2>1. \A l \in 1 .. j : l \in 1 .. k
    OBVIOUS
  <2>2. NoLast(rows, j)
    BY <1>1, <2>1 DEF NoLast
  <2>3. Apart(rows[i], rows[j])
    BY <1>1, <2>2 DEF AllApart
  <2> QED BY <1>1, <2>3
<1> QED BY <1>1, <1>2, <1>3 DEF cut

\* Every step keeps the uids apart.
LEMMA NextUids ==
  ASSUME TypeInv, ResolvedInv, UidInv, [Next]_vars
  PROVE  UidInv'
<1>1. UNCHANGED scenario /\ Users' = Users /\ Explicit' = Explicit /\ GivenNames' = GivenNames
  BY TableSteps DEF Users, Explicit, GivenNames
<1> SUFFICES ASSUME LastId \notin Uids(Parsed(scenario.passwd))
             PROVE  (Pinned(Parsed(passwd)) /\ AllApart(Parsed(passwd)))'
  BY <1>1 DEF UidInv
<1>2. Pinned(Parsed(passwd)) /\ AllApart(Parsed(passwd))
  BY DEF UidInv
<1>3. Pinned(Parsed(passwd')) /\ AllApart(Parsed(passwd'))
  <2>1. CASE UNCHANGED passwd
    BY <1>2, <2>1
  <2>2. CASE pc = "passwd" /\ passwd' = NewPasswd
    BY <1>2, <2>2, PasswdWritten, StaysPinned, RowApart
  <2>3. CASE BreaksOff("passwd") /\ passwd' \in Beginnings(NewPasswd)
    <3>1. pc = "passwd"
      BY <2>3 DEF BreaksOff
    <3>2. NewPasswd \in Seq(PasswdRow) /\ Plain(NewPasswd)
      BY <3>1, PasswdWritten
    <3>3. Pinned(NewPasswd) /\ AllApart(NewPasswd)
      BY <1>2, <3>1, StaysPinned, RowApart
    <3>4. PICK k \in 0 .. Len(NewPasswd) : passwd' = SubSeq(NewPasswd, 1, k)
      BY <2>3 DEF Beginnings
    <3> DEFINE cut == SubSeq(NewPasswd, 1, k)
    <3>5. Parsed(cut) = cut /\ Pinned(cut) /\ AllApart(cut)
      BY <3>2, <3>3, CutApart
    <3> HIDE DEF cut
    <3>6. passwd' = cut
      BY <3>4 DEF cut
    <3> QED BY <3>5, <3>6
  <2> QED BY <2>1, <2>2, <2>3, TableSteps
<1>4. (Pinned(Parsed(passwd)))'
  BY <1>1, <1>3 DEF Pinned
<1>5. (AllApart(Parsed(passwd)))'
  BY <1>1, <1>3 DEF AllApart, Apart, NoLast
<1> QED BY <1>4, <1>5

\* Two accounts share a uid only if they did before or the stage gives one of
\* them its uid, as long as the last id is not in use and was not at the start.
THEOREM UidsOfTheirOwn == Spec => []UidsDistinct
<1>1. Init => UidInv
  <2> SUFFICES ASSUME Init PROVE UidInv
    OBVIOUS
  <2> DEFINE rows == Parsed(passwd)
  <2>1. rows = Parsed(scenario.passwd)
    BY DEF Init
  <2>2. AllApart(rows)
    BY <2>1 DEF AllApart, Apart, GivenNames, Range
  <2>3. LastId \notin Uids(Parsed(scenario.passwd)) => Pinned(rows)
    BY <2>1 DEF Pinned, Uids, Range
  <2> QED BY <2>2, <2>3 DEF UidInv
<1>2. TypeInv /\ UidInv => UidsDistinct
  <2> DEFINE rows == Parsed(passwd)
  <2> SUFFICES ASSUME TypeInv, UidInv, LastId \notin Uids(rows), LastId \notin Uids(Parsed(scenario.passwd)),
                      NEW i \in DOMAIN rows, NEW j \in DOMAIN rows, i # j
               PROVE  Apart(rows[i], rows[j])
    BY DEF UidsDistinct, Apart, GivenNames, LastId
  <2>1. AllApart(rows)
    BY DEF UidInv
  <2>2. rows \in Seq(PasswdRow)
    BY ParsedType DEF TypeInv, TypeOK
  <2>3. \A k \in DOMAIN rows : rows[k].uid # LastId
    BY DEF Uids, Range
  <2> HIDE DEF rows
  <2>4. DOMAIN rows = 1 .. Len(rows) /\ Len(rows) \in Nat
    BY <2>2
  <2>5. NoLast(rows, i) /\ NoLast(rows, j)
    <3>1. \A k \in 1 .. i : k \in DOMAIN rows
      BY <2>4
    <3>2. \A k \in 1 .. j : k \in DOMAIN rows
      BY <2>4
    <3> QED BY <2>3, <3>1, <3>2 DEF NoLast
  <2>6. i < j \/ j < i
    BY <2>4
  <2>7. Apart(rows[i], rows[j]) \/ Apart(rows[j], rows[i])
    BY <2>1, <2>5, <2>6 DEF AllApart
  <2> QED BY <2>7 DEF Apart
<1>3. Spec => [](TypeInv /\ UidInv)
  BY <1>1, NextUids, ResolvedHolds, PTL DEF Spec
<1> QED BY <1>2, <1>3, PTL

-----------------------------------------------------------------------------

\* The first group that has the number.
FindGid(rows, id) ==
  LET hits == {i \in 1 .. Len(rows) : rows[i].gid = id}
  IN  IF hits # {} THEN Min(hits) ELSE 0

\* A numeric primary group is looked up, and never made.
LEMMA PrimaryPlace ==
  ASSUME NEW rows, NEW w
  PROVE  w.primary.kind = "numeric" =>
           resolve_primary_group(rows, w) = [rows |-> rows, place |-> FindGid(rows, w.primary.id)]
BY DEF resolve_primary_group, SelectInSeq, FindGid

\* As groups grow, the same ones are found by their numbers and names.
LEMMA GidAgain ==
  ASSUME NEW rows \in Seq(GroupRow), NEW more \in Seq(GroupRow), Grown(rows, more), NEW id,
         FindGid(rows, id) # 0
  PROVE  FindGid(more, id) = FindGid(rows, id)
<1> DEFINE hits == {i \in 1 .. Len(rows) : rows[i].gid = id}
           again == {i \in 1 .. Len(more) : more[i].gid = id}
<1>1. /\ Len(rows) \in Nat /\ DOMAIN rows = 1 .. Len(rows)
      /\ Len(more) \in Nat /\ DOMAIN more = 1 .. Len(more) /\ Len(rows) <= Len(more)
      /\ \A i \in DOMAIN rows : more[i].gid = rows[i].gid
  BY DEF Grown
<1>2. hits # {} /\ FindGid(rows, id) = Min(hits)
  BY DEF FindGid
<1>3. hits \subseteq again /\ again \subseteq Nat /\ hits \subseteq Nat
  BY <1>1
<1>4. \A i \in again : i <= Len(rows) => i \in hits
  BY <1>1
<1>5. \A i \in hits : i <= Len(rows)
  BY <1>1
<1>6. again # {} => FindGid(more, id) = Min(again)
  BY DEF FindGid
<1> HIDE DEF hits, again
<1>7. Min(hits) \in hits /\ \A j \in hits : Min(hits) <= j
  BY <1>2, <1>3, MinProperty
<1>8. again # {} /\ Min(again) \in again /\ \A j \in again : Min(again) <= j
  BY <1>2, <1>3, MinProperty
<1>9. /\ Min(again) \in Nat /\ Min(hits) \in Nat
      /\ Min(again) <= Min(hits) /\ Min(hits) <= Len(rows)
  BY <1>3, <1>5, <1>7, <1>8
<1> DEFINE p == Min(again)
           q == Min(hits)
<1>10. p <= Len(rows) /\ (q <= p => p = q)
  <2> HIDE DEF p, q
  <2> QED BY <1>1, <1>9 DEF p, q
<1>11. Min(again) = Min(hits)
  BY <1>4, <1>7, <1>8, <1>10
<1> QED BY <1>2, <1>6, <1>8, <1>11

\* As groups grow, the same ones are found by their names.
LEMMA GrownFound ==
  ASSUME NEW rows \in Seq(GroupRow), NEW more \in Seq(GroupRow), Grown(rows, more), NEW name,
         Find(rows, name) # 0
  PROVE  Find(more, name) = Find(rows, name) /\ Find(rows, name) \in DOMAIN rows
<1>1. Len(rows) <= Len(more) /\ \A i \in DOMAIN rows : more[i].name = rows[i].name
  BY DEF Grown
<1>2. Find(more, name) = Find(rows, name)
  BY <1>1, FoundAgain
<1> QED BY <1>2, FindProperty

\* What grows and grows again has grown.
LEMMA GrownTwice ==
  ASSUME NEW rows \in Seq(GroupRow), NEW more \in Seq(GroupRow), NEW most \in Seq(GroupRow),
         Grown(rows, more), Grown(more, most)
  PROVE  Grown(rows, most)
<1>1. /\ DOMAIN rows = 1 .. Len(rows) /\ DOMAIN more = 1 .. Len(more)
      /\ Len(rows) \in Nat /\ Len(more) \in Nat /\ Len(most) \in Nat
  OBVIOUS
<1> QED BY <1>1 DEF Grown

\* Once there is a primary group it stays the primary group.
LEMMA PrimaryAgain ==
  ASSUME NEW rows \in Seq(GroupRow), NEW w \in User, NEW more \in Seq(GroupRow),
         resolve_primary_group(rows, w).place # 0,
         Grown(resolve_primary_group(rows, w).rows, more)
  PROVE  resolve_primary_group(more, w)
           = [rows |-> more, place |-> resolve_primary_group(rows, w).place]
<1> DEFINE g == resolve_primary_group(rows, w)
<1>1. CASE w.primary.kind = "numeric"
  <2>1. g = [rows |-> rows, place |-> FindGid(rows, w.primary.id)]
    BY <1>1, PrimaryPlace
  <2>2. resolve_primary_group(more, w)
          = [rows |-> more, place |-> FindGid(more, w.primary.id)]
    BY <1>1, PrimaryPlace
  <2>3. FindGid(rows, w.primary.id) # 0 /\ Grown(rows, more)
    BY <2>1
  <2>4. FindGid(more, w.primary.id) = FindGid(rows, w.primary.id)
    BY <2>3, GidAgain
  <2> QED BY <2>1, <2>2, <2>4
<1>2. CASE w.primary.kind # "numeric"
  <2> DEFINE name == GroupOf(w)
             new == [shape |-> "row", name |-> name, gid |-> NextId(Gids(rows)), members |-> {}]
  <2>1. g = IF Find(rows, name) # 0 THEN [rows |-> rows, place |-> Find(rows, name)]
            ELSE [rows |-> Append(rows, new), place |-> Len(rows) + 1]
    BY <1>2 DEF resolve_primary_group
  <2>2. Find(more, name) # 0 =>
          resolve_primary_group(more, w) = [rows |-> more, place |-> Find(more, name)]
    BY <1>2 DEF resolve_primary_group
  <2>3. g.rows \in Seq(GroupRow) /\ g.place \in DOMAIN g.rows
    BY PrimaryRows
  <2>4. Find(g.rows, name) = g.place
    <3>1. CASE Find(rows, name) # 0
      BY <2>1, <3>1
    <3>2. CASE Find(rows, name) = 0
      <4>1. g.rows = Append(rows, new) /\ g.place = Len(rows) + 1 /\ new.name = name
        BY <2>1, <3>2
      <4>2. Len(rows) \in Nat /\ DOMAIN rows = 1 .. Len(rows)
            /\ \A i \in DOMAIN rows : rows[i].name # name
        BY <3>2, FindProperty
      <4>3. \A i \in DOMAIN rows : Append(rows, new)[i] = rows[i]
        BY <4>2
      <4>4. g.rows[g.place].name = name
        <5> HIDE DEF new, g
        <5>1. Append(rows, new)[Len(rows) + 1] = new
          BY <4>2
        <5> QED BY <4>1, <5>1
      <4>5. DOMAIN g.rows = 1 .. Len(rows) + 1
        <5> HIDE DEF new, g
        <5> QED BY <4>1, <4>2
      <4> HIDE DEF new, name, g
      <4>6. \A j \in DOMAIN g.rows : j < g.place => g.rows[j].name # name
        <5> SUFFICES ASSUME NEW j \in DOMAIN g.rows, j < g.place PROVE g.rows[j].name # name
          OBVIOUS
        <5>1. j \in DOMAIN rows
          BY <4>1, <4>2, <4>5
        <5> QED BY <4>1, <4>2, <4>3, <5>1
      <4> QED BY <2>3, <4>4, <4>6, FoundFirst
    <3> QED BY <3>1, <3>2
  <2> HIDE DEF g, name
  <2>5. g.place # 0 /\ Grown(g.rows, more)
    BY DEF g
  <2>6. Find(more, name) = Find(g.rows, name)
    BY <2>3, <2>4, <2>5, GrownFound
  <2> QED BY <2>2, <2>4, <2>5, <2>6 DEF g
<1> QED BY <1>1, <1>2

\* The groups that this run has found, as long as nothing fails: a write that
\* breaks off may lose them.
First == IF failed \/ pc = "down" THEN <<>> ELSE found

GidIn(rows, w) == rows[resolve_primary_group(rows, w).place].gid

\* The user is in all its groups, whose tables are as the program writes them.
Joined(first, rows, w) ==
  /\ rows \in Seq(GroupRow) /\ Plain(rows)
  /\ resolve_primary_group(rows, w).rows = rows /\ resolve_primary_group(rows, w).place # 0
  /\ w.name \in rows[Find(rows, rows[resolve_primary_group(rows, w).place].name)].members
  /\ \A name \in w.groups :
       Find(first, name) # 0 => /\ Find(rows, name) # 0
                                /\ w.name \in rows[Find(rows, name)].members

\* Its row, with these ids.
RowFor(rows, w, uid, gid) ==
  /\ Plain(rows) /\ Find(rows, w.name) # 0
  /\ rows[Find(rows, w.name)].uid = uid /\ rows[Find(rows, w.name)].gid = gid

PasswordSet(rows, w) == w.name \in DOMAIN rows /\ rows[w.name].password = w.password

HomeMade(dirs, w, uid, gid) ==
  w.home => w.name \in DOMAIN dirs /\ dirs[w.name] = [uid |-> uid, gid |-> gid]

\* How far apply_one is with the current user.
WorkInv ==
  /\ pc \in {"passwd", "shadow", "group"} =>
       Joined(First, draft.group, u) /\ GidIn(draft.group, u) = draft.gid
       /\ Grown(Parsed(group), draft.group)
  /\ pc \in {"home", "keys"} => Joined(First, group, u) /\ GidIn(group, u) = draft.gid
  /\ pc \in {"shadow", "group", "home", "keys"} => RowFor(passwd, u, draft.uid, draft.gid)
  /\ pc \in {"group", "home", "keys"} => PasswordSet(shadow, u)
  /\ pc = "keys" => HomeMade(homes, u, draft.uid, draft.gid)

\* The keys are there, unless the ssh plugin has lost them by a read error.
KeysThere(w) ==
  /\ w.keys # {} => w.name \notin illegible
  /\ \/ w.keys \subseteq keys[w.name]
     \/ "read" \in scenario.faults /\ \E j \in DOMAIN scenario.ssh : scenario.ssh[j].name = w.name

\* Nothing is left to do for the user.
Complete(w, uid) ==
  /\ RowFor(passwd, w, uid, GidIn(group, w)) /\ Joined(First, group, w)
  /\ PasswordSet(shadow, w) /\ HomeMade(homes, w, uid, GidIn(group, w)) /\ KeysThere(w)

\* As long as nothing fails the users before the current one are complete.
DoneInv ==
  ~ failed /\ pc # "down" =>
    \A i \in DOMAIN Users :
      i < at \/ pc \in {"ssh", "done"} => \E uid \in Id : Complete(Users[i], uid)

\* The groups that this run has found are there, until something fails.
GroupsInv == Grown(First, Parsed(group))

\* A member stays one, and keeps its primary gid.
LEMMA JoinedStays ==
  ASSUME NEW first, NEW rows, NEW w \in User, Joined(first, rows, w),
         NEW more \in Seq(GroupRow), Plain(more), Grown(rows, more)
  PROVE  Joined(first, more, w) /\ GidIn(more, w) = GidIn(rows, w)
<1> DEFINE g == resolve_primary_group(rows, w)
           again == resolve_primary_group(more, w)
<1>1. rows \in Seq(GroupRow) /\ g.rows = rows /\ g.place # 0
  BY DEF Joined
<1>2. again = [rows |-> more, place |-> g.place]
  BY <1>1, PrimaryAgain
<1>3. g.place \in DOMAIN rows
  BY <1>1, PrimaryRows
<1>4. w.name \in rows[Find(rows, rows[g.place].name)].members
      /\ \A name \in w.groups : Find(first, name) # 0 =>
           Find(rows, name) # 0 /\ w.name \in rows[Find(rows, name)].members
  BY DEF Joined
<1>5. GidIn(rows, w) = rows[g.place].gid /\ GidIn(more, w) = more[again.place].gid
  BY DEF GidIn
<1> HIDE DEF g
<1>6. more[g.place].name = rows[g.place].name /\ more[g.place].gid = rows[g.place].gid
  BY <1>3 DEF Grown
<1>7. \A i \in DOMAIN rows : rows[i].members \subseteq more[i].members
  BY DEF Grown
<1>8. \A name : Find(rows, name) # 0 =>
        Find(more, name) = Find(rows, name) /\ Find(rows, name) \in DOMAIN rows
  BY <1>1, GrownFound
<1>9. Find(rows, rows[g.place].name) # 0
  BY <1>1, <1>3, FindProperty
<1>10. w.name \in more[Find(more, more[g.place].name)].members
  BY <1>4, <1>6, <1>7, <1>8, <1>9
<1>11. \A name \in w.groups : Find(first, name) # 0 =>
         Find(more, name) # 0 /\ w.name \in more[Find(more, name)].members
  BY <1>4, <1>7, <1>8
<1>12. again.rows = more /\ again.place # 0 /\ again.place = g.place
  BY <1>1, <1>2
<1> HIDE DEF again
<1>13. w.name \in more[Find(more, more[again.place].name)].members
  BY <1>10, <1>12
<1>14. Joined(first, more, w)
  BY <1>11, <1>12, <1>13 DEF Joined, again
<1> QED BY <1>5, <1>6, <1>12, <1>14

\* What apply_one works out for the groups.
LEMMA ResolvedGroups ==
  ASSUME NEW first \in Seq(GroupRow), NEW rows \in Seq(GroupRow), Plain(rows), Grown(first, rows),
         NEW w \in User, resolve_primary_group(rows, w).place # 0
  PROVE  LET g == resolve_primary_group(rows, w)
             more == WithMember(g.rows, g.rows[g.place].name, w)
         IN  /\ Joined(first, more, w) /\ GidIn(more, w) = g.rows[g.place].gid
             /\ Grown(rows, more)
<1> DEFINE g == resolve_primary_group(rows, w)
           name == g.rows[g.place].name
           more == WithMember(g.rows, name, w)
<1>1. g.rows \in Seq(GroupRow) /\ Grown(rows, g.rows) /\ Plain(g.rows) /\ g.place \in DOMAIN g.rows
  BY PrimaryRows
<1> HIDE DEF g
<1>2. /\ more \in Seq(GroupRow) /\ Grown(g.rows, more) /\ Plain(more)
      /\ \A n \in w.groups \cup {name} :
           Find(g.rows, n) # 0 => w.name \in more[Find(g.rows, n)].members
  BY <1>1, JoinedRows
<1> HIDE DEF more
<1>3. resolve_primary_group(more, w) = [rows |-> more, place |-> g.place]
  BY <1>2, PrimaryAgain DEF g
<1>4. more[g.place].name = name /\ more[g.place].gid = g.rows[g.place].gid
  BY <1>1, <1>2 DEF Grown
<1>5. \A n : Find(g.rows, n) # 0 => Find(more, n) = Find(g.rows, n)
  BY <1>1, <1>2, GrownFound
<1>6. Find(g.rows, name) # 0
  BY <1>1, FindProperty
<1>7. w.name \in more[Find(more, name)].members
  BY <1>2, <1>5, <1>6
<1>8. ASSUME NEW n \in w.groups, Find(first, n) # 0
      PROVE  Find(more, n) # 0 /\ w.name \in more[Find(more, n)].members
  <2>1. Find(rows, n) # 0
    BY <1>8, GrownFound
  <2>2. Find(g.rows, n) # 0
    BY <1>1, <2>1, GrownFound
  <2> QED BY <1>2, <1>5, <2>2
<1>9. g.place # 0
  BY DEF g
<1>10. Joined(first, more, w)
  BY <1>2, <1>3, <1>4, <1>7, <1>8, <1>9 DEF Joined
<1>11. GidIn(more, w) = g.rows[g.place].gid
  BY <1>3, <1>4 DEF GidIn
<1>12. Grown(rows, more)
  BY <1>1, <1>2, GrownTwice
<1> QED BY <1>10, <1>11, <1>12 DEF g, more

\* The groups found are groups.
LEMMA FirstType ==
  ASSUME TypeInv
  PROVE  First \in Seq(GroupRow) /\ Parsed(group) \in Seq(GroupRow) /\ Plain(Parsed(group))
<1>1. <<>> \in Seq(GroupRow)
  OBVIOUS
<1>2. found \in Seq(GroupRow) /\ group \in Seq(GroupRow)
  BY DEF TypeInv, TypeOK
<1> QED BY <1>1, <1>2, ParsedType DEF First

\* As long as a run goes on without an error every write is a whole one.
LEMMA GoesOn ==
  ASSUME [Next]_vars, ~ failed', pc' # "down", ~ RunAgain
  PROVE  /\ ~ failed /\ pc # "down" /\ UNCHANGED scenario /\ First' = First
         /\ ~ Refuse /\ ~ FailWrite /\ ~ Crash
         /\ WritePasswd \/ UNCHANGED passwd
         /\ WriteShadow \/ UNCHANGED shadow
         /\ WriteGroup \/ UNCHANGED group
         /\ MakeHome \/ UNCHANGED homes
         /\ \/ WriteKeys \/ UNCHANGED <<keys, illegible>>
            \/ /\ pc = "ssh" /\ at <= Len(scenario.ssh)
               /\ \E new \in SshKeys : keys' = [keys EXCEPT ![Entry.name] = new]
               /\ illegible' = illegible \ {Entry.name}
<1>1. ~ Refuse /\ ~ FailWrite /\ ~ Crash
  BY DEF Refuse, FailWrite, Crash
<1>2. CASE EnsureKeys
  <2>1. /\ ~ failed /\ pc = "ssh" /\ at <= Len(scenario.ssh) /\ UNCHANGED <<scenario, pc, found>>
        /\ \/ UNCHANGED files
           \/ /\ \E new \in SshKeys : keys' = [keys EXCEPT ![Entry.name] = new]
              /\ illegible' = illegible \ {Entry.name}
              /\ UNCHANGED <<passwd, group, shadow, homes>>
    BY <1>2 DEF EnsureKeys
  <2> QED BY <1>1, <2>1 DEF First, files
<1>3. CASE WritePasswd \/ WriteShadow \/ WriteGroup \/ MakeHome \/ WriteKeys
  <2>1. pc # "down" /\ UNCHANGED <<scenario, failed, found>>
    BY <1>3 DEF WritePasswd, WriteShadow, WriteGroup, MakeHome, WriteKeys
  <2>2. ~ failed /\ First' = First
    BY <2>1 DEF First
  <2> QED BY <1>1, <1>3, <2>1, <2>2 DEF WritePasswd, WriteShadow, WriteGroup, MakeHome, WriteKeys
<1>4. CASE Resolve \/ StartSsh \/ End \/ UNCHANGED vars
  <2>1. pc # "down" /\ UNCHANGED <<scenario, failed, found>> /\ UNCHANGED files
    BY <1>4 DEF Resolve, StartSsh, End, vars
  <2>2. ~ failed /\ First' = First
    BY <2>1 DEF First
  <2> QED BY <1>1, <2>1, <2>2 DEF files
<1> QED BY <1>1, <1>2, <1>3, <1>4 DEF Next

\* Every step keeps the groups that the run has found.
LEMMA NextGroups ==
  ASSUME TypeInv, WorkInv, GroupsInv, [Next]_vars
  PROVE  GroupsInv'
<1>1. CASE failed' \/ pc' = "down"
  <2>1. (Parsed(group) \in Seq(GroupRow))'
    <3>1. TypeInv'
      BY NextTypes
    <3>2. group' \in Seq(GroupRow)
      BY <3>1 DEF TypeInv, TypeOK
    <3> QED BY <3>2, ParsedType
  <2>2. First' = <<>>
    BY <1>1 DEF First
  <2> DEFINE rows == Parsed(group')
  <2>3. Len(rows) \in Nat /\ Len(<<>>) = 0 /\ DOMAIN <<>> = {}
    BY <2>1
  <2> HIDE DEF rows
  <2>4. Grown(<<>>, rows)
    BY <2>3 DEF Grown
  <2> QED BY <2>2, <2>4 DEF GroupsInv, rows
<1>2. CASE RunAgain /\ ~ (failed' \/ pc' = "down")
  <2> DEFINE rows == Parsed(group)
  <2>1. rows \in Seq(GroupRow)
    BY FirstType
  <2>2. First' = rows /\ Parsed(group') = rows
    BY <1>2 DEF RunAgain, First, files
  <2> HIDE DEF rows
  <2>3. Len(rows) \in Nat /\ Grown(rows, rows)
    BY <2>1 DEF Grown
  <2> QED BY <2>2, <2>3 DEF GroupsInv
<1>3. CASE ~ RunAgain /\ ~ (failed' \/ pc' = "down")
  <2>1. First' = First /\ (WriteGroup \/ UNCHANGED group)
    BY <1>3, GoesOn
  <2>2. CASE UNCHANGED group
    BY <2>1, <2>2 DEF GroupsInv
  <2>3. CASE WriteGroup
    <3>1. group' = draft.group /\ Joined(First, draft.group, u) /\ Grown(Parsed(group), draft.group)
      BY <2>3 DEF WriteGroup, WorkInv
    <3>2. draft.group \in Seq(GroupRow) /\ Plain(draft.group)
      BY <3>1 DEF Joined
    <3>3. Parsed(group') = group'
      BY <3>1, <3>2, ParsedType
    <3>4. Grown(First, draft.group)
      BY <3>1, <3>2, FirstType, GrownTwice DEF GroupsInv
    <3> QED BY <2>1, <3>1, <3>3, <3>4 DEF GroupsInv
  <2> QED BY <2>1, <2>2, <2>3
<1> QED BY <1>1, <1>2, <1>3

\* Every write of apply_one leaves done what it is there for.
LEMMA NextWork ==
  ASSUME TypeInv, ResolvedInv, WorkInv, GroupsInv, [Next]_vars
  PROVE  WorkInv'
<1>0. UNCHANGED scenario
  BY TableSteps
<1>1. Resolve \/ WritePasswd \/ WriteShadow \/ WriteGroup \/ MakeHome \/ UNCHANGED vars =>
        First' = First
  <2>1. Resolve \/ WritePasswd \/ WriteShadow \/ WriteGroup \/ MakeHome =>
          UNCHANGED <<failed, found>> /\ pc # "down" /\ pc' # "down"
    BY DEF Resolve, WritePasswd, WriteShadow, WriteGroup, MakeHome
  <2>2. UNCHANGED vars => UNCHANGED <<failed, found, pc>>
    BY DEF vars
  <2> QED BY <2>1, <2>2 DEF First
<1>2. UNCHANGED at => u' = u
  BY <1>0 DEF u, Users
<1>3. CASE Resolve
  <2>1. pc' = "passwd" /\ UNCHANGED <<group, at>>
    BY <1>3 DEF Resolve, files
  <2>2. u \in User
    BY <1>3, ResolvedTypes, ScenarioTypes DEF TypeInv, TypeOK, u, Users
  <2>3. First \in Seq(GroupRow) /\ Parsed(group) \in Seq(GroupRow) /\ Plain(Parsed(group))
    BY FirstType
  <2> DEFINE w == u
             rows == Parsed(group)
             g == resolve_primary_group(rows, w)
             more == WithMember(g.rows, g.rows[g.place].name, w)
  <2>4. g.place # 0 /\ draft'.group = more /\ draft'.gid = g.rows[g.place].gid
    BY <1>3 DEF Resolve
  <2>5. Joined(First, more, w) /\ GidIn(more, w) = g.rows[g.place].gid /\ Grown(rows, more)
    <3>1. w \in User /\ rows \in Seq(GroupRow) /\ Plain(rows) /\ Grown(First, rows)
      BY <2>2, <2>3 DEF GroupsInv
    <3> HIDE DEF w, rows
    <3> QED BY <2>3, <2>4, <3>1, ResolvedGroups
  <2>6. Joined(First, draft'.group, u) /\ GidIn(draft'.group, u) = draft'.gid
        /\ Grown(Parsed(group), draft'.group)
    <3> HIDE DEF more
    <3> QED BY <2>4, <2>5
  <2>7. (Joined(First, draft.group, u) /\ GidIn(draft.group, u) = draft.gid
         /\ Grown(Parsed(group), draft.group))'
    BY <1>1, <1>2, <1>3, <2>1, <2>6
  <2> QED BY <2>1, <2>7 DEF WorkInv
<1>4. CASE WritePasswd
  <2>1. pc = "passwd" /\ pc' = "shadow" /\ UNCHANGED <<group, draft, at>>
    BY <1>4 DEF WritePasswd
  <2> DEFINE rows == Parsed(passwd)
             w == u
  <2>2. PICK row \in PasswdRow : /\ row.name = w.name /\ row.uid = draft.uid /\ row.gid = draft.gid
                                 /\ passwd' = Upsert(rows, row)
    BY <1>4, PasswdWritten DEF WritePasswd
  <2>3. rows \in Seq(PasswdRow) /\ Plain(passwd')
    BY <1>4, PasswdWritten DEF WritePasswd
  <2> HIDE DEF rows, w
  <2>4. RowFor(passwd', w, draft.uid, draft.gid)
    BY <2>2, <2>3, UpsertFound DEF RowFor
  <2>5. RowFor(passwd, u, draft.uid, draft.gid)'
    BY <1>2, <2>1, <2>4 DEF w
  <2>6. Joined(First, draft.group, u) /\ GidIn(draft.group, u) = draft.gid
        /\ Grown(Parsed(group), draft.group)
    BY <2>1 DEF WorkInv
  <2>7. (Joined(First, draft.group, u) /\ GidIn(draft.group, u) = draft.gid
         /\ Grown(Parsed(group), draft.group))'
    BY <1>1, <1>2, <1>4, <2>1, <2>6
  <2> QED BY <2>1, <2>5, <2>7 DEF WorkInv
<1>5. CASE WriteShadow
  <2>1. pc = "shadow" /\ pc' = "group" /\ UNCHANGED <<passwd, group, draft, at>>
    BY <1>5 DEF WriteShadow
  <2>2. PasswordSet(shadow', u)
    BY <1>5 DEF WriteShadow, NewShadow, Put, PasswordSet
  <2>3. PasswordSet(shadow, u)'
    BY <1>2, <2>1, <2>2
  <2>4. /\ Joined(First, draft.group, u) /\ GidIn(draft.group, u) = draft.gid
        /\ Grown(Parsed(group), draft.group) /\ RowFor(passwd, u, draft.uid, draft.gid)
    BY <2>1 DEF WorkInv
  <2>5. (/\ Joined(First, draft.group, u) /\ GidIn(draft.group, u) = draft.gid
         /\ Grown(Parsed(group), draft.group) /\ RowFor(passwd, u, draft.uid, draft.gid))'
    BY <1>1, <1>2, <1>5, <2>1, <2>4
  <2> QED BY <2>1, <2>3, <2>5 DEF WorkInv
<1>6. CASE WriteGroup
  <2>1. pc = "group" /\ pc' = "home" /\ group' = draft.group
        /\ UNCHANGED <<passwd, shadow, draft, at>>
    BY <1>6 DEF WriteGroup
  <2>2. /\ Joined(First, draft.group, u) /\ GidIn(draft.group, u) = draft.gid
        /\ RowFor(passwd, u, draft.uid, draft.gid) /\ PasswordSet(shadow, u)
    BY <2>1 DEF WorkInv
  <2>3. (/\ Joined(First, group, u) /\ GidIn(group, u) = draft.gid
         /\ RowFor(passwd, u, draft.uid, draft.gid) /\ PasswordSet(shadow, u))'
    BY <1>1, <1>2, <1>6, <2>1, <2>2
  <2> QED BY <2>1, <2>3 DEF WorkInv
<1>7. CASE MakeHome
  <2>1. pc = "home" /\ pc' = "keys" /\ UNCHANGED <<passwd, group, shadow, draft, at>>
    BY <1>7 DEF MakeHome
  <2>2. HomeMade(homes', u, draft.uid, draft.gid)
    BY <1>7 DEF MakeHome, HomeMade, Put
  <2>3. HomeMade(homes, u, draft.uid, draft.gid)'
    BY <1>2, <2>1, <2>2
  <2>4. /\ Joined(First, group, u) /\ GidIn(group, u) = draft.gid
        /\ RowFor(passwd, u, draft.uid, draft.gid) /\ PasswordSet(shadow, u)
    BY <2>1 DEF WorkInv
  <2>5. (/\ Joined(First, group, u) /\ GidIn(group, u) = draft.gid
         /\ RowFor(passwd, u, draft.uid, draft.gid) /\ PasswordSet(shadow, u))'
    BY <1>1, <1>2, <1>7, <2>1, <2>4
  <2> QED BY <2>1, <2>3, <2>5 DEF WorkInv
<1>8. CASE UNCHANGED vars
  <2>1. UNCHANGED <<passwd, group, shadow, homes, pc, at, draft>>
    BY <1>8 DEF vars, files
  <2> QED BY <1>1, <1>2, <1>8, <2>1 DEF WorkInv
<1>9. CASE Refuse \/ WriteKeys \/ FailWrite \/ StartSsh \/ EnsureKeys \/ End \/ Crash \/ RunAgain
  <2>1. pc' \in {"user", "ssh", "done", "down"}
    BY <1>9 DEF Refuse, WriteKeys, FailWrite, NextUser, StartSsh, EnsureKeys, End, Crash, RunAgain
  <2> QED BY <2>1 DEF WorkInv
<1> QED BY <1>3, <1>4, <1>5, <1>6, <1>7, <1>8, <1>9 DEF Next

\* ensure_keys adds to the keys of a file that it can read.
LEMMA SshKeysAdd ==
  ASSUME NEW new \in SshKeys, "read" \notin scenario.faults, Entry.name \notin illegible
  PROVE  keys[Entry.name] \subseteq new
<1>1. PICK there \in (IF Entry.name \in illegible THEN {} ELSE {keys[Entry.name]})
               \cup (IF Entry.name \in illegible \/ "read" \in scenario.faults THEN {{}} ELSE {}),
           fetched \in IF "fetch" \in scenario.faults THEN {{}, Entry.fetched} ELSE {Entry.fetched} :
             new = there \cup Entry.raw \cup fetched
  BY DEF SshKeys
<1>2. there = keys[Entry.name]
  BY <1>1
<1> QED BY <1>1, <1>2

\* Keys that are there stay, or the ssh plugin could not read them.
LEMMA KeysStay ==
  ASSUME TypeInv, [Next]_vars, ~ failed', pc' # "down", ~ RunAgain, NEW w \in User, KeysThere(w)
  PROVE  KeysThere(w)'
<1>1. /\ UNCHANGED scenario
      /\ \/ WriteKeys \/ UNCHANGED <<keys, illegible>>
         \/ /\ at <= Len(scenario.ssh)
            /\ \E new \in SshKeys : keys' = [keys EXCEPT ![Entry.name] = new]
            /\ illegible' = illegible \ {Entry.name}
  BY GoesOn
<1>2. keys \in [Names -> SUBSET Keys] /\ w.name \in Names
  BY UserType DEF TypeInv, TypeOK
<1>3. CASE UNCHANGED <<keys, illegible>>
  BY <1>1, <1>3 DEF KeysThere
<1>4. CASE WriteKeys
  <2>1. keys' = [keys EXCEPT ![u.name] = @ \cup u.keys] /\ UNCHANGED illegible
    BY <1>4 DEF WriteKeys
  <2>2. keys[w.name] \subseteq keys'[w.name]
    BY <1>2, <2>1
  <2> QED BY <1>1, <2>1, <2>2 DEF KeysThere
<1>5. CASE /\ at <= Len(scenario.ssh)
           /\ \E new \in SshKeys : keys' = [keys EXCEPT ![Entry.name] = new]
           /\ illegible' = illegible \ {Entry.name}
  <2>1. "read" \in scenario.faults /\ Entry.name = w.name =>
          \E j \in DOMAIN scenario.ssh : scenario.ssh[j].name = w.name
    BY <1>5, SshKeysType DEF Entry
  <2>2. PICK new \in SshKeys : keys' = [keys EXCEPT ![Entry.name] = new]
    BY <1>5
  <2>3. Entry.name # w.name => keys'[w.name] = keys[w.name]
    BY <1>2, <2>2
  <2>4. Entry.name = w.name => keys'[w.name] = new
    BY <1>2, <2>2
  <2>5. w.name \notin illegible /\ "read" \notin scenario.faults /\ Entry.name = w.name =>
          keys[w.name] \subseteq new
    BY <2>2, SshKeysAdd
  <2> QED BY <1>1, <1>5, <2>1, <2>3, <2>4, <2>5 DEF KeysThere
<1> QED BY <1>1, <1>3, <1>4, <1>5

\* The writes for one user leave another as it is.
LEMMA OthersStay ==
  ASSUME TypeInv, ResolvedInv, WorkInv, [Next]_vars, ~ failed', pc' # "down", ~ RunAgain,
         NEW i \in DOMAIN Users, i < at \/ pc \notin {"passwd", "shadow", "group", "home", "keys"},
         NEW uid \in Id, Complete(Users[i], uid)
  PROVE  Complete(Users[i], uid)'
<1>3. PICK w \in User : w = Users[i]
  BY ScenarioTypes DEF TypeInv, TypeOK, Users
<1> DEFINE gid == GidIn(group, w)
<1>1. /\ UNCHANGED scenario /\ First' = First
      /\ WritePasswd \/ UNCHANGED passwd
      /\ WriteShadow \/ UNCHANGED shadow
      /\ WriteGroup \/ UNCHANGED group
      /\ MakeHome \/ UNCHANGED homes
  BY GoesOn
<1>2. Users' = Users /\ First' = First
  BY <1>1 DEF Users
<1>4. pc \in {"passwd", "shadow", "group", "home", "keys"} => w.name # u.name
  <2>1. at \in Nat /\ i \in Nat
    BY ScenarioTypes DEF TypeInv, TypeOK, Users
  <2>2. pc \in {"passwd", "shadow", "group", "home", "keys"} => i # at /\ at \in DOMAIN Users
    BY <2>1 DEF TypeInv
  <2> QED BY <1>3, <2>2, ScenarioTypes DEF TypeInv, TypeOK, Users, u
<1>5. /\ RowFor(passwd, w, uid, gid) /\ Joined(First, group, w)
      /\ PasswordSet(shadow, w) /\ HomeMade(homes, w, uid, gid) /\ KeysThere(w)
  BY <1>3 DEF Complete
<1>6. RowFor(passwd', w, uid, gid)
  <2>1. CASE UNCHANGED passwd
    BY <1>5, <2>1
  <2>2. CASE WritePasswd
    <3> DEFINE rows == Parsed(passwd)
               name == u.name
    <3>1. PICK row \in PasswdRow : row.name = name /\ passwd' = Upsert(rows, row)
      BY <2>2, PasswdWritten DEF WritePasswd
    <3>2. rows \in Seq(PasswdRow) /\ Plain(passwd')
      BY <2>2, PasswdWritten DEF WritePasswd
    <3>3. rows = passwd
      BY <1>5, ParsedType DEF RowFor, TypeInv, TypeOK
    <3>4. w.name # name
      BY <1>4, <2>2 DEF WritePasswd
    <3> HIDE DEF rows, name
    <3>5. Find(rows, w.name) # 0 => Find(passwd', w.name) = Find(rows, w.name)
                                    /\ passwd'[Find(rows, w.name)] = rows[Find(rows, w.name)]
      BY <3>1, <3>2, <3>4, UpsertFound
    <3> QED BY <1>5, <3>2, <3>3, <3>5 DEF RowFor
  <2> QED BY <1>1, <2>1, <2>2
<1>7. Joined(First, group', w) /\ GidIn(group', w) = gid
  <2>1. CASE UNCHANGED group
    BY <1>5, <2>1
  <2>2. CASE WriteGroup
    <3>1. group' = draft.group /\ Joined(First, draft.group, u) /\ Grown(Parsed(group), draft.group)
      BY <2>2 DEF WriteGroup, WorkInv
    <3>2. draft.group \in Seq(GroupRow) /\ Plain(draft.group)
      BY <3>1 DEF Joined
    <3>3. Parsed(group) = group
      BY <1>5, ParsedType DEF Joined
    <3> QED BY <1>3, <1>5, <3>1, <3>2, <3>3, JoinedStays
  <2> QED BY <1>1, <2>1, <2>2
<1>8. PasswordSet(shadow', w)
  <2>1. WriteShadow => w.name # u.name
    BY <1>4 DEF WriteShadow
  <2> QED BY <1>1, <1>5, <2>1 DEF WriteShadow, NewShadow, Put, PasswordSet
<1>9. HomeMade(homes', w, uid, gid)
  <2>1. MakeHome => w.name # u.name
    BY <1>4 DEF MakeHome
  <2> QED BY <1>1, <1>5, <2>1 DEF MakeHome, Put, HomeMade
<1>10. KeysThere(w)'
  BY <1>3, <1>5, KeysStay
<1> HIDE DEF gid
<1>11. Complete(w, uid)'
  BY <1>2, <1>6, <1>7, <1>8, <1>9, <1>10 DEF Complete
<1> QED BY <1>2, <1>3, <1>11

\* Every step keeps the users before the current one complete.
LEMMA NextDone ==
  ASSUME TypeInv, ResolvedInv, WorkInv, DoneInv, [Next]_vars
  PROVE  DoneInv'
<1>1. UNCHANGED scenario /\ Users' = Users
  BY TableSteps DEF Users
<1> SUFFICES ASSUME ~ failed', pc' # "down", NEW i \in DOMAIN Users,
                    (i < at)' \/ pc' \in {"ssh", "done"}
             PROVE  (\E uid \in Id : Complete(Users[i], uid))'
  BY <1>1 DEF DoneInv
<1>2. i \in Nat \ {0} /\ at \in Nat /\ i <= Len(Users) /\ Len(Users) \in Nat
  BY ScenarioTypes DEF TypeInv, TypeOK, Users
<1>3. ~ RunAgain
  BY <1>2 DEF RunAgain
<1>4. ~ failed /\ pc # "down" /\ First' = First
  BY <1>3, GoesOn
<1>5. CASE WriteKeys /\ i = at
  <2>1. pc = "keys" /\ u = Users[i] /\ UNCHANGED <<passwd, group, shadow, homes, illegible, draft>>
    BY <1>5 DEF WriteKeys, u
  <2>2. /\ Joined(First, group, u) /\ GidIn(group, u) = draft.gid
        /\ RowFor(passwd, u, draft.uid, draft.gid) /\ PasswordSet(shadow, u)
        /\ HomeMade(homes, u, draft.uid, draft.gid)
    BY <2>1 DEF WorkInv
  <2>3. PICK w \in User : w = Users[i]
    BY ScenarioTypes DEF TypeInv, TypeOK, Users
  <2>4. KeysThere(w)'
    <3>1. (w.keys # {} => w.name \notin illegible) /\ keys' = [keys EXCEPT ![w.name] = @ \cup w.keys]
      BY <1>5, <2>1, <2>3 DEF WriteKeys
    <3>2. keys \in [Names -> SUBSET Keys] /\ w.name \in Names
      BY UserType DEF TypeInv, TypeOK
    <3>3. w.keys \subseteq keys'[w.name]
      BY <3>1, <3>2
    <3> QED BY <2>1, <3>1, <3>3 DEF KeysThere
  <2>5. PICK id \in Id : id = draft.uid
    BY DEF TypeInv, TypeOK
  <2>6. /\ Joined(First, group, w) /\ RowFor(passwd, w, id, GidIn(group, w))
        /\ PasswordSet(shadow, w) /\ HomeMade(homes, w, id, GidIn(group, w))
    BY <2>1, <2>2, <2>3, <2>5
  <2>8. /\ Joined(First', group', w) /\ RowFor(passwd', w, id, GidIn(group', w))
        /\ PasswordSet(shadow', w) /\ HomeMade(homes', w, id, GidIn(group', w))
    BY <1>4, <2>1, <2>6
  <2>9. /\ RowFor(passwd', w, id, GidIn(group', w)) /\ Joined(First', group', w)
        /\ PasswordSet(shadow', w) /\ HomeMade(homes', w, id, GidIn(group', w)) /\ KeysThere(w)'
    BY <2>4, <2>8
  <2>10. Complete(w, id)'
    BY <2>9 DEF Complete
  <2> QED BY <1>1, <2>3, <2>10
<1>6. CASE ~ (WriteKeys /\ i = at)
  <2>1. i < at \/ pc \in {"ssh", "done"}
    <3>1. CASE WriteKeys
      <4>1. at' = at + 1 /\ pc' = "user"
        BY <3>1 DEF WriteKeys, NextUser
      <4> QED BY <1>2, <1>6, <3>1, <4>1
    <3>2. CASE StartSsh
      BY <1>2, <3>2 DEF StartSsh
    <3>3. CASE EnsureKeys \/ End
      BY <3>3 DEF EnsureKeys, End
    <3>4. CASE Resolve \/ WritePasswd \/ WriteShadow \/ WriteGroup \/ MakeHome \/ UNCHANGED vars
      <4>1. at' = at /\ (pc' = pc \/ pc' \notin {"ssh", "done"})
        BY <3>4 DEF Resolve, WritePasswd, WriteShadow, WriteGroup, MakeHome, vars
      <4> QED BY <4>1
    <3>5. ~ Refuse /\ ~ FailWrite /\ ~ Crash
      BY DEF Refuse, FailWrite, Crash
    <3> QED BY <1>3, <3>1, <3>2, <3>3, <3>4, <3>5 DEF Next
  <2>2. PICK uid \in Id : Complete(Users[i], uid)
    BY <1>4, <2>1 DEF DoneInv
  <2>3. i < at \/ pc \notin {"passwd", "shadow", "group", "home", "keys"}
    BY <2>1
  <2>4. Complete(Users[i], uid)'
    BY <1>3, <2>2, <2>3, OthersStay
  <2> QED BY <2>4
<1> QED BY <1>5, <1>6

\* A run without an error leaves every account complete, whatever earlier
\* runs left half done or cut short: its row with its gid, the password, the groups, the
\* home directory and the keys.
THEOREM AccountsLeftComplete == Spec => []AccountsComplete
<1>1. Init => WorkInv /\ GroupsInv /\ DoneInv
  <2> SUFFICES ASSUME Init PROVE WorkInv /\ GroupsInv /\ DoneInv
    OBVIOUS
  <2>1. pc = "user" /\ at = 1 /\ group = scenario.group /\ scenario \in Scenarios
    BY DEF Init
  <2>2. WorkInv
    BY <2>1 DEF WorkInv
  <2>3. GroupsInv
    <3> DEFINE rows == Parsed(group)
    <3>1. First = rows
      BY DEF Init, First
    <3>2. rows \in Seq(GroupRow)
      BY <2>1, ScenarioTypes, ParsedType
    <3> HIDE DEF rows
    <3>3. Len(rows) \in Nat /\ Grown(rows, rows)
      BY <3>2 DEF Grown
    <3> QED BY <3>1, <3>3 DEF GroupsInv, rows
  <2>4. DoneInv
    <3>1. \A i \in DOMAIN Users : ~ (i < at)
      BY <2>1, ScenarioTypes DEF Users
    <3> QED BY <2>1, <3>1 DEF DoneInv
  <2> QED BY <2>2, <2>3, <2>4
<1>2. DoneInv => AccountsComplete
  <2> SUFFICES ASSUME DoneInv, pc = "done", ~ failed, NEW i \in DOMAIN Users
               PROVE  LET w == Users[i]
                          row == passwd[Find(passwd, w.name)]
                          primary == resolve_primary_group(group, w)
                      IN  /\ Find(passwd, w.name) # 0
                          /\ primary.rows = group /\ row.gid = group[primary.place].gid
                          /\ w.name \in group[Find(group, group[primary.place].name)].members
                          /\ \A g \in w.groups :
                               Find(found, g) # 0 => w.name \in group[Find(group, g)].members
                          /\ shadow[w.name].password = w.password
                          /\ w.home => homes[w.name] = [uid |-> row.uid, gid |-> row.gid]
                          /\ \/ w.keys \subseteq keys[w.name]
                             \/ /\ "read" \in scenario.faults
                                /\ \E j \in DOMAIN scenario.ssh : scenario.ssh[j].name = w.name
    BY DEF AccountsComplete
  <2>1. PICK uid \in Id : Complete(Users[i], uid)
    BY DEF DoneInv
  <2> DEFINE w == Users[i]
  <2>2. /\ RowFor(passwd, w, uid, GidIn(group, w)) /\ Joined(First, group, w)
        /\ PasswordSet(shadow, w) /\ HomeMade(homes, w, uid, GidIn(group, w)) /\ KeysThere(w)
    BY <2>1 DEF Complete
  <2>3. First = found
    BY DEF First
  <2> HIDE DEF w
  <2> QED BY <2>2, <2>3 DEF w, RowFor, Joined, PasswordSet, HomeMade, KeysThere, GidIn
<1>3. Spec => [](WorkInv /\ GroupsInv /\ DoneInv)
  BY <1>1, NextWork, NextGroups, NextDone, ResolvedHolds, PTL DEF Spec
<1> QED BY <1>2, <1>3, PTL

-----------------------------------------------------------------------------

\* A step adds keys to a file that can be read, or a write of it breaks off.
LEMMA StepKeepsKeys ==
  ASSUME TypeInv, [Next]_vars, NEW n \in Names, "read" \notin scenario.faults, n \notin illegible
  PROVE  keys[n] \subseteq keys'[n] \/ KeysBreakOff(n)
<1>0. DOMAIN keys = Names
  BY DEF TypeInv, TypeOK
<1>1. CASE BreakOff /\ (pc' = "down" \/ (failed' /\ "write" \in scenario.faults))
  <2>1. CASE UNCHANGED keys
    BY <2>1
  <2>2. CASE pc = "keys" /\ \E left : keys' = [keys EXCEPT ![u.name] = left]
    BY <1>0, <1>1, <2>2 DEF KeysBreakOff
  <2>3. CASE pc = "ssh" /\ \E left : keys' = [keys EXCEPT ![Entry.name] = left]
    BY <1>0, <1>1, <2>3 DEF KeysBreakOff
  <2> QED BY <1>1, <2>1, <2>2, <2>3 DEF BreakOff, files
<1>2. CASE UNCHANGED keys
  BY <1>2
<1>3. CASE WriteKeys
  BY <1>0, <1>3 DEF WriteKeys
<1>4. CASE \E new \in SshKeys : keys' = [keys EXCEPT ![Entry.name] = new]
  <2>1. PICK new \in SshKeys : keys' = [keys EXCEPT ![Entry.name] = new]
    BY <1>4
  <2>2. n = Entry.name => keys[n] \subseteq new
    BY <2>1, SshKeysAdd
  <2> QED BY <1>0, <2>1, <2>2
<1>5. CASE FailWrite
  BY <1>1, <1>2, <1>5 DEF FailWrite, files
<1>6. CASE EnsureKeys
  BY <1>1, <1>2, <1>4, <1>6 DEF EnsureKeys, files
<1>7. CASE Crash
  BY <1>1, <1>7 DEF Crash
<1>8. CASE Resolve \/ Refuse \/ WritePasswd \/ WriteShadow \/ WriteGroup \/ MakeHome \/ StartSsh
           \/ End \/ RunAgain \/ UNCHANGED vars
  <2>1. UNCHANGED keys
    BY <1>8 DEF Resolve, Refuse, WritePasswd, WriteShadow, WriteGroup, MakeHome, StartSsh, End,
                RunAgain, vars, files
  <2> QED BY <1>2, <2>1
<1> QED BY <1>3, <1>5, <1>6, <1>7, <1>8 DEF Next

\* A key that is in an authorized_keys that can be read is lost only by a write
\* of this file that breaks off.
THEOREM NoKeyLost == Spec => KeysKept
<1> DEFINE Kept == \A n \in Names :
                     \/ "read" \in scenario.faults \/ n \in illegible
                     \/ keys[n] \subseteq keys'[n] \/ KeysBreakOff(n)
<1>1. TypeInv /\ [Next]_vars => Kept
  BY StepKeepsKeys
<1>2. Spec => [][Kept]_vars
  <2> HIDE DEF Kept
  <2> QED BY <1>1, TypesHold, PTL DEF Spec
<1> QED BY <1>2 DEF KeysKept
=============================================================================
