----------------------------- MODULE MCAccounts -----------------------------
(* Stages and machines for TLC: new, known and clashing users, ids at the   *)
(* top, tables with lines that do not parse, and runs that break off.       *)
EXTENDS Accounts

Auto == [kind |-> "auto", id |-> 0]
Given(id) == [kind |-> "given", id |-> id]
Own == [kind |-> "own", name |-> "root", id |-> 0]

user(name, uid, primary, groups, new) ==
  [name |-> name, uid |-> uid, primary |-> primary, groups |-> groups,
   password |-> "salted", home |-> TRUE, keys |-> new]

row(name, uid, gid) == [shape |-> "row", name |-> name, uid |-> uid, gid |-> gid]
grp(name, gid, members) == [shape |-> "row", name |-> name, gid |-> gid, members |-> members]

Root == row("root", 0, 0)
Odd == [row("cid", 0, 0) EXCEPT !.shape = "odd"]
Short == [row("cid", 0, 0) EXCEPT !.shape = "short"]
RootGroup == grp("root", 0, {})
Wheel == grp("wheel", 2, {"root"})

NoKeys == [n \in Names |-> {}]

Base == [users |-> <<>>, ssh |-> <<>>, passwd |-> <<Root>>, group |-> <<RootGroup, Wheel>>,
         keys |-> [NoKeys EXCEPT !["bob"] = {"k1"}], illegible |-> {}, faults |-> {}]

Ann == user("ann", Auto, Own, {"wheel", "bob"}, {"k1"})
Bob == user("bob", Auto, [kind |-> "named", name |-> "cid", id |-> 0], {}, {"k2"})

\* Two new users, each write of which may break off, and their keys.
New == [Base EXCEPT !.users = <<Ann, Bob>>, !.faults = {"write", "crash"},
                    !.ssh = <<[name |-> "bob", raw |-> {"k3"}, fetched |-> {"k1", "k2"}]>>]

\* Known users among lines that do not parse, one user's keys illegible.
Known ==
  [Base EXCEPT !.users = <<Ann, [Bob EXCEPT !.home = FALSE, !.password = "!"]>>,
               !.passwd = <<Root, Odd, row("bob", 4, 4), Short>>,
               !.group = <<RootGroup, [Wheel EXCEPT !.shape = "short"], grp("bob", 4, {})>>,
               !.illegible = {"bob"}, !.faults = {"read", "crash"}]

\* A uid that is taken, a uid that is none, groups by number; two groups of one
\* name.
Clash ==
  [Base EXCEPT
     !.users = <<user("ann", Given(0), [kind |-> "numeric", name |-> "root", id |-> 2], {}, {}),
                 user("bob", [kind |-> "invalid", id |-> 0], Own, {}, {}),
                 user("cid", Auto, [kind |-> "numeric", name |-> "root", id |-> 5], {}, {})>>]

Twins == [Clash EXCEPT !.users = <<Head(Clash.users)>>,
                       !.group = <<RootGroup, grp("wheel", 1, {}), Wheel>>]

\* The last ids.
Top == [Base EXCEPT !.users = <<Ann, Bob, user("cid", Auto, Own, {}, {})>>,
                    !.passwd = <<Root, row("wheel", IdLimit - 3, 0)>>]

\* The last id is in use, its owner gets another, and keys are not read.
Wrapped == [Base EXCEPT !.users = <<Ann, user("wheel", Given(5), Own, {}, {})>>,
                        !.passwd = <<Root, row("wheel", IdLimit - 1, 0)>>,
                        !.ssh = <<[name |-> "ann", raw |-> {"k3"}, fetched |-> {}]>>,
                        !.faults = {"read"}]

\* Only ssh: a user behind a short line, one without a row, one with one.
Ssh(name) == [name |-> name, raw |-> {"k3"}, fetched |-> {"k2"}]
SshOnly == [Base EXCEPT !.ssh = <<Ssh("ann"), Ssh("bob"), Ssh("cid")>>,
                        !.passwd = <<Root, row("ann", 4, 4), Short, row("bob", 5, 5)>>,
                        !.faults = {"write", "crash", "fetch"}]

\* One of two key files holds a byte that is no UTF-8.
SshIllegible == [Base EXCEPT !.ssh = <<Ssh("bob"), Ssh("cid")>>, !.illegible = {"bob"},
                             !.passwd = <<Root, row("bob", 5, 5), row("cid", 6, 6)>>]

MCScenarios == {New, Known, Clash, Twins, Top, Wrapped, SshOnly, SshIllegible}
==============================================================================
