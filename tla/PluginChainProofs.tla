-------------------------- MODULE PluginChainProofs --------------------------
(***************************************************************************)
(* For any stages, any machine and any faults: the types of the chain of   *)
(* plugins, with the deeds of each plugin its own; that a guarded machine  *)
(* id stays; that plugins keep what no stage names in the files they       *)
(* rewrite; that the git plugin's work tree follows the branch; and that a *)
(* plugin that returns no error has applied what its stage asks for, but   *)
(* for what the code passes over with Ok.                                  *)
(***************************************************************************)
EXTENDS PluginChain, SubsequenceProofs

\* The commands of the plugins.
Commands ==
  {<<"git", "ssh key">>, <<"git", "clone">>, <<"git", "fetch only">>, <<"git", "fetch">>, <<"git", "fetch gix">>,
   <<"git", "reset">>, <<"git", "checkout">>,
   <<"commands", "shell">>, <<"hostname", "sethostname">>, <<"modules", "modprobe">>,
   <<"systemctl", "enable">>, <<"systemctl", "disable">>, <<"systemctl", "mask">>,
   <<"systemctl", "start">>, <<"systemd_firstboot", "firstboot">>,
   <<"packages", "refresh">>, <<"packages", "upgrade">>, <<"packages", "install">>,
   <<"packages", "remove">>}

\* The files of the plugins.
Owns(name, path) ==
  \/ name \in {"dns", "environment"} /\ \E p \in STRING : path = <<p>>
  \/ name = "dns" /\ path = DefaultResolvConf
  \/ name = "environment" /\ path = DefaultEnvFile
  \/ name = "hostname" /\ path \in {HostnamePath, MachineIdPath}
  \/ name = "sysctl" /\ Len(path) >= 2 /\ path[1] = "proc" /\ path[2] = "sys"
  \/ name = "timesyncd" /\ path = TimesyncdPath
  \/ name = "systemctl" /\ \E service, dropin : path = <<"systemd", service, dropin>>
  \/ name = "package_pins" /\ path \in {DnfConf, WorldPath}
  \/ name = "package_pins" /\ \E p \in STRING : path \in {PrefPath(p), ProtectedPath(p)}

\* A deed that the plugin may set out to do.
Proper(name, deed) ==
  /\ deed.fail \in Policies
  /\ deed.fail = "skip" => deed.op = "mkdir"
  /\ deed.fail = "ignore" => name = "hostname" /\ deed.op = "run"
  /\ deed.op \in {"mkdir", "refuse", "write", "run", "run if written"}
  /\ deed.op = "write" => Owns(name, deed.path)
  /\ deed.op = "run" => <<name, deed.command[1]>> \in Commands
  /\ deed.op = "run if written" => name = "systemctl" /\ deed.command = <<"daemon-reload">>

Listed(deeds) == \E S : deeds \in Seq(S)

\* A sequence of such deeds, in which one that goes with the next has a next.
Fine(name, deeds) ==
  /\ Listed(deeds)
  /\ \A i \in DOMAIN deeds : Proper(name, deeds[i]) /\ (deeds[i].fail = "skip" => i < Len(deeds))

\* Nothing to do is fine.
LEMMA FineEmpty == \A name : Fine(name, <<>>)
<1>1. <<>> \in Seq({})
  OBVIOUS
<1> QED BY <1>1 DEF Fine, Listed

\* One deed that may be alone.
LEMMA FineOne ==
  ASSUME NEW name, NEW deed, Proper(name, deed), deed.fail # "skip"
  PROVE  Fine(name, <<deed>>)
<1>1. <<deed>> \in Seq({deed}) /\ DOMAIN <<deed>> = {1} /\ <<deed>>[1] = deed
  OBVIOUS
<1>2. \A i \in DOMAIN <<deed>> : Proper(name, <<deed>>[i]) /\ <<deed>>[i].fail # "skip"
  BY <1>1
<1> QED BY <1>1, <1>2 DEF Fine, Listed

\* What is fine after what is fine.
LEMMA FineBoth ==
  ASSUME NEW name, NEW first, NEW second, Fine(name, first), Fine(name, second)
  PROVE  Fine(name, first \o second)
<1>1. PICK S : first \in Seq(S)
  BY DEF Fine, Listed
<1>2. PICK T : second \in Seq(T)
  BY DEF Fine, Listed
<1>3. first \in Seq(S \cup T) /\ second \in Seq(S \cup T)
  <2>1. Seq(S) \subseteq Seq(S \cup T) /\ Seq(T) \subseteq Seq(S \cup T)
    OBVIOUS
  <2> QED BY <1>1, <1>2, <2>1
<1>4. first \o second \in Seq(S \cup T)
  BY <1>3
<1>5. ASSUME NEW i \in DOMAIN (first \o second)
      PROVE  LET deed == (first \o second)[i]
             IN  Proper(name, deed) /\ (deed.fail = "skip" => i < Len(first \o second))
  <2>1. /\ Len(first \o second) = Len(first) + Len(second)
        /\ Len(first) \in Nat /\ Len(second) \in Nat
        /\ i \in 1 .. Len(first) + Len(second)
    BY <1>3, <1>5
  <2>2. CASE i <= Len(first)
    <3>1. i \in DOMAIN first /\ (first \o second)[i] = first[i]
      BY <1>3, <2>1, <2>2
    <3> QED BY <2>1, <2>2, <3>1 DEF Fine
  <2>3. CASE i > Len(first)
    <3>1. i - Len(first) \in DOMAIN second /\ (first \o second)[i] = second[i - Len(first)]
      BY <1>3, <2>1, <2>3
    <3>2. Proper(name, second[i - Len(first)])
          /\ (second[i - Len(first)].fail = "skip" => i - Len(first) < Len(second))
      BY <3>1 DEF Fine
    <3> QED BY <2>1, <3>1, <3>2
  <2> QED BY <2>1, <2>2, <2>3
<1> QED BY <1>4, <1>5 DEF Fine, Listed

\* Deeds that are fine one by one.
LEMMA FineEach ==
  ASSUME NEW name, NEW deeds, NEW n \in Nat, DOMAIN deeds = 1 .. n,
         deeds = [i \in 1 .. n |-> deeds[i]],
         \A i \in 1 .. n : Proper(name, deeds[i]) /\ (deeds[i].fail = "skip" => i < n)
  PROVE  Fine(name, deeds)
<1>1. deeds \in Seq({deeds[i] : i \in 1 .. n}) /\ Len(deeds) = n
  OBVIOUS
<1> QED BY <1>1 DEF Fine, Listed

\* Two deeds.
LEMMA FineTwo ==
  ASSUME NEW name, NEW a, NEW b, Proper(name, a), Proper(name, b), b.fail # "skip"
  PROVE  Fine(name, <<a, b>>)
<1> DEFINE deeds == <<a, b>>
<1>1. DOMAIN deeds = 1 .. 2 /\ deeds = [i \in 1 .. 2 |-> deeds[i]]
  OBVIOUS
<1>2. \A i \in 1 .. 2 : (deeds[i] = a /\ i < 2) \/ deeds[i] = b
  OBVIOUS
<1> HIDE DEF deeds
<1>3. 2 \in Nat /\ \A i \in 1 .. 2 : Proper(name, deeds[i]) /\ (deeds[i].fail = "skip" => i < 2)
  BY <1>2
<1>4. Fine(name, deeds)
  BY <1>1, <1>3, FineEach
<1> QED BY <1>4 DEF deeds

\* Three deeds.
LEMMA FineThree ==
  ASSUME NEW name, NEW a, NEW b, NEW c,
         Proper(name, a), Proper(name, b), Proper(name, c), c.fail # "skip"
  PROVE  Fine(name, <<a, b, c>>)
<1> DEFINE deeds == <<a, b, c>>
<1>1. DOMAIN deeds = 1 .. 3 /\ deeds = [i \in 1 .. 3 |-> deeds[i]]
  OBVIOUS
<1>2. \A i \in 1 .. 3 : ((deeds[i] = a \/ deeds[i] = b) /\ i < 3) \/ deeds[i] = c
  OBVIOUS
<1> HIDE DEF deeds
<1>3. 3 \in Nat /\ \A i \in 1 .. 3 : Proper(name, deeds[i]) /\ (deeds[i].fail = "skip" => i < 3)
  BY <1>2
<1>4. Fine(name, deeds)
  BY <1>1, <1>3, FineEach
<1> QED BY <1>4 DEF deeds

\* The deeds that PluginDeeds makes may be any plugin's.
LEMMA MkdirProper ==
  \A name : /\ Proper(name, MkdirAll("return")) /\ MkdirAll("return").fail # "skip"
            /\ Proper(name, MkdirAll("skip"))
BY DEF Proper, MkdirAll, Policies

\* A file is written by its plugin.
LEMMA WriteProper ==
  ASSUME NEW name, NEW path, Owns(name, path), NEW content, NEW fail \in {"next", "return"}
  PROVE  Proper(name, Write(path, content, fail)) /\ Write(path, content, fail).fail # "skip"
BY DEF Proper, Write, Policies

\* A command is run by its plugin.
LEMMA RunProper ==
  ASSUME NEW name, NEW command, <<name, command[1]>> \in Commands,
         NEW fail \in {"next", "return", "ignore"}, fail = "ignore" => name = "hostname"
  PROVE  Proper(name, Run(command, fail)) /\ Run(command, fail).fail # "skip"
BY DEF Proper, Run, Policies

\* Any plugin may refuse.
LEMMA RefuseProper == \A name : Proper(name, Refuse) /\ Refuse.fail # "skip"
BY DEF Proper, Refuse, Policies

\* A list of runs of one command.
LEMMA FineRuns ==
  ASSUME NEW name, NEW verb, <<name, verb>> \in Commands, NEW deeds, NEW n \in Nat,
         deeds = [i \in 1 .. n |-> deeds[i]],
         \A i \in 1 .. n : \E what : deeds[i] = Run(<<verb, what>>, "next")
  PROVE  Fine(name, deeds)
<1>1. \A what : <<verb, what>>[1] = verb
  OBVIOUS
<1>2. \A what : /\ Proper(name, Run(<<verb, what>>, "next"))
               /\ Run(<<verb, what>>, "next").fail # "skip"
  BY <1>1, RunProper
<1>3. \A i \in 1 .. n : Proper(name, deeds[i]) /\ deeds[i].fail # "skip"
  BY <1>2
<1>4. DOMAIN deeds = 1 .. n
  OBVIOUS
<1> QED BY <1>3, <1>4, FineEach

\* What each plugin sets out to do is its own: its files, its commands.
LEMMA FineDns ==
  ASSUME NEW s, Stage(s)
  PROVE  Fine("dns", dns(s))
<1>1. s.dns.path \in STRING
  BY DEF Stage
<1>2. Owns("dns", ResolvConf(s))
  BY <1>1 DEF Owns, ResolvConf
<1>3. \A content : Fine("dns", <<Write(ResolvConf(s), content, "return")>>)
  BY <1>2, WriteProper, FineOne
<1> QED BY <1>3, FineEmpty DEF dns

\* Shell commands and modules.
LEMMA FineCommands ==
  ASSUME NEW s, Stage(s)
  PROVE  Fine("commands", commands(s)) /\ Fine("modules", modules(s))
<1>1. /\ DOMAIN s.commands = 1 .. Len(s.commands) /\ Len(s.commands) \in Nat
      /\ DOMAIN s.modules = 1 .. Len(s.modules) /\ Len(s.modules) \in Nat
  BY DEF Stage
<1>2. <<"commands", "shell">> \in Commands /\ <<"modules", "modprobe">> \in Commands
  BY DEF Commands
<1>3. /\ commands(s) = [i \in 1 .. Len(s.commands) |-> commands(s)[i]]
      /\ \A i \in 1 .. Len(s.commands) : commands(s)[i] = Run(<<"shell", s.commands[i]>>, "next")
  BY <1>1 DEF commands, ForEach
<1>4. /\ modules(s) = [i \in 1 .. Len(s.modules) |-> modules(s)[i]]
      /\ \A i \in 1 .. Len(s.modules) : modules(s)[i] = Run(<<"modprobe", s.modules[i]>>, "next")
  BY <1>1 DEF modules, ForEach
<1>5. Fine("commands", commands(s))
  BY <1>1, <1>2, <1>3, FineRuns
<1>6. Fine("modules", modules(s))
  BY <1>1, <1>2, <1>4, FineRuns
<1> QED BY <1>5, <1>6

\* The hostname, the machine id and the live name.
LEMMA FineHostname ==
  ASSUME NEW s, NEW id
  PROVE  Fine("hostname", hostname(s, id))
<1> DEFINE a == Write(HostnamePath, s.hostname, "return")
           b == Write(MachineIdPath, id, "return")
           c == Run(<<"sethostname", s.hostname>>, "ignore")
<1>1. Owns("hostname", HostnamePath) /\ Owns("hostname", MachineIdPath)
  BY DEF Owns
<1>2. Proper("hostname", a) /\ a.fail # "skip" /\ Proper("hostname", b) /\ b.fail # "skip"
  BY <1>1, WriteProper
<1>3. <<"hostname", "sethostname">> \in Commands /\ <<"sethostname", s.hostname>>[1] = "sethostname"
  BY DEF Commands
<1>4. Proper("hostname", c) /\ c.fail # "skip"
  BY <1>3, RunProper
<1> HIDE DEF a, b, c
<1>5. Fine("hostname", <<a, b, c>>)
  BY <1>2, <1>4, FineThree
<1> QED BY <1>5, FineEmpty DEF hostname, a, b, c

\* The one file of timesyncd.
LEMMA FineTimesyncd ==
  ASSUME NEW s
  PROVE  Fine("timesyncd", timesyncd(s))
<1> DEFINE a == MkdirAll("return")
           b == Write(TimesyncdPath, s.timesyncd, "return")
<1>1. Owns("timesyncd", TimesyncdPath)
  BY DEF Owns
<1>2. Proper("timesyncd", b) /\ b.fail # "skip"
  BY <1>1, WriteProper
<1>3. Proper("timesyncd", a) /\ a.fail # "skip"
  BY MkdirProper
<1> HIDE DEF a, b
<1>4. Fine("timesyncd", <<a, b>>)
  BY <1>2, <1>3, FineTwo
<1> QED BY <1>4, FineEmpty DEF timesyncd, a, b

\* The wanted elements of a sequence are elements of it.
LEMMA ThoseElements ==
  ASSUME NEW S, NEW seq \in Seq(S), NEW places, places \subseteq DOMAIN seq,
         NEW sub, sub = Subsequence(seq, places)
  PROVE  /\ sub \in Seq(S) /\ Len(sub) \in Nat /\ DOMAIN sub = 1 .. Len(sub)
         /\ \A k \in DOMAIN sub : \E i \in places : sub[k] = seq[i]
<1>1. /\ sub \in Seq(S) /\ DOMAIN sub = 1 .. Len(sub)
      /\ \A k \in DOMAIN sub : Place(places, k) \in places /\ sub[k] = seq[Place(places, k)]
  BY SubsequenceElements
<1>2. Len(sub) \in Nat
  BY <1>1
<1> QED BY <1>1, <1>2

\* The sorted keys of a map are keys of it.
LEMMA SortedElements ==
  ASSUME NEW map, NEW S, NEW names \in Seq(S), NEW sorted, sorted = Sorted(map, names)
  PROVE  /\ sorted \in Seq(S) /\ Len(sorted) \in Nat /\ DOMAIN sorted = 1 .. Len(sorted)
         /\ \A k \in DOMAIN sorted : sorted[k] \in DOMAIN map
<1> DEFINE places == {i \in DOMAIN names : names[i] \in DOMAIN map}
<1>1. sorted = Subsequence(names, places) /\ places \subseteq DOMAIN names
  BY DEF Sorted, Those
<1>2. \A i \in places : names[i] \in DOMAIN map
  OBVIOUS
<1> HIDE DEF places
<1> QED BY <1>1, <1>2, ThoseElements

\* A setting's file is under /proc/sys.
LEMMA SysctlOwned ==
  ASSUME NEW key \in Seq(STRING)
  PROVE  Owns("sysctl", sysctl_path(key))
<1> DEFINE segments == Those(key, LAMBDA segment : segment # "")
           places == {i \in DOMAIN key : key[i] # ""}
<1>1. segments = Subsequence(key, places) /\ places \subseteq DOMAIN key
  BY DEF Those
<1> HIDE DEF places, segments
<1>2. segments \in Seq(STRING)
  BY <1>1, ThoseElements
<1>3. LET path == <<"proc", "sys">> \o segments
      IN  Len(path) >= 2 /\ path[1] = "proc" /\ path[2] = "sys"
  BY <1>2
<1> QED BY <1>3 DEF Owns, sysctl_path, segments

\* Files under /proc/sys, for the keys that are ordered.
LEMMA FineSysctl ==
  ASSUME NEW s
  PROVE  Fine("sysctl", sysctl(s))
<1>1. SysctlOrder \in Seq(Seq(STRING))
  BY ChainAssumption
<1> DEFINE keys == Sorted(s.sysctl, SysctlOrder)
<1>2. keys \in Seq(Seq(STRING)) /\ Len(keys) \in Nat /\ DOMAIN keys = 1 .. Len(keys)
  BY <1>1, SortedElements
<1> HIDE DEF keys
<1> DEFINE n == Len(keys)
           deeds == sysctl(s)
<1>3. /\ deeds = [i \in 1 .. n |-> deeds[i]] /\ DOMAIN deeds = 1 .. n
      /\ \A i \in 1 .. n : deeds[i] = Write(sysctl_path(keys[i]), s.sysctl[keys[i]], "next")
  BY <1>2 DEF sysctl, ForEach, keys
<1> HIDE DEF deeds
<1>4. \A i \in 1 .. n : Proper("sysctl", deeds[i]) /\ deeds[i].fail # "skip"
  <2> SUFFICES ASSUME NEW i \in 1 .. n
               PROVE  Proper("sysctl", deeds[i]) /\ deeds[i].fail # "skip"
    OBVIOUS
  <2>1. Owns("sysctl", sysctl_path(keys[i]))
    BY <1>2, SysctlOwned
  <2> QED BY <1>3, <2>1, WriteProper
<1>5. Fine("sysctl", deeds)
  BY <1>2, <1>3, <1>4, FineEach
<1> QED BY <1>5 DEF deeds

\* The environment file.
LEMMA FineEnvironment ==
  ASSUME NEW s, Stage(s), NEW f, NEW readable
  PROVE  Fine("environment", environment(s, f, readable))
<1>1. s.environment_file \in STRING
  BY DEF Stage
<1>2. Owns("environment", EnvFile(s))
  BY <1>1 DEF Owns, EnvFile
<1>3. \A content : Fine("environment", <<Write(EnvFile(s), content, "return")>>)
  BY <1>2, WriteProper, FineOne
<1> QED BY <1>3, FineEmpty DEF environment

\* The one command of systemd-firstboot.
LEMMA FineFirstboot ==
  ASSUME NEW s
  PROVE  Fine("systemd_firstboot", systemd_firstboot(s))
<1>1. <<"systemd_firstboot", "firstboot">> \in Commands
  BY DEF Commands
<1>2. \A flags : <<"firstboot", flags>>[1] = "firstboot"
  OBVIOUS
<1>3. \A flags : Fine("systemd_firstboot", <<Run(<<"firstboot", flags>>, "return")>>)
  BY <1>1, <1>2, RunProper, FineOne
<1> QED BY <1>3, FineEmpty DEF systemd_firstboot

\* Drop-ins, the reload, and the lists of units.
LEMMA FineSystemctl ==
  ASSUME NEW s, Stage(s)
  PROVE  Fine("systemctl", systemctl(s))
<1>1. ASSUME NEW units \in Seq(STRING), NEW verb \in {"enable", "disable", "mask", "start"}
      PROVE  Fine("systemctl", run_list(units, verb))
  <2>1. <<"systemctl", verb>> \in Commands
    BY DEF Commands
  <2> DEFINE deeds == run_list(units, verb)
  <2>2. /\ Len(units) \in Nat /\ deeds = [i \in 1 .. Len(units) |-> deeds[i]]
        /\ \A i \in 1 .. Len(units) : deeds[i] = Run(<<verb, units[i]>>, "next")
    BY DEF run_list, ForEach
  <2> HIDE DEF deeds
  <2>3. Fine("systemctl", deeds)
    BY <2>1, <2>2, FineRuns
  <2> QED BY <2>3 DEF deeds
<1>2. /\ s.systemctl.enable \in Seq(STRING) /\ s.systemctl.disable \in Seq(STRING)
      /\ s.systemctl.mask \in Seq(STRING) /\ s.systemctl.start \in Seq(STRING)
      /\ s.systemctl.overrides \in Seq([service : STRING, name : STRING, content : Seq(STRING)])
  BY DEF Stage
<1> DEFINE Override == [service : STRING, name : STRING, content : Seq(STRING)]
           list == Overrides(s)
           n == Len(list)
           deeds == write_overrides(list)
<1>3. list \in Seq(Override) /\ n \in Nat
  <2> DEFINE all == s.systemctl.overrides
             places == {i \in DOMAIN all : all[i].service # "" /\ all[i].content # <<>>}
  <2>1. list = Subsequence(all, places) /\ places \subseteq DOMAIN all
    BY DEF Overrides, Those
  <2> HIDE DEF places, list
  <2> QED BY <1>2, <2>1, ThoseElements
<1> HIDE DEF list
<1>4. /\ DOMAIN deeds = 1 .. 2 * n /\ deeds = [i \in 1 .. 2 * n |-> deeds[i]]
      /\ \A k \in 1 .. 2 * n :
           LET o == list[(k + 1) \div 2]
           IN  deeds[k] = IF k % 2 = 1 THEN MkdirAll("skip") ELSE Write(Dropin(o), o.content, "next")
  BY DEF write_overrides
<1> HIDE DEF deeds
<1>5. ASSUME NEW k \in 1 .. 2 * n
      PROVE  Proper("systemctl", deeds[k]) /\ (deeds[k].fail = "skip" => k < 2 * n)
  <2>1. CASE k % 2 = 1
    <3>1. k < 2 * n
      BY <1>3, <2>1
    <3> QED BY <1>4, <2>1, <3>1, MkdirProper
  <2>2. CASE k % 2 # 1
    <3> DEFINE o == list[(k + 1) \div 2]
    <3>1. Owns("systemctl", Dropin(o))
      <4> DEFINE dropin == IF o.name = "" THEN "override-yip" ELSE o.name
      <4>1. Dropin(o) = <<"systemd", o.service, dropin>>
        BY DEF Dropin
      <4> HIDE DEF dropin, o
      <4> QED BY <4>1 DEF Owns
    <3>2. deeds[k] = Write(Dropin(o), o.content, "next")
      BY <1>4, <2>2
    <3> HIDE DEF o
    <3> QED BY <3>1, <3>2, WriteProper
  <2> QED BY <2>1, <2>2
<1>6. 2 * n \in Nat
  BY <1>3
<1>7. Fine("systemctl", deeds)
  <2> HIDE DEF n
  <2> QED BY <1>4, <1>5, <1>6, FineEach
<1>8. Fine("systemctl", <<RunIfWritten(<<"daemon-reload">>)>>)
  BY FineOne DEF Proper, RunIfWritten, Policies
<1> QED BY <1>1, <1>2, <1>7, <1>8, FineBoth DEF systemctl, deeds, list

\* The commands of the package manager.
LEMMA FinePackages ==
  ASSUME NEW s, NEW os
  PROVE  Fine("packages", packages(s, os))
<1> DEFINE asked == s.packages
           pm == match_id(os)
           refresh == Run(<<"refresh", pm>>, "next")
           upgrade == Run(<<"upgrade", pm>>, "next")
           install == Run(<<"install", pm, asked.install>>, "next")
           remove == Run(<<"remove", pm, asked.remove>>, "next")
           parts == (IF asked.refresh THEN <<refresh>> ELSE <<>>)
                    \o (IF asked.upgrade THEN <<upgrade>> ELSE <<>>)
                    \o (IF asked.install # <<>> THEN <<install>> ELSE <<>>)
                    \o (IF asked.remove # <<>> THEN <<remove>> ELSE <<>>)
<1>1. /\ <<"packages", "refresh">> \in Commands /\ <<"packages", "upgrade">> \in Commands
      /\ <<"packages", "install">> \in Commands /\ <<"packages", "remove">> \in Commands
  BY DEF Commands
<1>2. /\ <<"refresh", pm>>[1] = "refresh" /\ <<"upgrade", pm>>[1] = "upgrade"
      /\ <<"install", pm, asked.install>>[1] = "install"
      /\ <<"remove", pm, asked.remove>>[1] = "remove"
  OBVIOUS
<1>3. /\ Fine("packages", <<refresh>>) /\ Fine("packages", <<upgrade>>)
      /\ Fine("packages", <<install>>) /\ Fine("packages", <<remove>>)
  <2>1. /\ Proper("packages", refresh) /\ refresh.fail # "skip"
        /\ Proper("packages", upgrade) /\ upgrade.fail # "skip"
        /\ Proper("packages", install) /\ install.fail # "skip"
        /\ Proper("packages", remove) /\ remove.fail # "skip"
    BY <1>1, <1>2, RunProper
  <2> HIDE DEF refresh, upgrade, install, remove
  <2> QED BY <2>1, FineOne
<1>4. Fine("packages", <<Refuse>>)
  BY RefuseProper, FineOne
<1>5. Fine("packages", parts)
  <2> HIDE DEF refresh, upgrade, install, remove
  <2> DEFINE a == IF asked.refresh THEN <<refresh>> ELSE <<>>
             b == IF asked.upgrade THEN <<upgrade>> ELSE <<>>
             c == IF asked.install # <<>> THEN <<install>> ELSE <<>>
             d == IF asked.remove # <<>> THEN <<remove>> ELSE <<>>
  <2>1. /\ Fine("packages", a) /\ Fine("packages", b)
        /\ Fine("packages", c) /\ Fine("packages", d)
    BY <1>3, FineEmpty
  <2>2. parts = a \o b \o c \o d
    OBVIOUS
  <2> HIDE DEF a, b, c, d, parts
  <2>3. Fine("packages", a \o b) /\ Fine("packages", a \o b \o c)
    BY <2>1, FineBoth
  <2>4. Fine("packages", a \o b \o c \o d)
    BY <2>1, <2>3, FineBoth
  <2> QED BY <2>2, <2>4
<1>6. packages(s, os) = IF pm = "none" /\ parts # <<>> THEN <<Refuse>> ELSE parts
  BY DEF packages
<1> HIDE DEF parts
<1> QED BY <1>4, <1>5, <1>6

\* The manager is one of those the rules name, or none.
LEMMA ManagerKnown ==
  ASSUME NEW os
  PROVE  match_id(os) \in {"apt", "dnf", "apk", "zypper", "none"}
<1> DEFINE S == {Rules[1], Rules[2], Rules[3], Rules[4]}
           places == {i \in DOMAIN Rules : Fits(Rules[i], os)}
           fits == Subsequence(Rules, places)
<1>1. Rules \in Seq(S) /\ places \subseteq DOMAIN Rules
  BY DEF Rules
<1>2. \A rule \in S : rule.pm \in {"apt", "dnf", "apk", "zypper"}
  BY DEF Rules
<1>3. match_id(os) = IF fits = <<>> THEN "none" ELSE Head(fits).pm
  BY DEF match_id, Those
<1> HIDE DEF places, S, fits
<1>4. fits \in Seq(S)
  BY <1>1, ThoseElements DEF fits
<1>5. fits # <<>> => Head(fits) \in S
  BY <1>4
<1> QED BY <1>2, <1>3, <1>5

\* The files that pin versions, one for each package.
Prefs(pins) == ForEach(Versioned(pins), LAMBDA name : Write(PrefPath(name), <<pins[name]>>, "next"))
Protected(pins) == ForEach(Versioned(pins), LAMBDA name : Write(ProtectedPath(name), <<name>>, "next"))

\* A pin file for each package that is pinned.
LEMMA FinePrefs ==
  ASSUME NEW pins
  PROVE  Fine("package_pins", Prefs(pins)) /\ Fine("package_pins", Protected(pins))
<1> DEFINE names == Versioned(pins)
           n == Len(names)
<1>1. names \in Seq(STRING) /\ n \in Nat /\ DOMAIN names = 1 .. n
  <2> DEFINE sorted == Sorted(pins, PackageOrder)
             places == {i \in DOMAIN sorted : pins[sorted[i]] # ""}
  <2>1. sorted \in Seq(STRING)
    BY ChainAssumption, SortedElements
  <2>2. names = Subsequence(sorted, places) /\ places \subseteq DOMAIN sorted
    BY DEF Versioned, Those
  <2> HIDE DEF places, sorted, names
  <2> QED BY <2>1, <2>2, ThoseElements
<1>2. ASSUME NEW deeds, NEW path, NEW content,
             deeds = [i \in 1 .. n |-> Write(path[i], content[i], "next")],
             \A i \in 1 .. n : Owns("package_pins", path[i])
      PROVE  Fine("package_pins", deeds)
  <2> HIDE DEF n, names
  <2>1. /\ DOMAIN deeds = 1 .. n /\ deeds = [i \in 1 .. n |-> deeds[i]]
        /\ \A i \in 1 .. n : deeds[i] = Write(path[i], content[i], "next")
    BY <1>2
  <2>2. \A i \in 1 .. n : Proper("package_pins", deeds[i]) /\ deeds[i].fail # "skip"
    BY <1>2, <2>1, WriteProper
  <2> QED BY <1>1, <2>1, <2>2, FineEach DEF n
<1>3. \A i \in 1 .. n : names[i] \in STRING
  <2> HIDE DEF names
  <2> QED BY <1>1
<1>4. Fine("package_pins", Prefs(pins))
  <2> DEFINE path == [i \in 1 .. n |-> PrefPath(names[i])]
             content == [i \in 1 .. n |-> <<pins[names[i]]>>]
  <2>1. Prefs(pins) = [i \in 1 .. n |-> Write(path[i], content[i], "next")]
    BY <1>1 DEF Prefs, ForEach
  <2>2. \A i \in 1 .. n : Owns("package_pins", path[i])
    BY <1>3 DEF Owns
  <2> HIDE DEF path, content, names, n
  <2> QED BY <1>2, <2>1, <2>2
<1>5. Fine("package_pins", Protected(pins))
  <2> DEFINE path == [i \in 1 .. n |-> ProtectedPath(names[i])]
             content == [i \in 1 .. n |-> <<names[i]>>]
  <2>1. Protected(pins) = [i \in 1 .. n |-> Write(path[i], content[i], "next")]
    BY <1>1 DEF Protected, ForEach
  <2>2. \A i \in 1 .. n : Owns("package_pins", path[i])
    BY <1>3 DEF Owns
  <2> HIDE DEF path, content, names, n
  <2> QED BY <1>2, <2>1, <2>2
<1> QED BY <1>4, <1>5

\* The files of the pins, by the package manager.
LEMMA FinePins ==
  ASSUME NEW s, NEW os, NEW f, NEW readable
  PROVE  Fine("package_pins", package_pins(s, os, f, readable))
<1> DEFINE pins == s.package_pins
<1>1. Fine("package_pins", <<MkdirAll("return")>>)
  BY MkdirProper, FineOne
<1>2. Fine("package_pins", apply_apt(pins))
  <2>1. apply_apt(pins) = <<MkdirAll("return")>> \o Prefs(pins)
    BY DEF apply_apt, Prefs
  <2> QED BY <1>1, <2>1, FinePrefs, FineBoth
<1>3. Fine("package_pins", update_dnf_conf_versionlock(f, readable))
  <2>1. Owns("package_pins", DnfConf)
    BY DEF Owns
  <2>2. \A lines : Fine("package_pins", <<MkdirAll("return"), Write(DnfConf, lines, "next")>>)
    BY <2>1, MkdirProper, WriteProper, FineTwo
  <2> QED BY <1>1, <2>2 DEF update_dnf_conf_versionlock
<1>4. Fine("package_pins", apply_dnf(pins, f, readable))
  <2>1. Fine("package_pins", <<MkdirAll("return")>> \o Protected(pins))
    BY <1>1, FinePrefs, FineBoth
  <2>2. apply_dnf(pins, f, readable)
          = <<MkdirAll("return")>> \o Protected(pins) \o update_dnf_conf_versionlock(f, readable)
    BY DEF apply_dnf, Protected
  <2> QED BY <1>3, <2>1, <2>2, FineBoth
<1>5. Fine("package_pins", apply_apk(pins, f, readable))
  <2>1. Owns("package_pins", WorldPath)
    BY DEF Owns
  <2>2. \A world : Fine("package_pins", <<MkdirAll("return"), Write(WorldPath, world, "next")>>)
    BY <2>1, MkdirProper, WriteProper, FineTwo
  <2> QED BY <2>2 DEF apply_apk
<1>6. match_id(os) \in {"apt", "dnf", "apk", "zypper", "none"}
  BY ManagerKnown
<1> QED BY <1>2, <1>4, <1>5, <1>6, FineEmpty DEF package_pins

\* The commands of both backends.
LEMMA FineGit ==
  ASSUME NEW s, NEW repo, NEW backend \in {"shell", "gix"}
  PROVE  Fine("git", git(s, repo, backend))
<1> DEFINE branch == effective_branch(s.git)
<1>1. \A verb \in {"ssh key", "clone", "fetch only", "fetch", "fetch gix", "reset", "checkout"} :
        <<"git", verb>> \in Commands
  BY DEF Commands
<1>2. /\ \A verb : <<verb>>[1] = verb
      /\ \A verb, x : <<verb, x>>[1] = verb
      /\ \A verb, x, y : <<verb, x, y>>[1] = verb
      /\ \A verb, x, y, z : <<verb, x, y, z>>[1] = verb
  OBVIOUS
<1>3. \A command : <<"git", command[1]>> \in Commands => Fine("git", <<Run(command, "return")>>)
  BY RunProper, FineOne
<1>4. Fine("git", <<Refuse>>)
  BY RefuseProper, FineOne
<1>5. Fine("git", build_auth(s.git))
  BY <1>1, <1>2, <1>3, <1>4, FineEmpty DEF build_auth
<1>6. Fine("git", clone_fresh(s.git, branch)) /\ Fine("git", clone_fresh_gix(s.git, branch))
  BY <1>1, <1>2, <1>3 DEF clone_fresh, clone_fresh_gix
<1>7. Fine("git", update_existing(s.git, branch))
  <2> DEFINE a == Run(<<"fetch", branch>>, "return")
             b == Run(<<"reset", branch>>, "return")
             c == IF s.git.branch_only THEN <<Run(<<"checkout", branch>>, "return")>> ELSE <<>>
  <2>1. Proper("git", a) /\ Proper("git", b) /\ b.fail # "skip"
    BY <1>1, <1>2, RunProper
  <2>2. Fine("git", c)
    BY <1>1, <1>2, <1>3, FineEmpty
  <2>3. update_existing(s.git, branch) = <<a, b>> \o c
    BY DEF update_existing
  <2> HIDE DEF a, b, c
  <2> QED BY <2>1, <2>2, <2>3, FineTwo, FineBoth
<1>8. Fine("git", update_existing_gix(s.git, branch))
  <2> DEFINE a == Run(<<"fetch gix", s.git.url, branch>>, "return")
             c == IF s.git.branch_only THEN <<Refuse>> ELSE <<>>
  <2>1. Fine("git", <<a>>) /\ Fine("git", c)
    BY <1>1, <1>2, <1>3, <1>4, FineEmpty
  <2>2. update_existing_gix(s.git, branch) = <<a>> \o c
    BY DEF update_existing_gix
  <2> HIDE DEF a, c
  <2> QED BY <2>1, <2>2, FineBoth
<1>9. Fine("git", clone_or_pull(s.git, repo, backend))
  <2> HIDE DEF branch
  <2>1. CASE repo.state = "none" /\ backend = "shell"
    <3>1. clone_or_pull(s.git, repo, backend) = build_auth(s.git) \o clone_fresh(s.git, branch)
      BY <2>1 DEF clone_or_pull, branch
    <3> QED BY <1>5, <1>6, <3>1, FineBoth
  <2>2. CASE repo.state = "none" /\ backend = "gix"
    <3>1. clone_or_pull(s.git, repo, backend) = build_auth(s.git) \o clone_fresh_gix(s.git, branch)
      BY <2>2 DEF clone_or_pull, branch
    <3> QED BY <1>5, <1>6, <3>1, FineBoth
  <2>3. CASE repo.state # "none" /\ backend = "shell"
    <3>1. clone_or_pull(s.git, repo, backend) = build_auth(s.git) \o update_existing(s.git, branch)
      BY <2>3 DEF clone_or_pull, branch
    <3> QED BY <1>5, <1>7, <3>1, FineBoth
  <2>4. CASE repo.state # "none" /\ backend = "gix"
    <3>1. clone_or_pull(s.git, repo, backend) = build_auth(s.git) \o update_existing_gix(s.git, branch)
      BY <2>4 DEF clone_or_pull, branch
    <3> QED BY <1>5, <1>8, <3>1, FineBoth
  <2> QED BY <2>1, <2>2, <2>3, <2>4
<1>10. Fine("git", <<MkdirAll("return")>>)
  BY MkdirProper, FineOne
<1>11. Fine("git", <<MkdirAll("return")>> \o clone_or_pull(s.git, repo, backend))
  BY <1>9, <1>10, FineBoth
<1> QED BY <1>4, <1>11, FineEmpty DEF git

-----------------------------------------------------------------------------

GitVerbs == {"clone", "fetch only", "fetch", "fetch gix", "reset", "checkout"}

\* A command leaves the machine's fields, and all but git's leave the repository.
LEMMA AfterFields ==
  ASSUME NEW name, NEW command, <<name, command[1]>> \in Commands \/ command[1] = "daemon-reload",
         "repo" \in DOMAIN machine, NEW next \in After(command)
  PROVE  /\ DOMAIN next = DOMAIN machine
         /\ command[1] \notin GitVerbs => next.repo = machine.repo
         /\ command[1] \in GitVerbs =>
              \E repo \in AfterGit(command, machine.repo, scenario.tips[run]) :
                next = [machine EXCEPT !.repo = repo]
<1> DEFINE what == command[2]
           Same(m) == DOMAIN m = DOMAIN machine /\ m.repo = machine.repo
<1>1. \A x : /\ Same([machine EXCEPT !.hostname = x]) /\ Same([machine EXCEPT !.key = x])
            /\ Same([machine EXCEPT !.flags = x]) /\ Same([machine EXCEPT !.loaded = x])
            /\ Same([machine EXCEPT !.shell = x]) /\ Same([machine EXCEPT !.modules = x])
            /\ Same([machine EXCEPT !.masked = x]) /\ Same([machine EXCEPT !.enabled = x])
            /\ Same([machine EXCEPT !.started = x]) /\ Same([machine EXCEPT !.installed = x])
            /\ DOMAIN [machine EXCEPT !.repo = x] = DOMAIN machine
  OBVIOUS
<1>2. CASE command[1] = "sethostname"
  <2>1. After(command) = {[machine EXCEPT !.hostname = what]}
    BY <1>2 DEF After
  <2>2. Same(next)
    <3> HIDE DEF Same, what
    <3> QED BY <1>1, <2>1
  <2> QED BY <1>2, <2>2 DEF GitVerbs
<1>3. CASE command[1] = "ssh key"
  <2>1. After(command) = {[machine EXCEPT !.key = TRUE]}
    BY <1>3 DEF After
  <2>2. Same(next)
    <3> HIDE DEF Same, what
    <3> QED BY <1>1, <2>1
  <2> QED BY <1>3, <2>2 DEF GitVerbs
<1>4. CASE command[1] = "firstboot"
  <2>1. After(command) = {[machine EXCEPT !.flags = what]}
    BY <1>4 DEF After
  <2>2. Same(next)
    <3> HIDE DEF Same, what
    <3> QED BY <1>1, <2>1
  <2> QED BY <1>4, <2>2 DEF GitVerbs
<1>5. CASE command[1] = "daemon-reload"
  <2>1. PICK loaded : After(command) = {[machine EXCEPT !.loaded = loaded]}
    BY <1>5 DEF After
  <2>2. Same(next)
    <3> HIDE DEF Same, what
    <3> QED BY <1>1, <2>1
  <2> QED BY <1>5, <2>2 DEF GitVerbs
<1>6. CASE command[1] = "shell"
  <2>1. PICK shell : After(command) \subseteq {[machine EXCEPT !.shell = shell]}
    BY <1>6 DEF After
  <2>2. next = [machine EXCEPT !.shell = shell]
    BY <2>1
  <2>3. Same(next)
    <3> HIDE DEF Same, what
    <3> QED BY <1>1, <2>2
  <2> QED BY <1>6, <2>3 DEF GitVerbs
<1>7. CASE command[1] = "modprobe"
  <2>1. PICK modprobed : After(command) \subseteq {[machine EXCEPT !.modules = modprobed]}
    BY <1>7 DEF After
  <2>2. next = [machine EXCEPT !.modules = modprobed]
    BY <2>1
  <2>3. Same(next)
    <3> HIDE DEF Same, what
    <3> QED BY <1>1, <2>2
  <2> QED BY <1>7, <2>3 DEF GitVerbs
<1>8. CASE command[1] = "mask"
  <2>1. PICK masked : After(command) \subseteq {[machine EXCEPT !.masked = masked]}
    BY <1>8 DEF After
  <2>2. next = [machine EXCEPT !.masked = masked]
    BY <2>1
  <2>3. Same(next)
    <3> HIDE DEF Same, what
    <3> QED BY <1>1, <2>2
  <2> QED BY <1>8, <2>3 DEF GitVerbs
<1>9. CASE command[1] \in {"enable", "disable", "start"}
  <2>1. PICK units : \/ After(command) \subseteq {[machine EXCEPT !.enabled = units]}
                   \/ After(command) \subseteq {[machine EXCEPT !.started = units]}
    BY <1>9 DEF After
  <2>2. next = [machine EXCEPT !.enabled = units] \/ next = [machine EXCEPT !.started = units]
    BY <2>1
  <2>3. Same(next)
    <3> HIDE DEF Same, what
    <3> QED BY <1>1, <2>2
  <2> QED BY <1>9, <2>3 DEF GitVerbs
<1>10. CASE command[1] \in {"refresh", "upgrade"}
  <2>1. After(command) = {machine}
    BY <1>10 DEF After
  <2> QED BY <1>10, <2>1 DEF GitVerbs
<1>11. CASE command[1] \in {"install", "remove"}
  <2>1. PICK names : After(command) \subseteq {[machine EXCEPT !.installed = names]}
    BY <1>11 DEF After
  <2>2. next = [machine EXCEPT !.installed = names]
    BY <2>1
  <2>3. Same(next)
    <3> HIDE DEF Same, what
    <3> QED BY <1>1, <2>2
  <2> QED BY <1>11, <2>3 DEF GitVerbs
<1>12. CASE command[1] \in GitVerbs
  <2>1. After(command) = {[machine EXCEPT !.repo = repo] :
                            repo \in AfterGit(command, machine.repo, scenario.tips[run])}
    BY <1>12 DEF After, GitVerbs
  <2> QED BY <1>1, <1>12, <2>1
<1> QED BY <1>2, <1>3, <1>4, <1>5, <1>6, <1>7, <1>8, <1>9, <1>10, <1>11, <1>12 DEF Commands, GitVerbs

Fields == {"hostname", "modules", "started", "enabled", "masked", "loaded", "flags", "shell",
           "installed", "repo", "key"}

\* The plugin's deeds are its own while it is at work.
ChainInv ==
  /\ scenario \in Scenarios
  /\ run \in 1 .. Len(scenario.stages) /\ plugin \in 1 .. 13
  /\ written \in BOOLEAN
  /\ errs \subseteq ToSet(Chain)
  /\ pc \in {"check", "chain", "deeds", "done", "skipped", "down"}
  /\ pc = "deeds" => plugin \in 1 .. 12 /\ Fine(Chain[plugin], todo)
  /\ pc # "deeds" => todo = <<>> /\ ~ machine.key
  /\ DOMAIN machine = Fields

\* The chain has twelve plugins.
LEMMA ChainLength == Len(Chain) = 12 /\ DOMAIN Chain = 1 .. 12
BY DEF Chain

\* The invariant has the types.
LEMMA ChainIsType == ChainInv => TypeOK
<1> SUFFICES ASSUME ChainInv
             PROVE  TypeOK
  OBVIOUS
<1>1. /\ run \in 1 .. Len(scenario.stages) /\ plugin \in 1 .. Len(Chain) + 1
      /\ errs \subseteq ToSet(Chain)
      /\ pc \in {"check", "chain", "deeds", "done", "skipped", "down"}
      /\ pc # "deeds" => todo = <<>> /\ ~ machine.key
  BY ChainLength DEF ChainInv
<1>2. written \in BOOLEAN
  BY DEF ChainInv
<1>3. ASSUME NEW i \in DOMAIN todo
      PROVE  todo[i].fail \in Policies /\ (todo[i].fail = "skip" => i < Len(todo))
  <2>1. CASE pc = "deeds"
    BY <1>3, <2>1 DEF ChainInv, Fine, Proper
  <2>2. CASE pc # "deeds"
    BY <1>3, <2>2 DEF ChainInv
  <2> QED BY <2>1, <2>2
<1> QED BY <1>1, <1>2, <1>3 DEF TypeOK

\* A call sets out with deeds of its own.
LEMMA CalledFine ==
  ASSUME ChainInv, NEW i \in 1 .. 12, NEW readable
  PROVE  Fine(Chain[i], Deeds(Chain[i], readable))
<1>1. scenario \in Scenarios /\ run \in DOMAIN scenario.stages /\ scenario.backend \in {"shell", "gix"}
  BY ChainAssumption DEF ChainInv
<1>2. Stage(stage)
  BY <1>1, ChainAssumption DEF stage
<1>3. /\ Fine("dns", Deeds("dns", readable)) /\ Fine("git", Deeds("git", readable))
      /\ Fine("commands", Deeds("commands", readable))
      /\ Fine("hostname", Deeds("hostname", readable))
  BY <1>1, <1>2, FineDns, FineGit, FineCommands, FineHostname DEF Deeds
<1>4. /\ Fine("sysctl", Deeds("sysctl", readable)) /\ Fine("modules", Deeds("modules", readable))
      /\ Fine("timesyncd", Deeds("timesyncd", readable))
      /\ Fine("systemctl", Deeds("systemctl", readable))
  BY <1>2, FineSysctl, FineCommands, FineTimesyncd, FineSystemctl DEF Deeds
<1>5. /\ Fine("environment", Deeds("environment", readable))
      /\ Fine("systemd_firstboot", Deeds("systemd_firstboot", readable))
      /\ Fine("package_pins", Deeds("package_pins", readable))
      /\ Fine("packages", Deeds("packages", readable))
  BY <1>2, FineEnvironment, FineFirstboot, FinePins, FinePackages DEF Deeds
<1>6. Chain[i] \in {"dns", "git", "commands", "hostname", "sysctl", "modules", "timesyncd",
                   "systemctl", "environment", "systemd_firstboot", "package_pins", "packages"}
  BY DEF Chain
<1> HIDE DEF Deeds
<1> QED BY <1>3, <1>4, <1>5, <1>6

\* What is left of a fine list is fine.
LEMMA FineTail ==
  ASSUME NEW name, NEW deeds, Fine(name, deeds), deeds # <<>>
  PROVE  /\ Fine(name, Tail(deeds)) /\ Proper(name, Head(deeds))
         /\ Head(deeds).fail = "skip" => Tail(deeds) # <<>>
<1>1. PICK S : deeds \in Seq(S)
  BY DEF Fine, Listed
<1>2. /\ Tail(deeds) \in Seq(S) /\ Len(Tail(deeds)) = Len(deeds) - 1 /\ Len(deeds) \in Nat
      /\ DOMAIN deeds = 1 .. Len(deeds) /\ Len(deeds) >= 1
      /\ Head(deeds) = deeds[1] /\ DOMAIN Tail(deeds) = 1 .. Len(deeds) - 1
      /\ \A i \in 1 .. Len(deeds) - 1 : Tail(deeds)[i] = deeds[i + 1]
  BY <1>1
<1>3. ASSUME NEW i \in DOMAIN Tail(deeds)
      PROVE  /\ Proper(name, Tail(deeds)[i])
             /\ Tail(deeds)[i].fail = "skip" => i < Len(Tail(deeds))
  <2>1. i + 1 \in DOMAIN deeds /\ Tail(deeds)[i] = deeds[i + 1] /\ i \in Nat
    BY <1>2, <1>3
  <2>2. Proper(name, deeds[i + 1]) /\ (deeds[i + 1].fail = "skip" => i + 1 < Len(deeds))
    BY <2>1 DEF Fine
  <2>3. i + 1 < Len(deeds) => i < Len(Tail(deeds))
    BY <1>2, <2>1
  <2> QED BY <2>1, <2>2, <2>3
<1>4. 1 \in DOMAIN deeds
  BY <1>2
<1>5. Proper(name, Head(deeds)) /\ (Head(deeds).fail = "skip" => 1 < Len(deeds))
  BY <1>2, <1>4 DEF Fine
<1>6. 1 < Len(deeds) => Tail(deeds) # <<>>
  <2> DEFINE rest == Tail(deeds)
  <2>1. Len(rest) = Len(deeds) - 1 /\ Len(deeds) \in Nat
    BY <1>2
  <2> HIDE DEF rest
  <2>2. 1 < Len(deeds) => rest # <<>>
    BY <2>1
  <2> QED BY <2>2 DEF rest
<1>7. Fine(name, Tail(deeds))
  BY <1>2, <1>3 DEF Fine, Listed
<1> QED BY <1>5, <1>6, <1>7

\* The deeds that are left after one that works, or fails.
LEMMA DeedsLeft ==
  ASSUME ChainInv, pc = "deeds", todo # <<>>, Done \/ Failed
  PROVE  /\ Fine(Chain[plugin], todo') /\ errs' \subseteq ToSet(Chain)
         /\ \A i \in DOMAIN todo' : \E j \in DOMAIN todo : todo'[i] = todo[j]
<1>1. Fine(Chain[plugin], todo) /\ plugin \in 1 .. 12 /\ errs \subseteq ToSet(Chain)
  BY DEF ChainInv
<1> DEFINE rest == Tail(todo)
<1>2. /\ Fine(Chain[plugin], rest) /\ Proper(Chain[plugin], Head(todo))
      /\ Head(todo).fail = "skip" => rest # <<>>
  BY <1>1, FineTail
<1>3. rest # <<>> => Fine(Chain[plugin], Tail(rest))
  BY <1>2, FineTail
<1>4. Head(todo).fail \in {"next", "skip", "return", "ignore"}
  BY <1>2 DEF Proper, Policies
<1>5. Chain[plugin] \in ToSet(Chain)
  BY <1>1, ChainLength DEF ToSet
<1>6. /\ \/ todo' = rest
         \/ todo' = Tail(rest) /\ rest # <<>>
         \/ todo' = <<>>
      /\ errs' = errs \/ errs' = errs \cup {Chain[plugin]}
  BY <1>2, <1>4 DEF Done, Failed
<1>7. ASSUME NEW name, NEW deeds, Fine(name, deeds), deeds # <<>>
      PROVE  \A i \in DOMAIN Tail(deeds) : \E j \in DOMAIN deeds : Tail(deeds)[i] = deeds[j]
  <2>1. PICK S : deeds \in Seq(S)
    BY <1>7 DEF Fine, Listed
  <2> QED BY <1>7, <2>1
<1>8. \A i \in DOMAIN rest : \E j \in DOMAIN todo : rest[i] = todo[j]
  BY <1>1, <1>7
<1>9. rest # <<>> => \A i \in DOMAIN Tail(rest) : \E j \in DOMAIN rest : Tail(rest)[i] = rest[j]
  BY <1>2, <1>7
<1> HIDE DEF rest
<1>10. \A i \in DOMAIN todo' : \E j \in DOMAIN todo : todo'[i] = todo[j]
  BY <1>6, <1>8, <1>9
<1> QED BY <1>1, <1>2, <1>3, <1>5, <1>6, <1>10, FineEmpty

\* A boot leaves the machine's fields,
LEMMA BootedFields == \A old, f : DOMAIN Booted(old, f) = DOMAIN old
BY DEF Booted

\* takes the key file,
LEMMA BootedKey ==
  ASSUME NEW old, "key" \in DOMAIN old, NEW f
  PROVE  ~ Booted(old, f).key
BY DEF Booted

\* The invariant holds at the start,
LEMMA ChainStart == Init => ChainInv
<1> SUFFICES ASSUME Init
             PROVE  ChainInv
  OBVIOUS
<1>1. /\ scenario \in Scenarios /\ run = 1 /\ plugin = 1 /\ todo = <<>> /\ written = FALSE
      /\ errs = {} /\ pc = "check"
  BY DEF Init
<1>2. 1 \in 1 .. Len(scenario.stages)
  <2>1. scenario.stages # <<>> /\ DOMAIN scenario.stages = 1 .. Len(scenario.stages)
        /\ Len(scenario.stages) \in Nat /\ \A i \in DOMAIN scenario.stages : Stage(scenario.stages[i])
    BY <1>1, ChainAssumption
  <2> QED BY <2>1
<1> DEFINE new == [hostname |-> <<>>, modules |-> {}, started |-> {}, enabled |-> {},
                   masked |-> {}, loaded |-> {}, flags |-> {}, shell |-> <<>>,
                   installed |-> scenario.installed, repo |-> NoRepo, key |-> FALSE]
<1>3. machine = Booted(new, scenario.files)
  BY DEF Init
<1>4. DOMAIN new = Fields
  BY DEF Fields
<1> HIDE DEF new
<1>5. DOMAIN machine = Fields /\ ~ machine.key
  BY <1>3, <1>4, BootedFields, BootedKey DEF Fields
<1>6. written \in BOOLEAN
  BY <1>1
<1>7. /\ scenario \in Scenarios
      /\ run \in 1 .. Len(scenario.stages) /\ plugin \in 1 .. 13
      /\ errs \subseteq ToSet(Chain)
      /\ pc \in {"check", "chain", "deeds", "done", "skipped", "down"} /\ pc # "deeds"
      /\ todo = <<>>
  BY <1>1, <1>2
<1> QED BY <1>5, <1>6, <1>7 DEF ChainInv

\* and every step keeps it, one action at a time.
LEMMA ChainStep == ChainInv /\ [Next]_vars => ChainInv'
<1> SUFFICES ASSUME ChainInv, [Next]_vars
             PROVE  ChainInv'
  OBVIOUS
<1> DEFINE Pcs == {"check", "chain", "deeds", "done", "skipped", "down"}
           Placed == /\ scenario \in Scenarios
                     /\ run \in 1 .. Len(scenario.stages) /\ plugin \in 1 .. 13
                     /\ written \in BOOLEAN
                     /\ errs \subseteq ToSet(Chain)
                     /\ pc \in Pcs
           Busy == pc = "deeds" => plugin \in 1 .. 12 /\ Fine(Chain[plugin], todo)
           Idle == pc # "deeds" => todo = <<>> /\ ~ machine.key
<1>1. /\ scenario \in Scenarios
      /\ run \in 1 .. Len(scenario.stages) /\ plugin \in 1 .. 13
      /\ errs \subseteq ToSet(Chain)
      /\ pc \in Pcs
      /\ pc = "deeds" => plugin \in 1 .. 12 /\ Fine(Chain[plugin], todo)
      /\ pc # "deeds" => todo = <<>> /\ ~ machine.key
      /\ DOMAIN machine = Fields
  BY DEF ChainInv
<1>2. written \in BOOLEAN
  BY DEF ChainInv
<1>3. Len(scenario.stages) \in Nat
  BY <1>1, ChainAssumption
<1>4. scenario' = scenario
  BY DEF Next, vars, check_conditionals, Call, DoWrite, DoMkdir, DoRun, DoRunIfWritten, DoRefuse,
         Return, Finish, Crash, NextStage
<1>5. CASE check_conditionals
  <2>1. pc' \in {"chain", "skipped"} /\ pc = "check"
    BY <1>5 DEF check_conditionals
  <2>2. UNCHANGED <<machine, run, plugin, todo, written, errs>>
    BY <1>5 DEF check_conditionals
  <2> QED BY <1>1, <1>2, <1>4, <2>1, <2>2 DEF ChainInv
<1>6. CASE Call
  <2>1. /\ plugin \in 1 .. 12 /\ pc' = "deeds"
        /\ \E readable : todo' = Deeds(Chain[plugin], readable)
        /\ UNCHANGED <<machine, run, plugin, errs>>
    BY <1>1, <1>6, ChainLength DEF Call
  <2>2. written' = FALSE
    BY <1>6 DEF Call
  <2>3. Fine(Chain[plugin], todo')
    BY <2>1, CalledFine
  <2>4. written' \in BOOLEAN
    BY <2>2
  <2> QED BY <1>1, <1>4, <2>1, <2>3, <2>4 DEF ChainInv
<1>7. ASSUME pc = "deeds", pc' = pc, todo # <<>>, Done \/ Failed, UNCHANGED <<run, plugin>>,
             written' = written \/ written' = TRUE, DOMAIN machine' = DOMAIN machine
      PROVE  ChainInv'
  <2>1. Fine(Chain[plugin], todo') /\ errs' \subseteq ToSet(Chain)
    BY <1>7, DeedsLeft
  <2>2. written' \in BOOLEAN
    BY <1>2, <1>7
  <2>3. /\ run' \in 1 .. Len(scenario'.stages) /\ plugin' \in 1 .. 12 /\ plugin' \in 1 .. 13
        /\ pc' = "deeds" /\ DOMAIN machine' = Fields
        /\ Fine(Chain[plugin'], todo')
    BY <1>1, <1>4, <1>7, <2>1
  <2> QED BY <1>1, <1>4, <2>1, <2>2, <2>3 DEF ChainInv
<1>8. CASE DoWrite
  <2>1. /\ pc = "deeds" /\ todo # <<>> /\ (Done \/ Failed)
        /\ UNCHANGED <<machine, run, plugin, pc>>
    BY <1>8 DEF DoWrite, Deed
  <2>2. written' = written \/ written' = TRUE
    BY <1>8 DEF DoWrite
  <2> QED BY <1>7, <2>1, <2>2
<1>9. CASE DoMkdir \/ DoRefuse
  <2>1. /\ pc = "deeds" /\ todo # <<>> /\ (Done \/ Failed)
        /\ UNCHANGED <<machine, run, plugin, pc>>
    BY <1>9 DEF DoMkdir, DoRefuse, Deed
  <2>2. written' = written
    BY <1>9 DEF DoMkdir, DoRefuse
  <2> QED BY <1>7, <2>1, <2>2
<1>10. CASE DoRun \/ DoRunIfWritten
  <2>1. /\ pc = "deeds" /\ todo # <<>> /\ (Done \/ Failed)
        /\ UNCHANGED <<run, plugin, pc>>
        /\ machine' = machine \/ machine' \in After(Head(todo).command)
        /\ Head(todo).op \in {"run", "run if written"}
    BY <1>10 DEF DoRun, DoRunIfWritten, Deed
  <2>2. written' = written
    BY <1>10 DEF DoRun, DoRunIfWritten
  <2>3. \/ <<Chain[plugin], Head(todo).command[1]>> \in Commands
        \/ Head(todo).command[1] = "daemon-reload"
    <3>1. Proper(Chain[plugin], Head(todo))
      BY <1>1, <2>1, FineTail
    <3>2. <<"daemon-reload">>[1] = "daemon-reload"
      OBVIOUS
    <3> QED BY <2>1, <3>1, <3>2 DEF Proper
  <2>4. DOMAIN machine' = DOMAIN machine
    <3>1. "repo" \in DOMAIN machine
      BY <1>1 DEF Fields
    <3> QED BY <2>1, <2>3, <3>1, AfterFields
  <2> QED BY <1>7, <2>1, <2>2, <2>4
<1>11. CASE Return
  <2>1. /\ pc = "deeds" /\ todo = <<>> /\ machine' = [machine EXCEPT !.key = FALSE]
        /\ plugin' = plugin + 1 /\ pc' = "chain" /\ UNCHANGED <<run, todo, errs>>
    BY <1>11 DEF Return
  <2>2. written' = written
    BY <1>11 DEF Return
  <2>3. DOMAIN machine' = Fields /\ ~ machine'.key
    BY <1>1, <2>1 DEF Fields
  <2>4. plugin' \in 1 .. 13
    BY <1>1, <2>1
  <2> QED BY <1>1, <1>2, <1>4, <2>1, <2>2, <2>3, <2>4 DEF ChainInv
<1>12. CASE Finish
  <2>1. /\ pc = "chain" /\ pc' = "done"
        /\ UNCHANGED <<machine, run, plugin, todo, errs>>
    BY <1>12 DEF Finish
  <2>2. written' = written
    BY <1>12 DEF Finish
  <2> QED BY <1>1, <1>2, <1>4, <2>1, <2>2 DEF ChainInv
<1>13. CASE Crash
  <2>1. /\ pc' = "down" /\ todo' = <<>> /\ UNCHANGED <<run, plugin, errs>>
        /\ \E repo, f : machine' = Booted([machine EXCEPT !.repo = repo], f)
    BY <1>13 DEF Crash
  <2>2. written' = written
    BY <1>13 DEF Crash
  <2>3. DOMAIN machine' = Fields /\ ~ machine'.key
    <3>1. \A repo : DOMAIN [machine EXCEPT !.repo = repo] = Fields
      BY <1>1
    <3>2. "key" \in Fields
      BY DEF Fields
    <3> QED BY <2>1, <3>1, <3>2, BootedFields, BootedKey
  <2> QED BY <1>1, <1>2, <1>4, <2>1, <2>2, <2>3 DEF ChainInv
<1>14. CASE NextStage
  <2>1. /\ run < Len(scenario.stages) /\ run' = run + 1 /\ plugin' = 1 /\ errs' = {}
        /\ pc # "deeds" /\ pc' = "check" /\ UNCHANGED todo
        /\ machine' = [machine EXCEPT !.shell = <<>>, !.flags = {}]
    BY <1>14 DEF NextStage
  <2>2. written' = FALSE
    BY <1>14 DEF NextStage
  <2>3. written' \in BOOLEAN
    BY <2>2
  <2>4. DOMAIN machine' = Fields /\ ~ machine'.key
    BY <1>1, <2>1 DEF Fields
  <2>5. run' \in 1 .. Len(scenario.stages) /\ plugin' \in 1 .. 13
    BY <1>1, <1>3, <2>1
  <2> QED BY <1>1, <1>4, <2>1, <2>3, <2>4, <2>5 DEF ChainInv
<1>15. CASE UNCHANGED vars
  <2>1. UNCHANGED <<scenario, machine, run, plugin, todo, errs, pc>>
    BY <1>15 DEF vars
  <2>2. written' = written
    BY <1>15 DEF vars
  <2> QED BY <1>1, <1>2, <2>1, <2>2 DEF ChainInv
<1> QED BY <1>5, <1>6, <1>8, <1>9, <1>10, <1>11, <1>12, <1>13, <1>14, <1>15 DEF Next

\* The types of the variables.  A deed that is left out with a failed one is
\* there, and between calls no key is in a file, whatever stages ask for and
\* whatever fails.
THEOREM ChainTypeCorrect == Spec => []TypeOK
<1>1. Init => ChainInv
  BY ChainStart
<1>2. ChainInv /\ [Next]_vars => ChainInv'
  BY ChainStep
<1>3. ChainInv => TypeOK
  BY ChainIsType
<1> QED BY <1>1, <1>2, <1>3, PTL DEF Spec

-----------------------------------------------------------------------------

Guarded ==
  \A i \in DOMAIN scenario.stages :
    LET s == scenario.stages[i]
    IN  s.hostname # <<>> =>
          "none" \in DOMAIN s.if_files /\ MachineIdPath \in ToSet(s.if_files["none"])

NameDeed == Write(HostnamePath, stage.hostname, "return")
IdDeed == Write(MachineIdPath, <<run>>, "return")
SetDeed == Run(<<"sethostname", stage.hostname>>, "ignore")

\* A guarded stage that sets a hostname finds no machine id until it writes one.
IdInv ==
  /\ pc = "deeds" /\ plugin = 4 =>
       /\ todo \in {<<>>, <<SetDeed>>, <<IdDeed, SetDeed>>, <<NameDeed, IdDeed, SetDeed>>}
       /\ todo # <<>> => stage.hostname # <<>>
  /\ Guarded /\ stage.hostname # <<>>
     /\ (\/ pc = "chain" /\ plugin <= 4
         \/ pc = "deeds" /\ plugin < 4
         \/ pc = "deeds" /\ plugin = 4
            /\ todo \in {<<IdDeed, SetDeed>>, <<NameDeed, IdDeed, SetDeed>>})
     => MachineIdPath \notin DOMAIN files

\* Only `hostname` writes the machine id,
LEMMA OwnerOfId == \A name : Owns(name, MachineIdPath) => name = "hostname"
BY DEF Owns, MachineIdPath, DefaultResolvConf, DefaultEnvFile, TimesyncdPath, DnfConf, WorldPath,
       PrefPath, ProtectedPath

\* and it is the fourth of the chain.
LEMMA HostnameFourth == \A i \in 1 .. 12 : (Chain[i] = "hostname") <=> (i = 4)
BY DEF Chain

\* A write leaves the files that are there.
LEMMA PutDomain ==
  \A map, key, value : /\ DOMAIN Put(map, key, value) = DOMAIN map \cup {key}
                       /\ Put(map, key, value)[key] = value
                       /\ \A k \in DOMAIN map : k # key => Put(map, key, value)[k] = map[k]
BY DEF Put, Over

\* Only a write to the id's file changes it.
LEMMA IdTouched ==
  ASSUME ChainInv, Next
  PROVE  \/ /\ MachineIdPath \in DOMAIN files' <=> MachineIdPath \in DOMAIN files
            /\ MachineIdPath \in DOMAIN files => files'[MachineIdPath] = files[MachineIdPath]
         \/ /\ pc = "deeds" /\ todo # <<>> /\ plugin = 4
            /\ Head(todo).op = "write" /\ Head(todo).path = MachineIdPath
<1> DEFINE Same(f) == /\ MachineIdPath \in DOMAIN f <=> MachineIdPath \in DOMAIN files
                      /\ MachineIdPath \in DOMAIN files => f[MachineIdPath] = files[MachineIdPath]
           AtIt == /\ pc = "deeds" /\ todo # <<>> /\ plugin = 4
                   /\ Head(todo).op = "write" /\ Head(todo).path = MachineIdPath
<1>1. ASSUME NEW path, NEW content, path # MachineIdPath
      PROVE  Same(Put(files, path, content))
  <2> DEFINE f == Put(files, path, content)
  <2>1. /\ DOMAIN f = DOMAIN files \cup {path}
        /\ \A k \in DOMAIN files : k # path => f[k] = files[k]
    BY DEF Put, Over
  <2> HIDE DEF f
  <2>2. Same(f)
    BY <1>1, <2>1
  <2> QED BY <2>2 DEF f
<1>2. \A f : Same(f) => Same(WithoutSysctl(f))
  <2>1. Head(MachineIdPath) # "proc"
    BY DEF MachineIdPath
  <2> QED BY <2>1 DEF WithoutSysctl
<1>3. ASSUME pc = "deeds", todo # <<>>, Head(todo).op = "write", Head(todo).path = MachineIdPath
      PROVE  AtIt
  <2>1. plugin \in 1 .. 12 /\ Proper(Chain[plugin], Head(todo))
    BY <1>3, FineTail DEF ChainInv
  <2>2. Chain[plugin] = "hostname"
    BY <1>3, <2>1, OwnerOfId DEF Proper
  <2> QED BY <1>3, <2>1, <2>2, HostnameFourth
<1>4. CASE DoWrite
  <2>1. pc = "deeds" /\ todo # <<>> /\ Head(todo).op = "write"
    BY <1>4 DEF DoWrite, Deed
  <2>2. files' = files \/ \E content : files' = Put(files, Head(todo).path, content)
    BY <1>4 DEF DoWrite
  <2>3. Same(files) 
    OBVIOUS
  <2> HIDE DEF Same, AtIt
  <2>4. Same(files') \/ AtIt
    BY <1>1, <1>3, <2>1, <2>2, <2>3
  <2> QED BY <2>4 DEF Same, AtIt
<1>5. CASE Crash
  <2>1. \/ files' = WithoutSysctl(files)
        \/ /\ pc = "deeds" /\ todo # <<>> /\ Head(todo).op = "write"
           /\ files' = WithoutSysctl(Put(files, Head(todo).path, Empty(Head(todo).path)))
    BY <1>5 DEF Crash, Deed
  <2>2. Same(files)
    OBVIOUS
  <2> HIDE DEF Same, AtIt
  <2>3. Same(files') \/ AtIt
    BY <1>1, <1>2, <1>3, <2>1, <2>2
  <2> QED BY <2>3 DEF Same, AtIt
<1>6. CASE ~ DoWrite /\ ~ Crash
  <2>1. files' = files
    BY <1>6 DEF Next, check_conditionals, Call, DoMkdir, DoRun, DoRunIfWritten, DoRefuse,
                Return, Finish, NextStage
  <2> QED BY <2>1
<1> QED BY <1>4, <1>5, <1>6

\* No plugin is at work at the start.
LEMMA IdStart == Init => IdInv
BY DEF Init, IdInv

\* While the id is guarded, no deed of a call is to write it.
LEMMA IdStep == ChainInv /\ IdInv /\ [Next]_vars => IdInv'
<1> SUFFICES ASSUME ChainInv, IdInv, [Next]_vars
             PROVE  IdInv'
  OBVIOUS
<1>1. /\ scenario \in Scenarios /\ scenario' = scenario
      /\ run \in DOMAIN scenario.stages
  <2>1. scenario' = scenario
    BY DEF Next, vars, check_conditionals, Call, DoWrite, DoMkdir, DoRun, DoRunIfWritten, DoRefuse,
           Return, Finish, Crash, NextStage
  <2> QED BY <2>1, ChainAssumption DEF ChainInv
<1>2. CASE check_conditionals
  <2>1. /\ pc' # "deeds" /\ UNCHANGED <<run, files>>
        /\ pc' = "chain" => if_files(stage, files)
    BY <1>2 DEF check_conditionals
  <2>2. ASSUME Guarded, stage.hostname # <<>>, pc' = "chain"
        PROVE  MachineIdPath \notin DOMAIN files
    <3>1. "none" \in DOMAIN stage.if_files /\ MachineIdPath \in ToSet(stage.if_files["none"])
      BY <1>1, <2>2 DEF Guarded, stage
    <3> DEFINE paths == ToSet(stage.if_files["none"])
    <3>2. paths # {} => {path \in paths : Exists(path, files)} = {}
      BY <2>1, <2>2, <3>1 DEF if_files
    <3> QED BY <3>1, <3>2 DEF Exists
  <2>3. stage' = stage /\ Guarded' = Guarded
    BY <1>1, <2>1 DEF stage, Guarded
  <2> QED BY <2>1, <2>2, <2>3 DEF IdInv
<1>3. CASE Call
  <2>1. /\ pc = "chain" /\ pc' = "deeds" /\ plugin \in 1 .. 12
        /\ \E readable : todo' = Deeds(Chain[plugin], readable)
        /\ UNCHANGED <<files, run, plugin>>
    BY <1>3, ChainLength DEF Call, ChainInv
  <2>2. stage' = stage /\ Guarded' = Guarded
    BY <1>1, <2>1 DEF stage, Guarded
  <2>3. ASSUME plugin = 4
        PROVE  todo' = hostname(stage, <<run>>)
    BY <2>1, <2>3 DEF Deeds, Chain
  <2>4. NameDeed' = NameDeed /\ IdDeed' = IdDeed /\ SetDeed' = SetDeed
    BY <2>1, <2>2 DEF NameDeed, IdDeed, SetDeed
  <2>5. hostname(stage, <<run>>)
          = IF stage.hostname = <<>> THEN <<>> ELSE <<NameDeed, IdDeed, SetDeed>>
    BY DEF hostname, NameDeed, IdDeed, SetDeed
  <2>6. plugin < 4 \/ plugin = 4 => plugin <= 4
    BY <2>1
  <2>7. <<NameDeed, IdDeed, SetDeed>> # <<>>
    OBVIOUS
  <2> QED BY <2>1, <2>2, <2>3, <2>4, <2>5, <2>6, <2>7 DEF IdInv
<1>4. CASE DoWrite \/ DoMkdir \/ DoRun \/ DoRunIfWritten \/ DoRefuse
  <2>1. /\ pc = "deeds" /\ pc' = "deeds" /\ todo # <<>> /\ UNCHANGED <<run, plugin>>
        /\ Done \/ Failed
    BY <1>4 DEF DoWrite, DoMkdir, DoRun, DoRunIfWritten, DoRefuse, Deed
  <2>2. stage' = stage /\ Guarded' = Guarded
    BY <1>1, <2>1 DEF stage, Guarded
  <2>3. NameDeed' = NameDeed /\ IdDeed' = IdDeed /\ SetDeed' = SetDeed
    BY <2>1, <2>2 DEF NameDeed, IdDeed, SetDeed
  <2>4. ASSUME plugin = 4
        PROVE  \/ todo = <<SetDeed>> /\ todo' = <<>>
               \/ todo = <<IdDeed, SetDeed>> /\ todo' \in {<<>>, <<SetDeed>>}
               \/ todo = <<NameDeed, IdDeed, SetDeed>> /\ todo' \in {<<>>, <<IdDeed, SetDeed>>}
    <3>1. todo \in {<<SetDeed>>, <<IdDeed, SetDeed>>, <<NameDeed, IdDeed, SetDeed>>}
      BY <2>1, <2>4 DEF IdInv
    <3>2. NameDeed.fail = "return" /\ IdDeed.fail = "return" /\ SetDeed.fail = "ignore"
      BY DEF NameDeed, IdDeed, SetDeed, Write, Run
    <3>3. Head(todo) \in {NameDeed, IdDeed, SetDeed}
      BY <3>1
    <3>4. todo' = Tail(todo) \/ todo' = <<>>
      BY <2>1, <3>2, <3>3 DEF Done, Failed
    <3>5. \A a, b, c : /\ Tail(<<a>>) = <<>> /\ Tail(<<a, b>>) = <<b>>
                      /\ Tail(<<a, b, c>>) = <<b, c>>
      OBVIOUS
    <3>6. todo = <<SetDeed>> => todo' = <<>>
      BY <3>4, <3>5
    <3>7. todo = <<IdDeed, SetDeed>> => todo' \in {<<>>, <<SetDeed>>}
      BY <3>4, <3>5
    <3>8. todo = <<NameDeed, IdDeed, SetDeed>> => todo' \in {<<>>, <<IdDeed, SetDeed>>}
      BY <3>4, <3>5
    <3> QED BY <3>1, <3>6, <3>7, <3>8
  <2>5. todo = <<NameDeed, IdDeed, SetDeed>> => Head(todo).path # MachineIdPath
    BY DEF NameDeed, Write, HostnamePath, MachineIdPath
  <2>6. /\ <<>> # <<IdDeed, SetDeed>> /\ <<>> # <<NameDeed, IdDeed, SetDeed>>
        /\ <<SetDeed>> # <<IdDeed, SetDeed>> /\ <<SetDeed>> # <<NameDeed, IdDeed, SetDeed>>
        /\ <<IdDeed, SetDeed>> # <<NameDeed, IdDeed, SetDeed>>
    OBVIOUS
  <2>7. \/ MachineIdPath \in DOMAIN files' <=> MachineIdPath \in DOMAIN files
        \/ plugin = 4 /\ Head(todo).path = MachineIdPath
    BY <1>4, IdTouched DEF Next
  <2>8. CASE plugin = 4
    <3> DEFINE Waiting(list) == list \in {<<IdDeed, SetDeed>>, <<NameDeed, IdDeed, SetDeed>>}
    <3>1. Waiting(todo') => Waiting(todo) /\ Head(todo).path # MachineIdPath
      BY <2>4, <2>5, <2>6, <2>8
    <3>2. todo # <<>> => stage.hostname # <<>>
      BY <2>1, <2>8 DEF IdInv
    <3>3. todo' \in {<<>>, <<SetDeed>>, <<IdDeed, SetDeed>>, <<NameDeed, IdDeed, SetDeed>>}
      BY <2>4, <2>8
    <3>4. Guarded /\ stage.hostname # <<>> /\ Waiting(todo') => MachineIdPath \notin DOMAIN files'
      BY <2>1, <2>7, <2>8, <3>1 DEF IdInv
    <3> QED BY <2>1, <2>2, <2>3, <2>8, <3>2, <3>3, <3>4 DEF IdInv
  <2>9. CASE plugin # 4
    BY <2>1, <2>2, <2>7, <2>9 DEF IdInv
  <2> QED BY <2>8, <2>9
<1>5. CASE Return
  <2>1. /\ pc = "deeds" /\ pc' = "chain" /\ plugin' = plugin + 1 /\ UNCHANGED <<files, run>>
    BY <1>5 DEF Return
  <2>2. stage' = stage /\ Guarded' = Guarded
    BY <1>1, <2>1 DEF stage, Guarded
  <2>3. plugin' <= 4 => plugin < 4
    BY <2>1 DEF ChainInv
  <2> QED BY <2>1, <2>2, <2>3 DEF IdInv
<1>6. CASE Finish \/ Crash \/ NextStage
  <2>1. pc' \in {"done", "down", "check"}
    BY <1>6 DEF Finish, Crash, NextStage
  <2> QED BY <2>1 DEF IdInv
<1>7. CASE UNCHANGED vars
  BY <1>7 DEF vars, IdInv, Guarded, stage, NameDeed, IdDeed, SetDeed
<1> QED BY <1>2, <1>3, <1>4, <1>5, <1>6, <1>7 DEF Next

\* And so no step changes it.
LEMMA IdAction == ChainInv /\ IdInv /\ [Next]_vars => [Guarded => IdStays]_vars
<1> SUFFICES ASSUME ChainInv, IdInv, Next, Guarded
             PROVE  IdStays
  BY DEF Guarded
<1>1. CASE pc = "deeds" /\ todo # <<>> /\ plugin = 4 /\ Head(todo).path = MachineIdPath
  <2>1. SetDeed.op # "write" 
    BY DEF SetDeed, Run
  <2>2. NameDeed.path # MachineIdPath
    BY DEF NameDeed, Write, HostnamePath, MachineIdPath
  <2>3. todo # <<NameDeed, IdDeed, SetDeed>>
    BY <1>1, <2>2
  <2>4. CASE todo = <<SetDeed>>
    BY <1>1, <2>1, <2>4, IdTouched DEF IdStays
  <2>5. CASE todo = <<IdDeed, SetDeed>>
    BY <1>1, <2>5 DEF IdInv, IdStays
  <2> QED BY <1>1, <2>3, <2>4, <2>5 DEF IdInv
<1>2. CASE ~ (pc = "deeds" /\ todo # <<>> /\ plugin = 4 /\ Head(todo).path = MachineIdPath)
  BY <1>2, IdTouched DEF IdStays
<1> QED BY <1>1, <1>2

\* Stages that set the hostname only while there is no machine id leave the id
\* of an earlier boot alone, for any stages, files and faults.
THEOREM GuardedIdStays == Spec => IdKeptIfGuarded
<1>1. Init => ChainInv /\ IdInv
  BY ChainStart, IdStart
<1>2. ChainInv /\ IdInv /\ [Next]_vars => ChainInv' /\ IdInv'
  BY ChainStep, IdStep
<1>3. ChainInv /\ IdInv /\ [Next]_vars => [Guarded => IdStays]_vars
  BY IdAction
<1> QED BY <1>1, <1>2, <1>3, PTL DEF Spec, IdKeptIfGuarded, Guarded

-----------------------------------------------------------------------------

Calm == scenario.faults \cap {"read", "write", "crash"} = {}

EnvFiles(sc) == {EnvFile(sc.stages[i]) : i \in DOMAIN sc.stages}

\* What a file is to keep, by what the first r stages have asked for.
StagesTo(sc, r) == {sc.stages[i] : i \in 1 .. r}

KeepsVars(sc, r, path, content) ==
  \A v \in DOMAIN sc.files[path] \ UNION {DOMAIN s.environment : s \in StagesTo(sc, r)} :
    /\ v \in DOMAIN content
    /\ sc.files[path][v].text \in {"plain", "spaced"} => content[v] = sc.files[path][v]

KeepsWorld(sc, r, content) ==
  \A entry \in sc.files[WorldPath] :
    entry[1] \notin UNION {DOMAIN s.package_pins : s \in StagesTo(sc, r)} => entry \in content

Keeps(sc, r, path, content) ==
  path \in DOMAIN sc.files =>
    /\ path \in EnvFiles(sc) \ {ResolvConf(s) : s \in StagesTo(sc, r)} => KeepsVars(sc, r, path, content)
    /\ path = WorldPath => KeepsWorld(sc, r, content)
    /\ path = DnfConf => sc.files[path] \subseteq content

KeptInv ==
  Calm => /\ \A path \in DOMAIN scenario.files :
               path \in DOMAIN files /\ Keeps(scenario, run, path, files[path])
          /\ \A i \in DOMAIN todo :
               todo[i].op = "write" => Keeps(scenario, run, todo[i].path, todo[i].content)

\* The files that others use are different files,
LEMMA PathsApart ==
  /\ WorldPath # DnfConf /\ DefaultEnvFile # WorldPath /\ DefaultEnvFile # DnfConf
  /\ \A p : /\ <<p>> # WorldPath /\ <<p>> # DnfConf /\ <<p>> # DefaultEnvFile
            /\ PrefPath(p) # WorldPath /\ PrefPath(p) # DnfConf /\ PrefPath(p) # DefaultEnvFile
            /\ ProtectedPath(p) # WorldPath /\ ProtectedPath(p) # DnfConf
            /\ ProtectedPath(p) # DefaultEnvFile
            /\ \A q : <<q>> # PrefPath(p) /\ <<q>> # ProtectedPath(p)
BY DEF WorldPath, DnfConf, DefaultEnvFile, PrefPath, ProtectedPath

\* and other plugins do not write them.
LEMMA OwnersApart ==
  \A name, path : Owns(name, path) /\ name \notin {"environment", "package_pins"} =>
    /\ path # WorldPath /\ path # DnfConf
    /\ path # DefaultEnvFile
    /\ name # "dns" => \A p : path # <<p>>
BY DEF Owns, WorldPath, DnfConf, DefaultEnvFile, DefaultResolvConf, HostnamePath, MachineIdPath,
       TimesyncdPath

\* An environment file is the default one or one that a stage names.
LEMMA EnvFileForm == \A path \in EnvFiles(scenario) : path = DefaultEnvFile \/ \E p : path = <<p>>
BY DEF EnvFiles, EnvFile

\* The stage of this call is one of those up to now.
LEMMA StageNow ==
  ASSUME ChainInv
  PROVE  /\ scenario \in Scenarios /\ run \in DOMAIN scenario.stages /\ run \in 1 .. run
         /\ stage \in StagesTo(scenario, run) /\ EnvFile(stage) \in EnvFiles(scenario)
         /\ Len(scenario.stages) \in Nat /\ DOMAIN scenario.stages = 1 .. Len(scenario.stages)
<1>1. /\ scenario \in Scenarios /\ run \in 1 .. Len(scenario.stages)
      /\ Len(scenario.stages) \in Nat /\ DOMAIN scenario.stages = 1 .. Len(scenario.stages)
  BY ChainAssumption DEF ChainInv
<1>2. run \in DOMAIN scenario.stages /\ run \in 1 .. run
  BY <1>1
<1> QED BY <1>1, <1>2 DEF Stages, EnvFiles, stage, StagesTo

\* What a plugin sets out to write to a file that others use keeps what they have there.
LEMMA EnvironmentKeeps ==
  ASSUME ChainInv, KeptInv, Calm
  PROVE  \A i \in DOMAIN environment(stage, files, TRUE) :
           LET deed == environment(stage, files, TRUE)[i]
           IN  deed.op = "write" => Keeps(scenario, run, deed.path, deed.content)
<1> DEFINE path == EnvFile(stage)
           existing == IF Exists(path, files) /\ TRUE THEN parse_dotenv(files[path]) ELSE <<>>
           content == Over(stage.environment, existing)
           deed == Write(path, content, "return")
<1>1. /\ path \in EnvFiles(scenario)
      /\ DOMAIN stage.environment
           \subseteq UNION {DOMAIN s.environment : s \in StagesTo(scenario, run)}
  BY StageNow
<1>2. ASSUME path \in DOMAIN scenario.files, path \notin {ResolvConf(s) : s \in StagesTo(scenario, run)}
      PROVE  KeepsVars(scenario, run, path, content)
  <2>1. path \in DOMAIN files /\ KeepsVars(scenario, run, path, files[path])
    BY <1>1, <1>2 DEF KeptInv, Keeps
  <2>2. existing = [name \in DOMAIN files[path] |-> unquote(files[path][name])]
    BY <2>1 DEF Exists, parse_dotenv
  <2>3. \A v : v.text \in {"plain", "spaced"} => unquote(v) = v
    BY DEF unquote
  <2>4. /\ DOMAIN content = DOMAIN stage.environment \cup DOMAIN existing
        /\ \A v \in DOMAIN existing : v \notin DOMAIN stage.environment => content[v] = existing[v]
    BY DEF Over
  <2> HIDE DEF path, existing, content
  <2>5. ASSUME NEW v \in DOMAIN scenario.files[path] \ UNION {DOMAIN s.environment : s \in StagesTo(scenario, run)}
        PROVE  /\ v \in DOMAIN content
               /\ scenario.files[path][v].text \in {"plain", "spaced"}
                    => content[v] = scenario.files[path][v]
    <3>1. /\ v \in DOMAIN files[path]
          /\ scenario.files[path][v].text \in {"plain", "spaced"}
               => files[path][v] = scenario.files[path][v]
      BY <2>1, <2>5 DEF KeepsVars
    <3>2. v \in DOMAIN existing /\ existing[v] = unquote(files[path][v])
      BY <2>2, <3>1
    <3>3. v \notin DOMAIN stage.environment
      BY <1>1, <2>5
    <3>4. v \in DOMAIN content /\ content[v] = existing[v]
      BY <2>4, <3>2, <3>3
    <3> QED BY <2>3, <3>1, <3>2, <3>4
  <2> QED BY <2>5 DEF KeepsVars
<1>3. path # WorldPath /\ path # DnfConf
  BY <1>1, EnvFileForm, PathsApart
<1> HIDE DEF path, content
<1>4. Keeps(scenario, run, path, content)
  BY <1>2, <1>3 DEF Keeps
<1>5. deed.path = path /\ deed.content = content
  BY DEF Write
<1>6. environment(stage, files, TRUE) = IF DOMAIN stage.environment = {} THEN <<>> ELSE <<deed>>
  BY DEF environment, path, content
<1> HIDE DEF deed
<1> DEFINE list == environment(stage, files, TRUE)
<1>7. list = <<>> \/ list = <<deed>>
  BY <1>6
<1> HIDE DEF list
<1>8. \A i \in DOMAIN list : list[i] = deed
  BY <1>7
<1>9. \A i \in DOMAIN list : list[i].op = "write" => Keeps(scenario, run, list[i].path, list[i].content)
  BY <1>4, <1>5, <1>8
<1> QED BY <1>9 DEF list

\* The elements of two sequences in one.
LEMMA BothElements ==
  ASSUME NEW first, NEW second, Listed(first), Listed(second),
         NEW i \in DOMAIN (first \o second)
  PROVE  \/ \E j \in DOMAIN first : (first \o second)[i] = first[j]
         \/ \E j \in DOMAIN second : (first \o second)[i] = second[j]
<1>1. PICK S : first \in Seq(S)
  BY DEF Listed
<1>2. PICK T : second \in Seq(T)
  BY DEF Listed
<1>3. first \in Seq(S \cup T) /\ second \in Seq(S \cup T)
  <2>1. Seq(S) \subseteq Seq(S \cup T) /\ Seq(T) \subseteq Seq(S \cup T)
    OBVIOUS
  <2> QED BY <1>1, <1>2, <2>1
<1>4. /\ Len(first) \in Nat /\ Len(second) \in Nat
      /\ i \in 1 .. Len(first) + Len(second)
      /\ DOMAIN first = 1 .. Len(first) /\ DOMAIN second = 1 .. Len(second)
  BY <1>3
<1>5. CASE i <= Len(first)
  <2>1. i \in DOMAIN first /\ (first \o second)[i] = first[i]
    BY <1>3, <1>4, <1>5
  <2> QED BY <2>1
<1>6. CASE i > Len(first)
  <2>1. i - Len(first) \in DOMAIN second /\ (first \o second)[i] = second[i - Len(first)]
    BY <1>3, <1>4, <1>6
  <2> QED BY <2>1
<1> QED BY <1>4, <1>5, <1>6

\* What pins write: files of their own, dnf's settings as they were with a line
\* more, or apk's world without the pinned packages' old entries.
PinDeed(deed, pins, f) ==
  deed.op = "write" =>
    \/ \E p : deed.path \in {PrefPath(p), ProtectedPath(p)}
    \/ /\ deed.path = DnfConf
       /\ DnfConf \in DOMAIN f => f[DnfConf] \subseteq deed.content
    \/ /\ deed.path = WorldPath
       /\ WorldPath \in DOMAIN f => \A e \in f[WorldPath] : e[1] \notin DOMAIN pins => e \in deed.content

\* What `package_pins` sets out to write, deed by deed.
LEMMA PinDeeds ==
  ASSUME NEW s, NEW os, NEW f
  PROVE  \A i \in DOMAIN package_pins(s, os, f, TRUE) :
           PinDeed(package_pins(s, os, f, TRUE)[i], s.package_pins, f)
<1> DEFINE pins == s.package_pins
           Good(list) == Listed(list) /\ \A k \in DOMAIN list : PinDeed(list[k], pins, f)
           mkdir == MkdirAll("return")
           lock == update_dnf_conf_versionlock(f, TRUE)
<1>1. PinDeed(mkdir, pins, f)
  BY DEF PinDeed, MkdirAll
<1>2. ASSUME NEW deed, PinDeed(deed, pins, f)
      PROVE  Good(<<deed>>)
  <2>1. <<deed>> \in Seq({deed}) /\ \A k \in DOMAIN <<deed>> : <<deed>>[k] = deed
    OBVIOUS
  <2>2. Listed(<<deed>>)
    BY <2>1 DEF Listed
  <2>3. \A k \in DOMAIN <<deed>> : PinDeed(<<deed>>[k], pins, f)
    BY <1>2, <2>1
  <2> QED BY <2>2, <2>3
<1>3. ASSUME NEW a, NEW b, Good(a), Good(b)
      PROVE  Good(a \o b)
  <2>1. \A k \in DOMAIN (a \o b) : PinDeed((a \o b)[k], pins, f)
    <3> SUFFICES ASSUME NEW k \in DOMAIN (a \o b)
                 PROVE  PinDeed((a \o b)[k], pins, f)
      OBVIOUS
    <3>1. \/ \E j \in DOMAIN a : (a \o b)[k] = a[j]
          \/ \E j \in DOMAIN b : (a \o b)[k] = b[j]
      BY <1>3, BothElements
    <3> QED BY <1>3, <3>1
  <2>2. Listed(a \o b)
    <3>1. PICK S : a \in Seq(S)
      BY <1>3 DEF Listed
    <3>2. PICK T : b \in Seq(T)
      BY <1>3 DEF Listed
    <3>3. Seq(S) \subseteq Seq(S \cup T) /\ Seq(T) \subseteq Seq(S \cup T)
      OBVIOUS
    <3>4. a \o b \in Seq(S \cup T)
      BY <3>1, <3>2, <3>3
    <3> QED BY <3>4 DEF Listed
  <2> QED BY <2>1, <2>2
<1>4. Good(Prefs(pins)) /\ Good(Protected(pins))
  <2>1. \A k \in DOMAIN Prefs(pins) : \E p, content : Prefs(pins)[k] = Write(PrefPath(p), content, "next")
    BY DEF Prefs, ForEach
  <2>2. \A k \in DOMAIN Protected(pins) :
          \E p, content : Protected(pins)[k] = Write(ProtectedPath(p), content, "next")
    BY DEF Protected, ForEach
  <2>3. Listed(Prefs(pins)) /\ Listed(Protected(pins))
    BY FinePrefs DEF Fine
  <2>4. \A p, content : /\ PinDeed(Write(PrefPath(p), content, "next"), pins, f)
                        /\ PinDeed(Write(ProtectedPath(p), content, "next"), pins, f)
    BY DEF PinDeed, Write
  <2> QED BY <2>1, <2>2, <2>3, <2>4
<1>5. Good(<<>>)
  BY FineEmpty DEF Fine
<1>6. Good(lock)
  <2> DEFINE existing == IF Exists(DnfConf, f) THEN f[DnfConf] ELSE {}
             lines == {"versionlock"} \cup IF existing = {} THEN {"[main]"} ELSE existing
             w == Write(DnfConf, lines, "next")
  <2>1. PinDeed(w, pins, f)
    <3>1. DnfConf \in DOMAIN f => f[DnfConf] \subseteq lines
      BY DEF Exists
    <3>2. w.path = DnfConf /\ w.content = lines
      BY DEF Write
    <3> HIDE DEF w, lines
    <3> QED BY <3>1, <3>2 DEF PinDeed
  <2>2. lock = <<mkdir>> \/ lock = <<mkdir, w>>
    BY DEF update_dnf_conf_versionlock
  <2>3. <<mkdir, w>> = <<mkdir>> \o <<w>>
    OBVIOUS
  <2> HIDE DEF mkdir, w, lock, Good
  <2>4. Good(<<mkdir>>) /\ Good(<<mkdir>> \o <<w>>)
    BY <1>1, <1>2, <1>3, <2>1
  <2> QED BY <2>2, <2>3, <2>4
<1>7. Good(apply_apk(pins, f, TRUE))
  <2> DEFINE existing == IF Exists(WorldPath, f) THEN f[WorldPath] ELSE {}
             world == WorldWith(pins, existing)
             w == Write(WorldPath, world, "next")
  <2>1. PinDeed(w, pins, f)
    <3>1. WorldPath \in DOMAIN f => \A e \in f[WorldPath] : e[1] \notin DOMAIN pins => e \in world
      BY DEF Exists, WorldWith
    <3>2. w.path = WorldPath /\ w.content = world
      BY DEF Write
    <3> HIDE DEF w, world
    <3> QED BY <3>1, <3>2 DEF PinDeed
  <2>2. apply_apk(pins, f, TRUE) = <<mkdir, w>>
    BY DEF apply_apk
  <2>3. <<mkdir, w>> = <<mkdir>> \o <<w>>
    OBVIOUS
  <2> HIDE DEF mkdir, w, Good
  <2>4. Good(<<mkdir>> \o <<w>>)
    BY <1>1, <1>2, <1>3, <2>1
  <2> QED BY <2>2, <2>3, <2>4
<1>8. Good(apply_apt(pins)) /\ Good(apply_dnf(pins, f, TRUE))
  <2>1. apply_apt(pins) = <<mkdir>> \o Prefs(pins)
    BY DEF apply_apt, Prefs
  <2>2. apply_dnf(pins, f, TRUE) = <<mkdir>> \o Protected(pins) \o lock
    BY DEF apply_dnf, Protected
  <2> HIDE DEF mkdir, lock, Good
  <2>3. Good(<<mkdir>>)
    BY <1>1, <1>2
  <2>4. Good(<<mkdir>> \o Prefs(pins)) /\ Good(<<mkdir>> \o Protected(pins))
    BY <1>3, <1>4, <2>3
  <2>5. Good(<<mkdir>> \o Protected(pins) \o lock)
    BY <1>3, <1>6, <2>4
  <2> QED BY <2>1, <2>2, <2>4, <2>5
<1>9. Good(package_pins(s, os, f, TRUE))
  <2>1. match_id(os) \in {"apt", "dnf", "apk", "zypper", "none"}
    BY ManagerKnown
  <2>2. package_pins(s, os, f, TRUE)
          \in {<<>>, apply_apt(pins), apply_dnf(pins, f, TRUE), apply_apk(pins, f, TRUE)}
    BY <2>1 DEF package_pins
  <2> HIDE DEF Good
  <2> QED BY <1>5, <1>7, <1>8, <2>2
<1> QED BY <1>9

\* What other plugins write is not in the files that are to keep something.
LEMMA OtherDeedsKeep ==
  ASSUME ChainInv, NEW name, name \notin {"environment", "package_pins"},
         NEW path, Owns(name, path), name = "dns" => path = ResolvConf(stage)
  PROVE  \A content : Keeps(scenario, run, path, content)
<1>1. path # WorldPath /\ path # DnfConf /\ path # DefaultEnvFile
      /\ (name # "dns" => \A p : path # <<p>>)
  BY OwnersApart
<1>2. path \notin EnvFiles(scenario) \ {ResolvConf(s) : s \in StagesTo(scenario, run)}
  <2>1. name # "dns" => path \notin EnvFiles(scenario)
    BY <1>1, EnvFileForm
  <2>2. stage \in StagesTo(scenario, run)
    BY StageNow
  <2> QED BY <2>1, <2>2
<1> QED BY <1>1, <1>2 DEF Keeps

\* It keeps the entries of others.
LEMMA PinsKeep ==
  ASSUME ChainInv, KeptInv, Calm, NEW deed, PinDeed(deed, stage.package_pins, files),
         deed.op = "write"
  PROVE  Keeps(scenario, run, deed.path, deed.content)
<1> DEFINE pins == stage.package_pins
<1>1. DOMAIN pins \subseteq UNION {DOMAIN s.package_pins : s \in StagesTo(scenario, run)}
  BY StageNow
<1>2. deed.path \in EnvFiles(scenario) => deed.path \notin {WorldPath, DnfConf}
      /\ \A p : deed.path \notin {PrefPath(p), ProtectedPath(p)}
  BY EnvFileForm, PathsApart
<1>3. CASE \E p : deed.path \in {PrefPath(p), ProtectedPath(p)}
  BY <1>2, <1>3, PathsApart DEF Keeps
<1>4. CASE deed.path = DnfConf /\ (DnfConf \in DOMAIN files => files[DnfConf] \subseteq deed.content)
  <2>1. DnfConf \in DOMAIN scenario.files =>
          DnfConf \in DOMAIN files /\ scenario.files[DnfConf] \subseteq files[DnfConf]
    BY DEF KeptInv, Keeps
  <2> QED BY <1>2, <1>4, <2>1, PathsApart DEF Keeps
<1>5. CASE /\ deed.path = WorldPath
           /\ WorldPath \in DOMAIN files =>
                \A e \in files[WorldPath] : e[1] \notin DOMAIN pins => e \in deed.content
  <2>1. WorldPath \in DOMAIN scenario.files => WorldPath \in DOMAIN files /\ KeepsWorld(scenario, run, files[WorldPath])
    BY DEF KeptInv, Keeps
  <2>2. WorldPath \in DOMAIN scenario.files => KeepsWorld(scenario, run, deed.content)
    BY <1>1, <1>5, <2>1 DEF KeepsWorld
  <2> QED BY <1>2, <1>5, <2>2, PathsApart DEF Keeps
<1> QED BY <1>3, <1>4, <1>5 DEF PinDeed

\* The files are those of the scenario at the start.
LEMMA KeptStart == Init => KeptInv
<1> SUFFICES ASSUME Init
             PROVE  KeptInv
  OBVIOUS
<1>1. files = scenario.files /\ todo = <<>>
  BY DEF Init
<1>2. \A path \in DOMAIN scenario.files : Keeps(scenario, run, path, files[path])
  BY <1>1 DEF Keeps, KeepsVars, KeepsWorld
<1>3. \A i \in DOMAIN todo : FALSE
  BY <1>1
<1> QED BY <1>1, <1>2, <1>3 DEF KeptInv

\* What any call sets out to write keeps what is to be kept.
LEMMA CalledKeeps ==
  ASSUME ChainInv, KeptInv, Calm, NEW k \in 1 .. 12
  PROVE  \A i \in DOMAIN Deeds(Chain[k], TRUE) :
           LET deed == Deeds(Chain[k], TRUE)[i]
           IN  deed.op = "write" => Keeps(scenario, run, deed.path, deed.content)
<1> DEFINE name == Chain[k]
           deeds == Deeds(name, TRUE)
<1>1. CASE name = "environment"
  <2>1. deeds = environment(stage, files, TRUE)
    BY <1>1 DEF Deeds
  <2> QED BY <2>1, EnvironmentKeeps
<1>2. CASE name = "package_pins"
  <2>1. deeds = package_pins(stage, scenario.os, files, TRUE)
    BY <1>2 DEF Deeds
  <2> HIDE DEF deeds
  <2>2. \A i \in DOMAIN deeds : deeds[i].op = "write" => Keeps(scenario, run, deeds[i].path, deeds[i].content)
    BY <2>1, PinDeeds, PinsKeep
  <2> QED BY <2>2 DEF deeds
<1>3. CASE name \notin {"environment", "package_pins"}
  <2>1. Fine(name, deeds)
    BY CalledFine
  <2>2. \A i \in DOMAIN deeds : deeds[i].op = "write" => Owns(name, deeds[i].path)
    BY <2>1 DEF Fine, Proper
  <2>3. ASSUME name = "dns", NEW i \in DOMAIN deeds
        PROVE  deeds[i].path = ResolvConf(stage)
    <3>1. deeds = dns(stage)
      BY <2>3 DEF Deeds
    <3>2. \A content : /\ \A j \in DOMAIN <<Write(ResolvConf(stage), content, "return")>> : j = 1
                       /\ Write(ResolvConf(stage), content, "return").path = ResolvConf(stage)
      BY DEF Write
    <3>3. PICK content : deeds = <<>> \/ deeds = <<Write(ResolvConf(stage), content, "return")>>
      BY <3>1 DEF dns
    <3> HIDE DEF deeds
    <3> QED BY <2>3, <3>2, <3>3
  <2> HIDE DEF deeds, name
  <2>4. \A i \in DOMAIN deeds : deeds[i].op = "write" => Keeps(scenario, run, deeds[i].path, deeds[i].content)
    BY <1>3, <2>2, <2>3, OtherDeedsKeep
  <2> QED BY <2>4 DEF deeds, name
<1> QED BY <1>1, <1>2, <1>3

\* Every step keeps it.
LEMMA KeptStep == ChainInv /\ KeptInv /\ [Next]_vars => KeptInv'
<1> SUFFICES ASSUME ChainInv, KeptInv, [Next]_vars, Calm'
             PROVE  /\ \A path \in DOMAIN scenario'.files :
                         path \in DOMAIN files' /\ Keeps(scenario', run', path, files'[path])
                    /\ \A i \in DOMAIN todo' : todo'[i].op = "write" =>
                         Keeps(scenario', run', todo'[i].path, todo'[i].content)
  BY DEF KeptInv
<1>1. scenario' = scenario
  BY DEF Next, vars, check_conditionals, Call, DoWrite, DoMkdir, DoRun, DoRunIfWritten, DoRefuse,
         Return, Finish, Crash, NextStage
<1>2. Calm /\ ~ mayFail("read") /\ ~ mayFail("write") /\ ~ mayFail("crash")
  BY <1>1 DEF Calm, mayFail
<1>3. ASSUME NEW r \in Nat, run <= r, NEW path, NEW content, Keeps(scenario, run, path, content)
      PROVE  Keeps(scenario, r, path, content)
  <2>1. StagesTo(scenario, run) \subseteq StagesTo(scenario, r)
    BY <1>3, StageNow DEF StagesTo
  <2> QED BY <1>3, <2>1 DEF Keeps, KeepsVars, KeepsWorld
<1> DEFINE Kept == \A path \in DOMAIN scenario.files :
                     path \in DOMAIN files' /\ Keeps(scenario, run', path, files'[path])
           Due == \A i \in DOMAIN todo' : todo'[i].op = "write" =>
                    Keeps(scenario, run', todo'[i].path, todo'[i].content)
<1>4. /\ \A path \in DOMAIN scenario.files : path \in DOMAIN files /\ Keeps(scenario, run, path, files[path])
      /\ \A i \in DOMAIN todo : todo[i].op = "write" => Keeps(scenario, run, todo[i].path, todo[i].content)
  BY <1>2 DEF KeptInv
<1>5. CASE Call
  <2>1. /\ plugin \in 1 .. 12 /\ UNCHANGED <<files, run>> /\ todo' = Deeds(Chain[plugin], TRUE)
    <3>1. PICK readable \in {TRUE} \cup {~ mayFail("read")} : todo' = Deeds(Chain[plugin], readable)
      BY <1>5 DEF Call
    <3>2. readable = TRUE
      BY <1>2, <3>1
    <3>3. plugin \in 1 .. 12 /\ UNCHANGED <<files, run>>
      BY <1>5, ChainLength DEF Call, ChainInv
    <3> QED BY <3>1, <3>2, <3>3
  <2>2. Due
    BY <1>2, <2>1, CalledKeeps
  <2>3. Kept
    BY <1>4, <2>1
  <2> QED BY <1>1, <2>2, <2>3
<1>6. CASE DoWrite \/ DoMkdir \/ DoRun \/ DoRunIfWritten \/ DoRefuse
  <2>1. /\ pc = "deeds" /\ todo # <<>> /\ (Done \/ Failed) /\ run' = run
    BY <1>6 DEF DoWrite, DoMkdir, DoRun, DoRunIfWritten, DoRefuse, Deed
  <2>2. \A i \in DOMAIN todo' : \E j \in DOMAIN todo : todo'[i] = todo[j]
    BY <2>1, DeedsLeft
  <2>3. Due
    BY <1>4, <2>1, <2>2
  <2>4. CASE files' = files
    <3>1. Kept
      BY <1>4, <2>1, <2>4
    <3> QED BY <1>1, <2>3, <3>1
  <2>5. CASE DoWrite /\ files' = Put(files, Head(todo).path, Head(todo).content)
    <3>1. \E i \in DOMAIN todo : Head(todo) = todo[i]
      <4>1. Listed(todo)
        BY <2>1 DEF ChainInv, Fine
      <4>2. PICK S : todo \in Seq(S)
        BY <4>1 DEF Listed
      <4> QED BY <2>1, <4>2
    <3>2. Head(todo).op = "write"
      BY <2>5 DEF DoWrite, Deed
    <3> DEFINE p == Head(todo).path
               content == Head(todo).content
    <3>3. Keeps(scenario, run, p, content)
      BY <1>4, <3>1, <3>2
    <3>4. /\ DOMAIN files' = DOMAIN files \cup {p} /\ files'[p] = content
          /\ \A k \in DOMAIN files : k # p => files'[k] = files[k]
      BY <2>5 DEF Put, Over
    <3> HIDE DEF p, content
    <3>5. Kept
      BY <1>4, <2>1, <3>3, <3>4
    <3> QED BY <1>1, <2>3, <3>5
  <2>6. files' = files \/ (DoWrite /\ files' = Put(files, Head(todo).path, Head(todo).content))
    BY <1>2, <1>6 DEF DoWrite, DoMkdir, DoRun, DoRunIfWritten, DoRefuse
  <2> QED BY <2>4, <2>5, <2>6
<1>7. CASE check_conditionals \/ Return \/ Finish \/ UNCHANGED vars
  <2>1. UNCHANGED <<files, run, todo>>
    BY <1>7 DEF check_conditionals, Return, Finish, vars
  <2> QED BY <1>1, <1>4, <2>1
<1>8. CASE NextStage
  <2>1. /\ UNCHANGED <<files, todo>> /\ run' = run + 1
    BY <1>8 DEF NextStage
  <2>2. run <= run' /\ run' \in Nat
    BY <2>1, StageNow
  <2>3. Kept
    BY <1>3, <1>4, <2>1, <2>2
  <2>4. Due
    BY <1>3, <1>4, <2>1, <2>2
  <2> QED BY <1>1, <2>3, <2>4
<1>9. ~ Crash
  BY <1>2 DEF Crash
<1> QED BY <1>5, <1>6, <1>7, <1>8, <1>9 DEF Next

\* The invariant is what OthersKept says.
LEMMA KeptIsOthers == KeptInv /\ ChainInv => OthersKept
<1> SUFFICES ASSUME KeptInv, ChainInv, Calm
             PROVE  OthersKept
  BY DEF OthersKept, Calm
<1>1. \A path \in DOMAIN scenario.files : path \in DOMAIN files /\ Keeps(scenario, run, path, files[path])
  BY DEF KeptInv
<1>2. Stages = StagesTo(scenario, run) /\ {EnvFile(s) : s \in Stages} \subseteq EnvFiles(scenario)
  BY StageNow DEF Stages, StagesTo, EnvFiles
<1> QED BY <1>1, <1>2 DEF Keeps, KeepsVars, KeepsWorld, OthersKept

\* What no stage names stays in the files that plugins rewrite, for any stages,
\* files and package manager, and whatever commands and directories fail.
THEOREM ChainKeepsOthers == Spec => []OthersKept
<1>1. Init => ChainInv /\ KeptInv
  BY ChainStart, KeptStart
<1>2. ChainInv /\ KeptInv /\ [Next]_vars => ChainInv' /\ KeptInv'
  BY ChainStep, KeptStep
<1>3. ChainInv /\ KeptInv => OthersKept
  BY KeptIsOthers
<1> QED BY <1>1, <1>2, <1>3, PTL DEF Spec

-----------------------------------------------------------------------------

RepoFields == {"state", "url", "only", "origin", "heads", "head", "tree"}

\* The branches that the first r stages have asked for.
GitBranches(sc, r) == {effective_branch(s.git) : s \in {t \in StagesTo(sc, r) : t.git.url # ""}}

Steady(sc, r) ==
  Cardinality(GitBranches(sc, r)) <= 1 \/ \A s \in StagesTo(sc, r) : ~ s.git.branch_only

\* A whole repository is on a branch that was asked for, and one that follows a
\* branch knows of no other.
RepoOk(branches, repo) ==
  /\ DOMAIN repo = RepoFields
  /\ repo.state = "whole" =>
       /\ repo.head \in branches
       /\ repo.only # "" => DOMAIN repo.origin \subseteq {repo.only}

KeyDeed == Run(<<"ssh key">>, "return")
DirDeed == MkdirAll("return")
CloneDeed(g) ==
  LET branch == effective_branch(g)
  IN  Run(<<"clone", g.url, branch, IF g.branch_only THEN branch ELSE "">>, "return")
FetchDeed(g) == Run(<<"fetch", effective_branch(g)>>, "return")
ResetDeed(g) == Run(<<"reset", effective_branch(g)>>, "return")
CheckoutDeed(g) == Run(<<"checkout", effective_branch(g)>>, "return")

\* What may be left of a call's deeds, by the git commands that are next.
Ahead(rest) == {<<DirDeed>> \o (<<KeyDeed>> \o rest), <<DirDeed>> \o rest, <<KeyDeed>> \o rest, rest}

Cloning(g) == Ahead(<<CloneDeed(g)>>)

FetchingOnly(g) == Ahead(<<FetchDeed(g), ResetDeed(g), CheckoutDeed(g)>>)

FetchingAll(g) == Ahead(<<FetchDeed(g), ResetDeed(g)>>)

\* The commit the branch is at on the remote, and whether it was fetched, if
\* the repository follows the branch.
Tip(g, tips, repo) == tips[<<repo.url, effective_branch(g)>>]

Fetched(g, tips, repo) ==
  /\ repo.state = "whole"
  /\ effective_branch(g) \in DOMAIN repo.origin =>
       repo.origin[effective_branch(g)] = Tip(g, tips, repo)

Arrived(g, tips, steady, repo) == steady => repo.tree = Tip(g, tips, repo)

\* How far a call has come that has not failed.
Underway(g, tips, steady, repo, deeds) ==
  \/ deeds \in Cloning(g) /\ repo.state = "none"
  \/ deeds \in FetchingOnly(g) /\ g.branch_only
  \/ deeds \in FetchingAll(g) /\ ~ g.branch_only
  \/ deeds = <<ResetDeed(g), CheckoutDeed(g)>> /\ g.branch_only /\ Fetched(g, tips, repo)
  \/ deeds = <<ResetDeed(g)>> /\ ~ g.branch_only /\ Fetched(g, tips, repo)
  \/ /\ deeds = <<CheckoutDeed(g)>> /\ g.branch_only /\ Fetched(g, tips, repo)
     /\ repo.head \in DOMAIN repo.heads /\ repo.heads[repo.head] = Tip(g, tips, repo)
  \/ deeds = <<>> /\ Arrived(g, tips, steady, repo)

\* A call that refuses, at once or after the directory.
Refused(deeds) ==
  /\ deeds # <<>>
  /\ \/ Head(deeds) = Refuse
     \/ Head(deeds) = DirDeed /\ Tail(deeds) # <<>> /\ Head(Tail(deeds)) = Refuse

OnCourse(g, tips, steady, repo, deeds) ==
  \/ g.url = "" /\ deeds = <<>>
  \/ g.url # "" /\ Refused(deeds)
  \/ g.url # "" /\ g.path # "" /\ Underway(g, tips, steady, repo, deeds)

\* In a call that has not failed, and after it.
GitAt(sc, r, repo, at, place, failed, deeds) ==
  LET g == sc.stages[r].git
      steady == Steady(sc, r)
  IN  /\ at = "deeds" /\ place = 2 /\ ~ failed => OnCourse(g, sc.tips[r], steady, repo, deeds)
      /\ at \in {"chain", "deeds", "done"} /\ place > 2 /\ ~ failed /\ g.url # "" /\ steady =>
           repo.tree = Tip(g, sc.tips[r], repo)

\* A call that has failed does nothing more, and no call has failed before it
\* is made.
GitPlace(at, place, failed, deeds) ==
  /\ at = "check" => place = 1
  /\ at = "done" => place > 2
  /\ at \in {"check", "chain", "deeds"} /\ place < 2 => ~ failed
  /\ at \in {"check", "chain"} /\ place = 2 => ~ failed
  /\ at = "deeds" /\ place = 2 /\ failed => deeds = <<>>

GitInv ==
  scenario.backend = "shell" =>
    /\ RepoOk(GitBranches(scenario, run), machine.repo)
    /\ GitAt(scenario, run, machine.repo, pc, plugin, "git" \in errs, todo)
    /\ GitPlace(pc, plugin, "git" \in errs, todo)

\* What git's commands leave of a repository.
Verb(command, verb) == command[1] = verb

Narrow(repo) == repo.only # "" => DOMAIN repo.origin \subseteq {repo.only}

Whole(repo) == DOMAIN repo = RepoFields

Cloned(command, tips, next) ==
  /\ Whole(next) /\ next.state = "whole" /\ Narrow(next)
  /\ next.url = command[2] /\ next.only = command[4]
  /\ next.head = command[3] /\ next.tree = tips[<<command[2], command[3]>>]

AsFetched(command, repo, tips, next) ==
  /\ Whole(next) /\ repo.state = "whole" /\ next.state = "whole" /\ Narrow(next)
  /\ next.url = repo.url /\ next.only = repo.only /\ next.head = repo.head /\ next.heads = repo.heads
  /\ command[2] \in DOMAIN next.origin =>
       next.origin[command[2]] = tips[<<repo.url, command[2]>>]

AsReset(command, repo, next) ==
  /\ Whole(next) /\ next.state = repo.state
  /\ next.url = repo.url /\ next.only = repo.only /\ next.head = repo.head
  /\ next.origin = repo.origin /\ command[2] \in DOMAIN repo.origin
  /\ next.tree = repo.origin[command[2]]
  /\ next.head \in DOMAIN next.heads /\ next.heads[next.head] = repo.origin[command[2]]

CheckedOut(command, repo, next) ==
  /\ Whole(next) /\ next.state = repo.state
  /\ next.url = repo.url /\ next.only = repo.only /\ next.head = command[2]
  /\ next.origin = repo.origin
  /\ \/ command[2] \in DOMAIN repo.heads /\ next.tree = repo.heads[command[2]]
     \/ command[2] \notin DOMAIN repo.heads /\ command[2] \in DOMAIN repo.origin
        /\ next.tree = repo.origin[command[2]]

\* A clone that works.
LEMMA CloneLeaves ==
  ASSUME NEW command, NEW repo, NEW tips, Verb(command, "clone"),
         NEW next \in AfterGit(command, repo, tips)
  PROVE  Cloned(command, tips, next)
<1> PICK url, branch, only : command[2] = url /\ command[3] = branch /\ command[4] = only
  OBVIOUS
<1> DEFINE there == Branches(tips, url)
           new == [state |-> "whole", url |-> url, only |-> only,
                   origin |-> [b \in IF only = "" THEN DOMAIN there ELSE {only} |-> there[b]],
                   heads |-> Put(<<>>, branch, there[branch]), head |-> branch,
                   tree |-> there[branch]]
<1>1. command[1] = "clone" /\ command[2] = url /\ command[3] = branch /\ command[4] = only
  BY DEF Verb
<1>2. AfterGit(command, repo, tips) = IF branch \notin DOMAIN there THEN {} ELSE {new}
  BY <1>1 DEF AfterGit
<1>3. \A b \in DOMAIN there : there[b] = tips[<<url, b>>]
  BY DEF Branches
<1>4. next = new /\ branch \in DOMAIN there
  BY <1>2
<1>5. /\ DOMAIN new = RepoFields /\ new.state = "whole" /\ new.url = url /\ new.only = only
      /\ new.head = branch /\ new.tree = there[branch]
      /\ only # "" => DOMAIN new.origin \subseteq {only}
  BY DEF RepoFields
<1> HIDE DEF new, there
<1> QED BY <1>1, <1>3, <1>4, <1>5 DEF Cloned, Whole, Narrow

\* A fetch that works, of one branch.
LEMMA FetchLeaves ==
  ASSUME NEW command, NEW repo, NEW tips, Whole(repo), Narrow(repo),
         Verb(command, "fetch"), command[2] # "", NEW next \in AfterGit(command, repo, tips)
  PROVE  AsFetched(command, repo, tips, next)
<1> PICK branch : command[2] = branch
  OBVIOUS
<1> DEFINE there == Branches(tips, repo.url)
           followed == IF repo.only = "" THEN {branch} ELSE {branch} \cap {repo.only}
           origin == Over([b \in followed |-> there[b]], repo.origin)
<1>1. /\ command[1] = "fetch" /\ command[2] = branch /\ branch # ""
      /\ DOMAIN repo = RepoFields /\ (repo.only # "" => DOMAIN repo.origin \subseteq {repo.only})
  BY DEF Verb, Whole, Narrow
<1>2. AfterGit(command, repo, tips)
        = IF repo.state # "whole" \/ ~ {branch} \subseteq DOMAIN there THEN {}
          ELSE {[repo EXCEPT !.origin = origin]}
  BY <1>1 DEF AfterGit
<1>3. \A b \in DOMAIN there : there[b] = tips[<<repo.url, b>>]
  BY DEF Branches
<1> HIDE DEF there
<1>4. repo.state = "whole" /\ branch \in DOMAIN there /\ next = [repo EXCEPT !.origin = origin]
  BY <1>2
<1>5. /\ DOMAIN origin = followed \cup DOMAIN repo.origin
      /\ \A b \in followed : origin[b] = there[b]
  BY DEF Over
<1>6. repo.only # "" => DOMAIN origin \subseteq {repo.only}
  BY <1>1, <1>5
<1>7. branch \in DOMAIN origin => branch \in followed
  BY <1>1, <1>5
<1>8. /\ DOMAIN next = RepoFields /\ next.state = repo.state /\ next.url = repo.url
      /\ next.only = repo.only /\ next.head = repo.head /\ next.heads = repo.heads
      /\ next.origin = origin
  <2> HIDE DEF origin
  <2> QED BY <1>1, <1>4 DEF RepoFields
<1> HIDE DEF origin, followed
<1> QED BY <1>1, <1>3, <1>4, <1>5, <1>6, <1>7, <1>8 DEF AsFetched, Whole, Narrow

\* A reset that works puts the branch that is on to the fetched commit.
LEMMA ResetLeaves ==
  ASSUME NEW command, NEW repo, NEW tips, Whole(repo),
         Verb(command, "reset"), NEW next \in AfterGit(command, repo, tips)
  PROVE  AsReset(command, repo, next)
<1> PICK branch : command[2] = branch
  OBVIOUS
<1> DEFINE commit == repo.origin[branch]
           heads == Put(repo.heads, repo.head, commit)
<1>1. command[1] = "reset" /\ command[2] = branch /\ DOMAIN repo = RepoFields
  BY DEF Verb, Whole
<1>2. AfterGit(command, repo, tips)
        = IF branch \notin DOMAIN repo.origin THEN {}
          ELSE {[repo EXCEPT !.head = repo.head, !.tree = commit, !.heads = heads]}
  BY <1>1 DEF AfterGit
<1>3. repo.head \in DOMAIN heads /\ heads[repo.head] = commit
  BY DEF Put, Over
<1> HIDE DEF heads, commit
<1>4. /\ branch \in DOMAIN repo.origin
      /\ next = [repo EXCEPT !.head = repo.head, !.tree = commit, !.heads = heads]
  BY <1>2
<1>5. /\ DOMAIN next = RepoFields /\ next.state = repo.state /\ next.url = repo.url
      /\ next.only = repo.only /\ next.head = repo.head /\ next.origin = repo.origin
      /\ next.tree = commit /\ next.heads = heads
  BY <1>1, <1>4 DEF RepoFields
<1> QED BY <1>1, <1>3, <1>4, <1>5 DEF commit, AsReset, Whole

\* A checkout that works takes the branch of its own, or else the fetched one.
LEMMA CheckoutLeaves ==
  ASSUME NEW command, NEW repo, NEW tips, Whole(repo),
         Verb(command, "checkout"), NEW next \in AfterGit(command, repo, tips)
  PROVE  CheckedOut(command, repo, next)
<1> PICK branch : command[2] = branch
  OBVIOUS
<1> DEFINE on(commit) == [repo EXCEPT !.head = branch, !.tree = commit,
                                      !.heads = Put(repo.heads, branch, commit)]
<1>1. command[1] = "checkout" /\ command[2] = branch /\ DOMAIN repo = RepoFields
  BY DEF Verb, Whole
<1>2. AfterGit(command, repo, tips)
        = IF branch \in DOMAIN repo.heads THEN {on(repo.heads[branch])}
          ELSE IF branch \in DOMAIN repo.origin THEN {on(repo.origin[branch])} ELSE {}
  BY <1>1 DEF AfterGit
<1>3. \A commit : /\ DOMAIN on(commit) = RepoFields /\ on(commit).state = repo.state
                  /\ on(commit).url = repo.url /\ on(commit).only = repo.only
                  /\ on(commit).head = branch /\ on(commit).origin = repo.origin
                  /\ on(commit).tree = commit
  BY <1>1 DEF RepoFields
<1> HIDE DEF on
<1> QED BY <1>1, <1>2, <1>3 DEF CheckedOut, Whole

\* Where there is one branch, two that were asked for are the same.
LEMMA OneBranch ==
  ASSUME NEW sc, NEW r \in Nat, Cardinality(GitBranches(sc, r)) <= 1,
         NEW a \in GitBranches(sc, r), NEW b \in GitBranches(sc, r)
  PROVE  a = b
<1> DEFINE asked == {i \in 1 .. r : sc.stages[i].git.url # ""}
           f == [i \in asked |-> effective_branch(sc.stages[i].git)]
           branches == GitBranches(sc, r)
<1>1. IsFiniteSet(asked)
  <2>1. IsFiniteSet(1 .. r)
    BY FS_Interval
  <2>2. asked \in SUBSET (1 .. r)
    OBVIOUS
  <2> HIDE DEF asked
  <2> QED BY <2>1, <2>2, FS_Subset
<1>2. branches = {f[i] : i \in asked}
  <2>1. \A x \in branches : \E i \in asked : x = f[i]
    BY DEF GitBranches, StagesTo
  <2>2. \A i \in asked : f[i] \in branches
    BY DEF GitBranches, StagesTo
  <2> HIDE DEF f, asked, branches
  <2> QED BY <2>1, <2>2
<1>3. f \in Surjection(asked, branches)
  BY <1>2 DEF Surjection
<1>4. IsFiniteSet(branches)
  <2> HIDE DEF f, asked, branches
  <2> QED BY <1>1, <1>3, FS_Surjection
<1>5. SUFFICES ASSUME a # b
               PROVE  FALSE
  OBVIOUS
<1>6. IsFiniteSet({a}) /\ Cardinality({a}) = 1
  BY FS_Singleton
<1>7. Cardinality({a} \cup {b}) = 2
  BY <1>5, <1>6, FS_AddElement
<1>8. Cardinality({a} \cup {b}) <= Cardinality(branches)
  <2>1. {a} \cup {b} \in SUBSET branches
    OBVIOUS
  <2> HIDE DEF branches
  <2> QED BY <1>4, <2>1, FS_Subset
<1>9. Cardinality(branches) \in Nat
  <2> HIDE DEF branches
  <2> QED BY <1>4, FS_CardinalityType
<1> QED BY <1>7, <1>8, <1>9

\* The parts of the git plugin's deeds.
LEMMA DeedFields ==
  ASSUME NEW g
  PROVE  /\ DirDeed.op = "mkdir" /\ KeyDeed.op = "run" /\ CloneDeed(g).op = "run"
         /\ FetchDeed(g).op = "run" /\ ResetDeed(g).op = "run" /\ CheckoutDeed(g).op = "run"
         /\ Refuse.op = "refuse"
         /\ DirDeed.fail = "return" /\ KeyDeed.fail = "return" /\ CloneDeed(g).fail = "return"
         /\ FetchDeed(g).fail = "return" /\ ResetDeed(g).fail = "return"
         /\ CheckoutDeed(g).fail = "return" /\ Refuse.fail = "return"
         /\ KeyDeed.command = <<"ssh key">>
         /\ FetchDeed(g).command = <<"fetch", effective_branch(g)>>
         /\ ResetDeed(g).command = <<"reset", effective_branch(g)>>
         /\ CheckoutDeed(g).command = <<"checkout", effective_branch(g)>>
         /\ CloneDeed(g).command = <<"clone", g.url, effective_branch(g),
                                     IF g.branch_only THEN effective_branch(g) ELSE "">>
BY DEF DirDeed, KeyDeed, CloneDeed, FetchDeed, ResetDeed, CheckoutDeed, Refuse, MkdirAll, Run

\* A sequence with one more in front.
LEMMA ConsParts ==
  ASSUME NEW S, NEW rest \in Seq(S), NEW first, NEW all, all = <<first>> \o rest
  PROVE  all \in Seq(S \cup {first}) /\ Head(all) = first /\ Tail(all) = rest
<1>1. rest \in Seq(S \cup {first}) /\ <<first>> \in Seq(S \cup {first})
  <2>1. Seq(S) \subseteq Seq(S \cup {first})
    OBVIOUS
  <2> QED BY <2>1
<1> QED BY <1>1

\* Three deeds put together.
LEMMA TwoAndOne ==
  ASSUME NEW a, NEW b, NEW c
  PROVE  <<a, b>> \o <<c>> = <<a, b, c>>
<1> PICK S : S = {a, b, c}
  OBVIOUS
<1> PICK s, t, u : s = <<a, b>> /\ t = s \o <<c>> /\ u = <<a, b, c>>
  OBVIOUS
<1>1. s \in Seq(S) /\ Len(s) = 2 /\ s[1] = a /\ s[2] = b /\ <<c>> \in Seq(S)
  OBVIOUS
<1>2. t \in Seq(S) /\ Len(t) = 3 /\ t[1] = s[1] /\ t[2] = s[2] /\ t[3] = c
  BY <1>1
<1>3. u \in Seq(S) /\ Len(u) = 3 /\ u[1] = a /\ u[2] = b /\ u[3] = c
  OBVIOUS
<1>4. \A i \in 1 .. 3 : i = 1 \/ i = 2 \/ i = 3
  OBVIOUS
<1>5. \A i \in 1 .. 3 : t[i] = u[i]
  BY <1>1, <1>2, <1>3, <1>4
<1>6. t = [i \in 1 .. 3 |-> t[i]] /\ u = [i \in 1 .. 3 |-> u[i]]
  BY <1>2, <1>3
<1>7. t = u
  <2> HIDE <1>1, <1>2, <1>3
  <2> QED BY <1>5, <1>6
<1> QED BY <1>7

\* The next deed of a call, and what is left after it.
LEMMA NextDeed ==
  ASSUME NEW g, NEW deeds
  PROVE  /\ deeds \in Cloning(g) =>
              \/ Head(deeds) \in {DirDeed, KeyDeed} /\ Tail(deeds) \in Cloning(g)
              \/ Head(deeds) = CloneDeed(g) /\ Tail(deeds) = <<>>
         /\ deeds \in FetchingOnly(g) =>
              \/ Head(deeds) \in {DirDeed, KeyDeed} /\ Tail(deeds) \in FetchingOnly(g)
              \/ Head(deeds) = FetchDeed(g) /\ Tail(deeds) = <<ResetDeed(g), CheckoutDeed(g)>>
         /\ deeds \in FetchingAll(g) =>
              \/ Head(deeds) \in {DirDeed, KeyDeed} /\ Tail(deeds) \in FetchingAll(g)
              \/ Head(deeds) = FetchDeed(g) /\ Tail(deeds) = <<ResetDeed(g)>>
         /\ deeds = <<ResetDeed(g), CheckoutDeed(g)>> =>
              Head(deeds) = ResetDeed(g) /\ Tail(deeds) = <<CheckoutDeed(g)>>
         /\ deeds = <<ResetDeed(g)>> => Head(deeds) = ResetDeed(g) /\ Tail(deeds) = <<>>
         /\ deeds = <<CheckoutDeed(g)>> => Head(deeds) = CheckoutDeed(g) /\ Tail(deeds) = <<>>
<1> DEFINE c == CloneDeed(g)
           f == FetchDeed(g)
           b == ResetDeed(g)
           o == CheckoutDeed(g)
<1> HIDE DEF c, f, b, o
<1>1. ASSUME NEW S, NEW rest \in Seq(S), deeds \in Ahead(rest)
      PROVE  \/ Head(deeds) \in {DirDeed, KeyDeed} /\ Tail(deeds) \in Ahead(rest)
             \/ deeds = rest
  <2> PICK keyed : keyed = <<KeyDeed>> \o rest
    OBVIOUS
  <2> PICK d, k : d = DirDeed /\ k = KeyDeed
    OBVIOUS
  <2>1. keyed \in Seq(S \cup {k}) /\ Head(keyed) = KeyDeed /\ Tail(keyed) = rest
    <3>1. rest \in Seq(S \cup {k})
      <4>1. Seq(S) \subseteq Seq(S \cup {k})
        OBVIOUS
      <4> QED BY <4>1
    <3>2. k \in S \cup {k} /\ keyed = <<k>> \o rest
      OBVIOUS
    <3> HIDE DEF KeyDeed
    <3> QED BY <3>1, <3>2, ConsParts
  <2>2. deeds = <<DirDeed>> \o keyed => Head(deeds) = DirDeed /\ Tail(deeds) = keyed
    <3>1. keyed \in Seq(S \cup {k} \cup {d})
      <4>1. Seq(S \cup {k}) \subseteq Seq(S \cup {k} \cup {d})
        OBVIOUS
      <4> QED BY <2>1, <4>1
    <3> QED BY <3>1, ConsParts
  <2>3. deeds = <<DirDeed>> \o rest => Head(deeds) = DirDeed /\ Tail(deeds) = rest
    <3>1. rest \in Seq(S \cup {d})
      <4>1. Seq(S) \subseteq Seq(S \cup {d})
        OBVIOUS
      <4> QED BY <4>1
    <3> QED BY <3>1, ConsParts
  <2>4. deeds \in {<<DirDeed>> \o keyed, <<DirDeed>> \o rest, keyed, rest}
    BY <1>1 DEF Ahead
  <2>5. keyed \in Ahead(rest) /\ rest \in Ahead(rest)
    BY DEF Ahead
  <2> QED BY <2>1, <2>2, <2>3, <2>4, <2>5
<1>2. deeds \in Cloning(g) =>
        \/ Head(deeds) \in {DirDeed, KeyDeed} /\ Tail(deeds) \in Cloning(g)
        \/ Head(deeds) = c /\ Tail(deeds) = <<>>
  <2>1. <<c>> \in Seq({c}) /\ Head(<<c>>) = c /\ Tail(<<c>>) = <<>>
    OBVIOUS
  <2>2. Cloning(g) = Ahead(<<c>>)
    BY DEF Cloning, c
  <2>3. deeds = <<c>> => Head(deeds) = c /\ Tail(deeds) = <<>>
    OBVIOUS
  <2> QED BY <1>1, <2>1, <2>2, <2>3
<1>3. deeds \in FetchingOnly(g) =>
        \/ Head(deeds) \in {DirDeed, KeyDeed} /\ Tail(deeds) \in FetchingOnly(g)
        \/ Head(deeds) = f /\ Tail(deeds) = <<b, o>>
  <2>1. <<f, b, o>> \in Seq({f, b, o})
    OBVIOUS
  <2>2. FetchingOnly(g) = Ahead(<<f, b, o>>)
    BY DEF FetchingOnly, f, b, o
  <2>3. deeds = <<f, b, o>> => Head(deeds) = f /\ Tail(deeds) = <<b, o>>
    OBVIOUS
  <2> QED BY <1>1, <2>1, <2>2, <2>3
<1>4. deeds \in FetchingAll(g) =>
        \/ Head(deeds) \in {DirDeed, KeyDeed} /\ Tail(deeds) \in FetchingAll(g)
        \/ Head(deeds) = f /\ Tail(deeds) = <<b>>
  <2>1. <<f, b>> \in Seq({f, b})
    OBVIOUS
  <2>2. FetchingAll(g) = Ahead(<<f, b>>)
    BY DEF FetchingAll, f, b
  <2>3. deeds = <<f, b>> => Head(deeds) = f /\ Tail(deeds) = <<b>>
    OBVIOUS
  <2> QED BY <1>1, <2>1, <2>2, <2>3
<1>5. deeds = <<b, o>> => Head(deeds) = b /\ Tail(deeds) = <<o>>
  OBVIOUS
<1>6. deeds = <<b>> => Head(deeds) = b /\ Tail(deeds) = <<>>
  OBVIOUS
<1>7. deeds = <<o>> => Head(deeds) = o /\ Tail(deeds) = <<>>
  OBVIOUS
<1> QED BY <1>2, <1>3, <1>4, <1>5, <1>6, <1>7 DEF c, f, b, o

\* A call that has nothing left to do.
LEMMA UnderwayEnd ==
  ASSUME NEW g, NEW tips, NEW steady, NEW repo, NEW deeds, deeds = <<>>,
         Underway(g, tips, steady, repo, deeds)
  PROVE  Arrived(g, tips, steady, repo)
<1>1. ASSUME NEW S, NEW rest \in Seq(S), Len(rest) > 0
      PROVE  <<>> \notin Ahead(rest)
  <2>1. ASSUME NEW T, NEW later \in Seq(T), NEW first, <<>> = <<first>> \o later
        PROVE  FALSE
    <3>1. <<>> \in Seq(T \cup {first}) /\ Head(<<>>) = first /\ Tail(<<>>) = later
      BY <2>1, ConsParts
    <3>2. later \in Seq(T \cup {first})
      <4>1. Seq(T) \subseteq Seq(T \cup {first})
        OBVIOUS
      <4> QED BY <4>1
    <3>3. \A first_ \in T \cup {first}, l \in Seq(T \cup {first}) : Len(<<first_>> \o l) > 0
      OBVIOUS
    <3>4. Len(<<first>> \o later) > 0
      BY <3>2, <3>3
    <3> QED BY <2>1, <3>4
  <2>2. <<KeyDeed>> \o rest \in Seq(S \cup {KeyDeed})
    BY ConsParts
  <2>3. <<>> # rest
    BY <1>1
  <2> QED BY <1>1, <2>1, <2>2, <2>3 DEF Ahead
<1> PICK c, f, b, o : c = CloneDeed(g) /\ f = FetchDeed(g) /\ b = ResetDeed(g) /\ o = CheckoutDeed(g)
  OBVIOUS
<1>2. /\ <<c>> \in Seq({c}) /\ Len(<<c>>) = 1
      /\ <<f, b, o>> \in Seq({f, b, o}) /\ Len(<<f, b, o>>) = 3
      /\ <<f, b>> \in Seq({f, b}) /\ Len(<<f, b>>) = 2
  OBVIOUS
<1>3. <<>> \notin Ahead(<<c>>)
  <2> PICK rest : rest = <<c>>
    OBVIOUS
  <2>1. rest \in Seq({c}) /\ Len(rest) > 0
    OBVIOUS
  <2> QED BY <1>1, <2>1
<1>4. <<>> \notin Ahead(<<f, b, o>>)
  <2> PICK rest : rest = <<f, b, o>>
    OBVIOUS
  <2>1. rest \in Seq({f, b, o}) /\ Len(rest) > 0
    OBVIOUS
  <2> QED BY <1>1, <2>1
<1>5. <<>> \notin Ahead(<<f, b>>)
  <2> PICK rest : rest = <<f, b>>
    OBVIOUS
  <2>1. rest \in Seq({f, b}) /\ Len(rest) > 0
    OBVIOUS
  <2> QED BY <1>1, <2>1
<1>6. <<>> \notin Cloning(g) /\ <<>> \notin FetchingOnly(g) /\ <<>> \notin FetchingAll(g)
  BY <1>3, <1>4, <1>5 DEF Cloning, FetchingOnly, FetchingAll
<1>7. <<>> # <<b, o>> /\ <<>> # <<b>> /\ <<>> # <<o>>
  OBVIOUS
<1> QED BY <1>6, <1>7 DEF Underway

\* One deed of a call that works brings it further.
LEMMA OneDeedOn ==
  ASSUME NEW g, NEW tips, NEW steady, NEW branches, NEW repo, NEW next, NEW deeds, deeds # <<>>,
         RepoOk(branches, repo), Underway(g, tips, steady, repo, deeds),
         effective_branch(g) \in branches,
         steady /\ g.branch_only => \A b \in branches : b = effective_branch(g),
         Head(deeds) \in {DirDeed, KeyDeed} => next = repo,
         Head(deeds) \notin {DirDeed, KeyDeed} => next \in AfterGit(Head(deeds).command, repo, tips)
  PROVE  RepoOk(branches, next) /\ Underway(g, tips, steady, next, Tail(deeds))
<1> PICK branch : branch = effective_branch(g)
  OBVIOUS
<1>1. branch # "" /\ branch \in branches
  BY DEF effective_branch
<1>2. \A it : /\ Tip(g, tips, it) = tips[<<it.url, branch>>]
              /\ Fetched(g, tips, it) <=>
                   /\ it.state = "whole"
                   /\ branch \in DOMAIN it.origin => it.origin[branch] = tips[<<it.url, branch>>]
  BY DEF Tip, Fetched
<1>3. /\ DOMAIN repo = RepoFields
      /\ repo.state = "whole" =>
           repo.head \in branches /\ (repo.only # "" => DOMAIN repo.origin \subseteq {repo.only})
  BY DEF RepoOk
<1>4. Whole(repo) /\ (repo.state = "whole" => Narrow(repo))
  BY <1>3 DEF Whole, Narrow
<1>5. /\ CloneDeed(g).command[1] = "clone" /\ CloneDeed(g).command[2] = g.url
      /\ CloneDeed(g).command[3] = branch
  BY DEF CloneDeed, Run
<1>6. /\ FetchDeed(g).command[1] = "fetch" /\ FetchDeed(g).command[2] = branch
      /\ ResetDeed(g).command[1] = "reset" /\ ResetDeed(g).command[2] = branch
      /\ CheckoutDeed(g).command[1] = "checkout" /\ CheckoutDeed(g).command[2] = branch
  BY DEF FetchDeed, ResetDeed, CheckoutDeed, Run
<1>7. /\ CloneDeed(g) \notin {DirDeed, KeyDeed} /\ FetchDeed(g) \notin {DirDeed, KeyDeed}
      /\ ResetDeed(g) \notin {DirDeed, KeyDeed} /\ CheckoutDeed(g) \notin {DirDeed, KeyDeed}
  <2>1. /\ CloneDeed(g).op # DirDeed.op /\ FetchDeed(g).op # DirDeed.op
        /\ ResetDeed(g).op # DirDeed.op /\ CheckoutDeed(g).op # DirDeed.op
    BY DeedFields
  <2>2. KeyDeed.command[1] = "ssh key"
    BY DEF KeyDeed, Run
  <2> QED BY <1>5, <1>6, <2>1, <2>2
<1>8. ASSUME NEW deed, deed \notin {DirDeed, KeyDeed}, Head(deeds) = deed
      PROVE  next \in AfterGit(deed.command, repo, tips)
  BY <1>8
<1>9. CASE deeds \in Cloning(g) /\ repo.state = "none"
  <2>1. CASE Head(deeds) \in {DirDeed, KeyDeed} /\ Tail(deeds) \in Cloning(g)
    BY <1>9, <2>1 DEF Underway
  <2>2. CASE Head(deeds) = CloneDeed(g) /\ Tail(deeds) = <<>>
    <3>1. next \in AfterGit(CloneDeed(g).command, repo, tips)
      BY <1>7, <1>8, <2>2
    <3>2. PICK command : command = CloneDeed(g).command
      OBVIOUS
    <3>3. next \in AfterGit(command, repo, tips) /\ Verb(command, "clone")
      BY <1>5, <3>1, <3>2 DEF Verb
    <3>4. Cloned(command, tips, next)
      BY <3>3, CloneLeaves
    <3>5. /\ DOMAIN next = RepoFields /\ next.url = command[2] /\ next.head = command[3]
          /\ next.tree = tips[<<command[2], command[3]>>]
          /\ next.only # "" => DOMAIN next.origin \subseteq {next.only}
      BY <3>4 DEF Cloned, Whole, Narrow
    <3>6. /\ DOMAIN next = RepoFields /\ next.head = branch /\ next.tree = tips[<<next.url, branch>>]
          /\ next.only # "" => DOMAIN next.origin \subseteq {next.only}
      BY <1>5, <3>2, <3>5
    <3>7. RepoOk(branches, next)
      BY <1>1, <3>6 DEF RepoOk
    <3>8. next.tree = Tip(g, tips, next)
      BY <1>2, <3>6
    <3> QED BY <2>2, <3>7, <3>8 DEF Underway, Arrived
  <2> QED BY <1>9, <2>1, <2>2, NextDeed
<1>10. CASE (deeds \in FetchingOnly(g) /\ g.branch_only) \/ (deeds \in FetchingAll(g) /\ ~ g.branch_only)
  <2>1. CASE Head(deeds) \in {DirDeed, KeyDeed}
    <3>1. \/ Tail(deeds) \in FetchingOnly(g) /\ g.branch_only
          \/ Tail(deeds) \in FetchingAll(g) /\ ~ g.branch_only
      BY <1>7, <1>10, <2>1, NextDeed
    <3> QED BY <2>1, <3>1 DEF Underway
  <2>2. CASE Head(deeds) \notin {DirDeed, KeyDeed}
    <3>1. /\ Head(deeds) = FetchDeed(g)
          /\ g.branch_only => Tail(deeds) = <<ResetDeed(g), CheckoutDeed(g)>>
          /\ ~ g.branch_only => Tail(deeds) = <<ResetDeed(g)>>
      BY <1>10, <2>2, NextDeed
    <3>2. next \in AfterGit(FetchDeed(g).command, repo, tips)
      BY <1>7, <1>8, <3>1
    <3>3. PICK command : command = FetchDeed(g).command
      OBVIOUS
    <3>4. next \in AfterGit(command, repo, tips) /\ Verb(command, "fetch") /\ command[2] = branch
      BY <1>6, <3>2, <3>3 DEF Verb
    <3>5. repo.state = "whole"
      BY <3>4 DEF AfterGit, Verb
    <3>6. AsFetched(command, repo, tips, next)
      BY <1>1, <1>4, <3>4, <3>5, FetchLeaves
    <3>7. /\ DOMAIN next = RepoFields /\ next.state = "whole"
          /\ next.url = repo.url /\ next.head = repo.head
          /\ next.only # "" => DOMAIN next.origin \subseteq {next.only}
          /\ branch \in DOMAIN next.origin => next.origin[branch] = tips[<<repo.url, branch>>]
      BY <3>4, <3>6 DEF AsFetched, Whole, Narrow
    <3>8. RepoOk(branches, next)
      BY <1>3, <3>5, <3>7 DEF RepoOk
    <3>9. Fetched(g, tips, next)
      BY <1>2, <3>7
    <3> QED BY <3>1, <3>8, <3>9 DEF Underway
  <2> QED BY <2>1, <2>2
<1>11. CASE \/ deeds = <<ResetDeed(g), CheckoutDeed(g)>> /\ g.branch_only /\ Fetched(g, tips, repo)
            \/ deeds = <<ResetDeed(g)>> /\ ~ g.branch_only /\ Fetched(g, tips, repo)
  <2>1. /\ Head(deeds) = ResetDeed(g)
        /\ \/ Tail(deeds) = <<CheckoutDeed(g)>> /\ g.branch_only
           \/ Tail(deeds) = <<>>
    BY <1>11, NextDeed
  <2>2. next \in AfterGit(ResetDeed(g).command, repo, tips)
    BY <1>7, <1>8, <2>1
  <2>3. PICK command : command = ResetDeed(g).command
    OBVIOUS
  <2>4. next \in AfterGit(command, repo, tips) /\ Verb(command, "reset") /\ command[2] = branch
    BY <1>6, <2>2, <2>3 DEF Verb
  <2>5. /\ DOMAIN next = RepoFields /\ next.state = repo.state
        /\ next.url = repo.url /\ next.only = repo.only /\ next.head = repo.head
        /\ next.origin = repo.origin /\ branch \in DOMAIN repo.origin
        /\ next.tree = repo.origin[branch]
        /\ next.head \in DOMAIN next.heads /\ next.heads[next.head] = repo.origin[branch]
    BY <1>4, <2>4, ResetLeaves DEF AsReset, Whole
  <2>6. repo.state = "whole" /\ repo.origin[branch] = tips[<<repo.url, branch>>]
    BY <1>2, <1>11, <2>5
  <2>7. RepoOk(branches, next)
    BY <1>3, <2>5, <2>6 DEF RepoOk
  <2>8. Fetched(g, tips, next) /\ Tip(g, tips, next) = repo.origin[branch]
    BY <1>2, <2>5, <2>6
  <2> QED BY <2>1, <2>5, <2>7, <2>8 DEF Underway, Arrived
<1>12. CASE /\ deeds = <<CheckoutDeed(g)>> /\ g.branch_only /\ Fetched(g, tips, repo)
            /\ repo.head \in DOMAIN repo.heads /\ repo.heads[repo.head] = Tip(g, tips, repo)
  <2>1. Head(deeds) = CheckoutDeed(g) /\ Tail(deeds) = <<>>
    BY <1>12, NextDeed
  <2>2. next \in AfterGit(CheckoutDeed(g).command, repo, tips)
    BY <1>7, <1>8, <2>1
  <2>3. PICK command : command = CheckoutDeed(g).command
    OBVIOUS
  <2>4. next \in AfterGit(command, repo, tips) /\ Verb(command, "checkout") /\ command[2] = branch
    BY <1>6, <2>2, <2>3 DEF Verb
  <2>5. /\ DOMAIN next = RepoFields /\ next.state = repo.state
        /\ next.url = repo.url /\ next.only = repo.only /\ next.head = branch
        /\ next.origin = repo.origin
        /\ \/ branch \in DOMAIN repo.heads /\ next.tree = repo.heads[branch]
           \/ branch \notin DOMAIN repo.heads /\ branch \in DOMAIN repo.origin
              /\ next.tree = repo.origin[branch]
    BY <1>4, <2>4, CheckoutLeaves DEF CheckedOut, Whole
  <2>6. repo.state = "whole"
    BY <1>2, <1>12
  <2>7. RepoOk(branches, next)
    BY <1>1, <1>3, <2>5, <2>6 DEF RepoOk
  <2>8. steady => next.tree = Tip(g, tips, next)
    <3>1. steady => repo.head = branch
      BY <1>3, <1>12, <2>6
    <3>2. Tip(g, tips, next) = tips[<<repo.url, branch>>] /\ Tip(g, tips, repo) = tips[<<repo.url, branch>>]
      BY <1>2, <2>5
    <3> QED BY <1>12, <2>5, <3>1, <3>2
  <2> QED BY <2>1, <2>7, <2>8 DEF Underway, Arrived
<1>13. deeds # <<>>
  OBVIOUS
<1>14. \/ deeds \in Cloning(g) /\ repo.state = "none"
       \/ (deeds \in FetchingOnly(g) /\ g.branch_only) \/ (deeds \in FetchingAll(g) /\ ~ g.branch_only)
       \/ \/ deeds = <<ResetDeed(g), CheckoutDeed(g)>> /\ g.branch_only /\ Fetched(g, tips, repo)
          \/ deeds = <<ResetDeed(g)>> /\ ~ g.branch_only /\ Fetched(g, tips, repo)
       \/ /\ deeds = <<CheckoutDeed(g)>> /\ g.branch_only /\ Fetched(g, tips, repo)
          /\ repo.head \in DOMAIN repo.heads /\ repo.heads[repo.head] = Tip(g, tips, repo)
  BY <1>13 DEF Underway
<1> QED BY <1>9, <1>10, <1>11, <1>12, <1>14

\* A deed of a call.
GitHead(deed) ==
  /\ deed.op \in {"mkdir", "run"} /\ deed.fail = "return"
  /\ deed.op = "mkdir" => deed = DirDeed
  /\ deed.op = "run" /\ deed # KeyDeed => deed.command[1] \in GitVerbs
  /\ deed = KeyDeed => deed.op = "run" /\ deed.command[1] = "ssh key"

\* The next deed of a call that has not failed.
LEMMA UnderwayHead ==
  ASSUME NEW g, NEW tips, NEW steady, NEW repo, NEW deeds, deeds # <<>>,
         Underway(g, tips, steady, repo, deeds)
  PROVE  GitHead(Head(deeds))
<1>1. Head(deeds) \in {DirDeed, KeyDeed, CloneDeed(g), FetchDeed(g), ResetDeed(g), CheckoutDeed(g)}
  <2>1. CASE deeds \in Cloning(g)
    BY <2>1, NextDeed
  <2>2. CASE deeds \in FetchingOnly(g) \/ deeds \in FetchingAll(g)
    BY <2>2, NextDeed
  <2>3. CASE deeds \in {<<ResetDeed(g), CheckoutDeed(g)>>, <<ResetDeed(g)>>, <<CheckoutDeed(g)>>}
    BY <2>3, NextDeed
  <2> QED BY <2>1, <2>2, <2>3 DEF Underway
<1>2. /\ KeyDeed.command[1] = "ssh key" /\ CloneDeed(g).command[1] = "clone"
      /\ FetchDeed(g).command[1] = "fetch" /\ ResetDeed(g).command[1] = "reset"
      /\ CheckoutDeed(g).command[1] = "checkout"
  BY DEF KeyDeed, CloneDeed, FetchDeed, ResetDeed, CheckoutDeed, Run
<1>3. \A deed \in {DirDeed, KeyDeed, CloneDeed(g), FetchDeed(g), ResetDeed(g), CheckoutDeed(g)} :
        GitHead(deed)
  BY <1>2, DeedFields DEF GitVerbs, GitHead
<1> QED BY <1>1, <1>3

\* The deeds that a call sets out with.
LEMMA GitCalled ==
  ASSUME NEW s, NEW repo, NEW tips, NEW steady, s.git.branch_only \in BOOLEAN
  PROVE  OnCourse(s.git, tips, steady, repo, git(s, repo, "shell"))
<1> PICK g : g = s.git
  OBVIOUS
<1> DEFINE deeds == git(s, repo, "shell")
<1>1. s.git.url = "" => deeds = <<>>
  BY DEF git
<1>2. s.git.url # "" /\ s.git.path = "" => deeds = <<Refuse>>
  BY DEF git
<1>3. ASSUME g.url # "", g.path # ""
      PROVE  Refused(deeds) \/ Underway(g, tips, steady, repo, deeds)
  <2> PICK key : key = build_auth(g)
    OBVIOUS
  <2>1. key = <<KeyDeed>> \/ key = <<>> \/ key = <<Refuse>>
    BY DEF build_auth, KeyDeed
  <2>2. ASSUME NEW S, NEW rest \in Seq(S), deeds = <<DirDeed>> \o (key \o rest)
        PROVE  Refused(deeds) \/ deeds \in Ahead(rest)
    <3>1. <<>> \o rest = rest
      OBVIOUS
    <3> HIDE DEF deeds
    <3>2. CASE key = <<Refuse>>
      <4> PICK behind : behind = <<Refuse>> \o rest
        OBVIOUS
      <4>1. behind \in Seq(S \cup {Refuse}) /\ Head(behind) = Refuse /\ behind # <<>>
        OBVIOUS
      <4>2. deeds = <<DirDeed>> \o behind
        BY <2>2, <3>2
      <4>3. Head(deeds) = DirDeed /\ Tail(deeds) = behind /\ deeds # <<>>
        BY <4>1, <4>2, ConsParts
      <4> QED BY <4>1, <4>3 DEF Refused
    <3>3. key # <<Refuse>> => deeds \in {<<DirDeed>> \o (<<KeyDeed>> \o rest), <<DirDeed>> \o rest}
      BY <2>1, <2>2, <3>1
    <3> QED BY <3>2, <3>3 DEF Ahead
  <2> PICK c, f, b, o : c = CloneDeed(g) /\ f = FetchDeed(g) /\ b = ResetDeed(g) /\ o = CheckoutDeed(g)
    OBVIOUS
  <2>3. ASSUME repo.state = "none"
        PROVE  Refused(deeds) \/ deeds \in Cloning(g)
    <3>1. deeds = <<DirDeed>> \o (key \o <<c>>)
      BY <1>3, <2>3 DEF git, clone_or_pull, clone_fresh, DirDeed, CloneDeed
    <3>2. <<c>> \in Seq({c})
      OBVIOUS
    <3> HIDE DEF deeds
    <3> QED BY <2>2, <3>1, <3>2 DEF Cloning
  <2>4. ASSUME repo.state # "none", g.branch_only
        PROVE  Refused(deeds) \/ deeds \in FetchingOnly(g)
    <3>1. deeds = <<DirDeed>> \o (key \o (<<f, b>> \o <<o>>))
      BY <1>3, <2>4 DEF git, clone_or_pull, update_existing, DirDeed, FetchDeed, ResetDeed, CheckoutDeed
    <3>2. <<f, b>> \o <<o>> = <<f, b, o>>
      BY TwoAndOne
    <3>3. <<f, b, o>> \in Seq({f, b, o})
      OBVIOUS
    <3> HIDE DEF deeds
    <3> QED BY <2>2, <3>1, <3>2, <3>3 DEF FetchingOnly
  <2>5. ASSUME repo.state # "none", ~ g.branch_only
        PROVE  Refused(deeds) \/ deeds \in FetchingAll(g)
    <3>1. deeds = <<DirDeed>> \o (key \o (<<f, b>> \o <<>>))
      BY <1>3, <2>5 DEF git, clone_or_pull, update_existing, DirDeed, FetchDeed, ResetDeed
    <3>2. <<f, b>> \in Seq({f, b})
      OBVIOUS
    <3>3. \A q \in Seq({f, b}) : q \o <<>> = q
      OBVIOUS
    <3> HIDE DEF deeds
    <3> QED BY <2>2, <3>1, <3>2, <3>3 DEF FetchingAll
  <2> HIDE DEF deeds
  <2> QED BY <2>3, <2>4, <2>5 DEF Underway
<1> HIDE DEF deeds
<1>4. s.git.url # "" /\ s.git.path # "" => Refused(deeds) \/ Underway(s.git, tips, steady, repo, deeds)
  BY <1>3
<1>5. Refused(<<Refuse>>)
  BY DEF Refused
<1>6. OnCourse(s.git, tips, steady, repo, deeds)
  BY <1>1, <1>2, <1>4, <1>5 DEF OnCourse
<1> QED BY <1>6 DEF deeds

\* The branches asked for stay asked for.
LEMMA BranchesGrow ==
  ASSUME NEW sc, NEW r \in Nat, NEW repo, RepoOk(GitBranches(sc, r), repo)
  PROVE  RepoOk(GitBranches(sc, r + 1), repo)
<1>1. StagesTo(sc, r) \subseteq StagesTo(sc, r + 1)
  BY DEF StagesTo
<1>2. GitBranches(sc, r) \subseteq GitBranches(sc, r + 1)
  BY <1>1 DEF GitBranches
<1> QED BY <1>2 DEF RepoOk

\* In a steady run, one that follows a branch asks for the only one.
LEMMA SteadyOne ==
  ASSUME NEW sc, NEW r \in Nat, NEW s \in StagesTo(sc, r), s.git.url # ""
  PROVE  /\ effective_branch(s.git) \in GitBranches(sc, r)
         /\ Steady(sc, r) /\ s.git.branch_only =>
              \A b \in GitBranches(sc, r) : b = effective_branch(s.git)
<1>1. effective_branch(s.git) \in GitBranches(sc, r)
  BY DEF GitBranches
<1>2. ASSUME Steady(sc, r), s.git.branch_only, NEW b \in GitBranches(sc, r)
      PROVE  b = effective_branch(s.git)
  <2>1. Cardinality(GitBranches(sc, r)) <= 1
    BY <1>2 DEF Steady
  <2> QED BY <1>1, <1>2, <2>1, OneBranch
<1> QED BY <1>1, <1>2

\* and leaves the repository.
LEMMA BootedRepo ==
  ASSUME NEW old, "repo" \in DOMAIN old, NEW f
  PROVE  Booted(old, f).repo = old.repo
BY DEF Booted

\* There is no repository at the start.
LEMMA GitStart == Init => GitInv
<1> SUFFICES ASSUME Init
             PROVE  GitInv
  OBVIOUS
<1> DEFINE new == [hostname |-> <<>>, modules |-> {}, started |-> {}, enabled |-> {},
                   masked |-> {}, loaded |-> {}, flags |-> {}, shell |-> <<>>,
                   installed |-> scenario.installed, repo |-> NoRepo, key |-> FALSE]
<1>1. /\ plugin = 1 /\ errs = {} /\ pc = "check" /\ machine = Booted(new, scenario.files)
  BY DEF Init
<1>2. new.repo = NoRepo /\ "repo" \in DOMAIN new
  OBVIOUS
<1> HIDE DEF new
<1>3. machine.repo = NoRepo
  BY <1>1, <1>2, BootedRepo
<1>4. DOMAIN NoRepo = RepoFields /\ NoRepo.state = "none"
  BY DEF NoRepo, RepoFields
<1>6. RepoOk(GitBranches(scenario, run), machine.repo)
  BY <1>3, <1>4 DEF RepoOk
<1>5. "git" \notin errs
  BY <1>1
<1>7. GitAt(scenario, run, machine.repo, pc, plugin, "git" \in errs, todo)
  BY <1>1 DEF GitAt
<1>8. GitPlace(pc, plugin, "git" \in errs, todo)
  BY <1>1, <1>5 DEF GitPlace
<1> QED BY <1>6, <1>7, <1>8 DEF GitInv

\* A deed of the git plugin that fails, and one that works.
LEMMA GitDeedFails ==
  ASSUME ChainInv, GitInv, scenario.backend = "shell", plugin = 2, pc = "deeds", todo # <<>>, Failed
  PROVE  /\ GitAt(scenario, run, machine.repo, pc, plugin, "git" \in errs', todo')
         /\ GitPlace(pc, plugin, "git" \in errs', todo')
<1> PICK g : g = scenario.stages[run].git
  OBVIOUS
<1>1. "git" \notin errs
  BY DEF GitInv, GitPlace
<1>2. \/ g.url # "" /\ Refused(todo)
      \/ g.url # "" /\ g.path # ""
         /\ Underway(g, scenario.tips[run], Steady(scenario, run), machine.repo, todo)
  BY <1>1 DEF GitInv, GitAt, OnCourse
<1>3. Chain[plugin] = "git"
  BY DEF Chain
<1>4. Head(todo).fail = "return"
  <2>1. CASE Refused(todo)
    <3>1. Head(todo) \in {Refuse, DirDeed}
      BY <2>1 DEF Refused
    <3> QED BY <3>1, DeedFields
  <2>2. CASE ~ Refused(todo)
    <3>1. GitHead(Head(todo))
      BY <1>2, <2>2, UnderwayHead
    <3> QED BY <3>1 DEF GitHead
  <2> QED BY <2>1, <2>2
<1>5. todo' = <<>> /\ errs' = errs \cup {"git"}
  BY <1>3, <1>4 DEF Failed
<1>6. "git" \in errs'
  BY <1>5
<1> QED BY <1>5, <1>6 DEF GitAt, GitPlace

\* One that works brings the call further.
LEMMA GitDeedWorks ==
  ASSUME ChainInv, GitInv, scenario.backend = "shell", plugin = 2, pc = "deeds", todo # <<>>, Done,
         NEW next, Head(todo).op # "refuse",
         Head(todo).op = "mkdir" => next = machine.repo,
         Head(todo).op = "run" =>
           IF Head(todo).command[1] \in GitVerbs
           THEN next \in AfterGit(Head(todo).command, machine.repo, scenario.tips[run])
           ELSE next = machine.repo
  PROVE  /\ RepoOk(GitBranches(scenario, run), next)
         /\ GitAt(scenario, run, next, pc, plugin, "git" \in errs', todo')
         /\ GitPlace(pc, plugin, "git" \in errs', todo')
<1> PICK g : g = scenario.stages[run].git
  OBVIOUS
<1>1. "git" \notin errs
  BY DEF GitInv, GitPlace
<1>2. RepoOk(GitBranches(scenario, run), machine.repo)
  BY DEF GitInv
<1>3. \/ g.url # "" /\ Refused(todo)
      \/ g.url # "" /\ g.path # ""
         /\ Underway(g, scenario.tips[run], Steady(scenario, run), machine.repo, todo)
  BY <1>1 DEF GitInv, GitAt, OnCourse
<1>4. todo' = Tail(todo) /\ errs' = errs
  BY DEF Done
<1>5. CASE Refused(todo)
  <2>1. Head(todo) = DirDeed /\ Refused(Tail(todo))
    BY <1>5, DeedFields DEF Refused
  <2>2. next = machine.repo
    BY <2>1, DeedFields
  <2>3. "git" \notin errs'
    BY <1>1, <1>4
  <2>4. OnCourse(g, scenario.tips[run], Steady(scenario, run), next, todo')
    BY <1>3, <1>4, <2>1, UnderwayHead DEF OnCourse
  <2>5. GitAt(scenario, run, next, pc, plugin, "git" \in errs', todo')
    BY <2>4 DEF GitAt
  <2> QED BY <1>2, <2>2, <2>3, <2>5 DEF GitPlace
<1> SUFFICES ASSUME ~ Refused(todo)
             PROVE  /\ RepoOk(GitBranches(scenario, run), next)
                    /\ GitAt(scenario, run, next, pc, plugin, "git" \in errs', todo')
                    /\ GitPlace(pc, plugin, "git" \in errs', todo')
  BY <1>5
<1>6. /\ g.url # "" /\ g.path # ""
      /\ Underway(g, scenario.tips[run], Steady(scenario, run), machine.repo, todo)
  BY <1>3
<1>7. /\ scenario.stages[run] \in StagesTo(scenario, run) /\ run \in Nat
  <2>1. run \in 1 .. run /\ run \in Nat
    BY StageNow
  <2> QED BY <2>1 DEF StagesTo
<1>8. /\ effective_branch(g) \in GitBranches(scenario, run)
      /\ Steady(scenario, run) /\ g.branch_only =>
           \A b \in GitBranches(scenario, run) : b = effective_branch(g)
  BY <1>6, <1>7, SteadyOne
<1>9. Head(todo) \in {DirDeed, KeyDeed} => next = machine.repo
  <2>1. DirDeed.op = "mkdir" /\ "ssh key" \notin GitVerbs
    BY DeedFields DEF GitVerbs
  <2>2. Head(todo) = KeyDeed => Head(todo).op = "run" /\ Head(todo).command[1] = "ssh key"
    <3>1. GitHead(Head(todo))
      BY <1>6, UnderwayHead
    <3> QED BY <3>1 DEF GitHead
  <2> QED BY <2>1, <2>2
<1>10. Head(todo) \notin {DirDeed, KeyDeed} =>
        next \in AfterGit(Head(todo).command, machine.repo, scenario.tips[run])
  <2>1. GitHead(Head(todo))
    BY <1>6, UnderwayHead
  <2>2. Head(todo) \notin {DirDeed, KeyDeed} =>
          Head(todo).op = "run" /\ Head(todo).command[1] \in GitVerbs
    BY <2>1 DEF GitHead
  <2> QED BY <2>2
<1>11. /\ RepoOk(GitBranches(scenario, run), next)
       /\ Underway(g, scenario.tips[run], Steady(scenario, run), next, Tail(todo))
  BY <1>2, <1>6, <1>8, <1>9, <1>10, OneDeedOn
<1>12. "git" \notin errs'
  BY <1>1, <1>4
<1>13. GitAt(scenario, run, next, pc, plugin, "git" \in errs', todo')
  <2>1. Underway(g, scenario.tips[run], Steady(scenario, run), next, todo')
    BY <1>4, <1>11
  <2>2. g.url # "" /\ g.path # ""
    BY <1>6
  <2>3. g = scenario.stages[run].git
    OBVIOUS
  <2>4. ~ (plugin > 2)
    OBVIOUS
  <2> HIDE <1>6
  <2>5. OnCourse(g, scenario.tips[run], Steady(scenario, run), next, todo')
    BY <2>1, <2>2 DEF OnCourse
  <2> QED BY <2>3, <2>4, <2>5 DEF GitAt
<1>14. GitPlace(pc, plugin, "git" \in errs', todo')
  BY <1>12 DEF GitPlace
<1> QED BY <1>11, <1>13, <1>14

\* Every step keeps a call that has not failed on its course, and the tree of one that is over.
LEMMA GitStep ==
  ASSUME ChainInv, GitInv, [Next]_vars
  PROVE  GitInv'
<1>1. scenario' = scenario
  BY DEF Next, vars, check_conditionals, Call, DoWrite, DoMkdir, DoRun, DoRunIfWritten, DoRefuse,
         Return, Finish, Crash, NextStage
<1>2. SUFFICES ASSUME scenario.backend = "shell"
               PROVE  /\ RepoOk(GitBranches(scenario, run'), machine'.repo)
                      /\ GitAt(scenario, run', machine'.repo, pc', plugin', "git" \in errs', todo')
                      /\ GitPlace(pc', plugin', "git" \in errs', todo')
  BY <1>1 DEF GitInv
<1>3. /\ RepoOk(GitBranches(scenario, run), machine.repo)
      /\ GitAt(scenario, run, machine.repo, pc, plugin, "git" \in errs, todo)
      /\ GitPlace(pc, plugin, "git" \in errs, todo)
  BY <1>2 DEF GitInv
<1>4. /\ DOMAIN machine = Fields /\ plugin \in 1 .. 13 /\ run \in Nat
      /\ pc = "deeds" => plugin \in 1 .. 12 /\ Fine(Chain[plugin], todo)
      /\ pc # "deeds" => todo = <<>>
  BY ChainAssumption DEF ChainInv
<1>5. /\ plugin \in 1 .. 12 /\ plugin # 2 => Chain[plugin] # "git"
      /\ Chain[2] = "git"
  BY DEF Chain
<1>6. CASE check_conditionals
  <2>1. /\ pc = "check" /\ pc' \in {"chain", "skipped"}
        /\ UNCHANGED <<machine, run, plugin, todo, errs>>
    BY <1>6 DEF check_conditionals
  <2>2. plugin = 1 /\ "git" \notin errs
    BY <1>3, <2>1 DEF GitPlace
  <2>3. GitAt(scenario, run', machine'.repo, pc', plugin', "git" \in errs', todo')
    BY <2>1, <2>2 DEF GitAt
  <2>4. GitPlace(pc', plugin', "git" \in errs', todo')
    BY <2>1, <2>2 DEF GitPlace
  <2> QED BY <1>3, <2>1, <2>3, <2>4
<1>7. CASE Call
  <2>1. /\ pc = "chain" /\ pc' = "deeds" /\ plugin \in 1 .. 12
        /\ UNCHANGED <<machine, run, plugin, errs>>
    BY <1>4, <1>7, ChainLength DEF Call
  <2>2. GitPlace(pc', plugin', "git" \in errs', todo')
    BY <1>3, <2>1 DEF GitPlace
  <2>3. GitAt(scenario, run', machine'.repo, pc', plugin', "git" \in errs', todo')
    <3>1. CASE plugin # 2
      BY <1>3, <2>1, <3>1 DEF GitAt
    <3>2. CASE plugin = 2
      <4>1. todo' = git(stage, machine.repo, "shell")
        BY <1>2, <1>5, <1>7, <3>2 DEF Call, Deeds
      <4>2. stage.git.branch_only \in BOOLEAN
        <5>1. Stage(stage)
          BY StageNow, ChainAssumption DEF stage
        <5> QED BY <5>1 DEF Stage
      <4> PICK start : start = todo'
        OBVIOUS
      <4>3. OnCourse(stage.git, scenario.tips[run], Steady(scenario, run), machine.repo, start)
        BY <4>1, <4>2, GitCalled
      <4>4. stage.git = scenario.stages[run].git /\ ~ (plugin > 2)
        BY <3>2 DEF stage
      <4>5. GitAt(scenario, run, machine.repo, pc', plugin, "git" \in errs, start)
        BY <2>1, <3>2, <4>3, <4>4 DEF GitAt
      <4> QED BY <2>1, <4>5
    <3> QED BY <3>1, <3>2
  <2> QED BY <1>3, <2>1, <2>2, <2>3
<1>8. ASSUME pc = "deeds", todo # <<>>, Done \/ Failed, UNCHANGED <<run, plugin, pc>>,
             plugin # 2, machine'.repo = machine.repo
      PROVE  /\ RepoOk(GitBranches(scenario, run'), machine'.repo)
             /\ GitAt(scenario, run', machine'.repo, pc', plugin', "git" \in errs', todo')
             /\ GitPlace(pc', plugin', "git" \in errs', todo')
  <2>1. errs' = errs \/ errs' = errs \cup {Chain[plugin]}
    BY <1>8 DEF Done, Failed
  <2>2. "git" \in errs' <=> "git" \in errs
    BY <1>4, <1>5, <1>8, <2>1
  <2>3. GitAt(scenario, run, machine.repo, pc, plugin, "git" \in errs', todo')
    BY <1>3, <1>8, <2>2 DEF GitAt
  <2>4. GitPlace(pc, plugin, "git" \in errs', todo')
    BY <1>3, <1>8, <2>2 DEF GitPlace
  <2> QED BY <1>3, <1>8, <2>3, <2>4
<1>9. ASSUME pc = "deeds", todo # <<>>, Failed, UNCHANGED <<machine, run, plugin, pc>>, plugin = 2
      PROVE  /\ RepoOk(GitBranches(scenario, run'), machine'.repo)
             /\ GitAt(scenario, run', machine'.repo, pc', plugin', "git" \in errs', todo')
             /\ GitPlace(pc', plugin', "git" \in errs', todo')
  <2>1. /\ GitAt(scenario, run, machine.repo, pc, plugin, "git" \in errs', todo')
        /\ GitPlace(pc, plugin, "git" \in errs', todo')
    BY <1>2, <1>9, GitDeedFails
  <2> QED BY <1>3, <1>9, <2>1
<1>10. CASE DoWrite \/ DoMkdir \/ DoRefuse
  <2>1. /\ pc = "deeds" /\ todo # <<>> /\ UNCHANGED <<machine, run, plugin, pc>>
        /\ (Done /\ Head(todo).op \in {"write", "mkdir"}) \/ Failed
    BY <1>10 DEF DoWrite, DoMkdir, DoRefuse, Deed
  <2>2. ASSUME Done, Head(todo).op \in {"write", "mkdir"}, plugin = 2
        PROVE  /\ RepoOk(GitBranches(scenario, run), machine.repo)
               /\ GitAt(scenario, run, machine.repo, pc, plugin, "git" \in errs', todo')
               /\ GitPlace(pc, plugin, "git" \in errs', todo')
    <3> PICK next : next = machine.repo
      OBVIOUS
    <3>1. Head(todo).op # "refuse" /\ Head(todo).op # "run"
      BY <2>2
    <3>2. /\ RepoOk(GitBranches(scenario, run), next)
          /\ GitAt(scenario, run, next, pc, plugin, "git" \in errs', todo')
          /\ GitPlace(pc, plugin, "git" \in errs', todo')
      BY <1>2, <2>1, <2>2, <3>1, GitDeedWorks
    <3> QED BY <3>2
  <2>3. CASE plugin # 2
    BY <1>8, <2>1, <2>3
  <2>4. CASE plugin = 2 /\ Failed
    BY <1>9, <2>1, <2>4
  <2>5. CASE plugin = 2 /\ ~ Failed
    BY <2>1, <2>2, <2>5
  <2> QED BY <2>3, <2>4, <2>5
<1>11. CASE DoRun \/ DoRunIfWritten
  <2>1. /\ pc = "deeds" /\ todo # <<>> /\ UNCHANGED <<run, plugin, pc>>
        /\ Head(todo).op \in {"run", "run if written"}
        /\ \/ (machine' \in After(Head(todo).command) \/ machine' = machine) /\ Done
           \/ machine' = machine /\ Failed
        /\ Head(todo).op = "run" => machine' \in After(Head(todo).command) \/ Failed
    BY <1>11 DEF DoRun, DoRunIfWritten, Deed
  <2>2. Proper(Chain[plugin], Head(todo))
    BY <1>4, <2>1, FineTail
  <2> PICK command, after : command = Head(todo).command /\ after = machine'
    OBVIOUS
  <2>3. <<"daemon-reload">>[1] = "daemon-reload"
    OBVIOUS
  <2>4. /\ Head(todo).op = "run" => <<Chain[plugin], command[1]>> \in Commands
        /\ Head(todo).op = "run if written" => Chain[plugin] = "systemctl" /\ command[1] = "daemon-reload"
    BY <2>2, <2>3 DEF Proper
  <2>5. ASSUME after \in After(command)
        PROVE  /\ command[1] \notin GitVerbs => after.repo = machine.repo
               /\ command[1] \in GitVerbs =>
                    after.repo \in AfterGit(command, machine.repo, scenario.tips[run])
    <3>1. "repo" \in DOMAIN machine
      BY <1>4 DEF Fields
    <3>2. <<Chain[plugin], command[1]>> \in Commands \/ command[1] = "daemon-reload"
      BY <2>1, <2>4
    <3>3. command[1] \notin GitVerbs => after.repo = machine.repo
      BY <2>5, <3>1, <3>2, AfterFields
    <3>4. command[1] \in GitVerbs =>
            \E repo \in AfterGit(command, machine.repo, scenario.tips[run]) :
              after = [machine EXCEPT !.repo = repo]
      BY <2>5, <3>1, <3>2, AfterFields
    <3> QED BY <3>1, <3>3, <3>4
  <2>6. CASE plugin # 2
    <3>1. command[1] \notin GitVerbs
      BY <1>4, <1>5, <2>1, <2>4, <2>6 DEF Commands, GitVerbs
    <3>2. machine'.repo = machine.repo
      BY <2>1, <2>5, <3>1
    <3> QED BY <1>8, <2>1, <2>6, <3>2
  <2>7. CASE plugin = 2
    <3>1. Head(todo).op = "run"
      BY <1>5, <2>1, <2>4, <2>7
    <3>2. CASE Failed /\ machine' = machine
      BY <1>9, <2>1, <2>7, <3>2
    <3>3. CASE ~ (Failed /\ machine' = machine)
      <4>1. Done /\ (after \in After(command) \/ after = machine)
        BY <2>1, <3>3
      <4>2. after \in After(command)
        BY <1>11, <3>1, <3>3 DEF DoRun, DoRunIfWritten, Deed
      <4> PICK next : next = after.repo
        OBVIOUS
      <4>3. IF Head(todo).command[1] \in GitVerbs
            THEN next \in AfterGit(Head(todo).command, machine.repo, scenario.tips[run])
            ELSE next = machine.repo
        BY <2>5, <4>2
      <4>4. /\ RepoOk(GitBranches(scenario, run), next)
            /\ GitAt(scenario, run, next, pc, plugin, "git" \in errs', todo')
            /\ GitPlace(pc, plugin, "git" \in errs', todo')
        BY <1>2, <2>1, <2>7, <3>1, <4>1, <4>3, GitDeedWorks
      <4> QED BY <2>1, <4>4
    <3> QED BY <3>2, <3>3
  <2> QED BY <2>6, <2>7
<1>12. CASE Return
  <2>1. /\ pc = "deeds" /\ todo = <<>> /\ machine' = [machine EXCEPT !.key = FALSE]
        /\ plugin' = plugin + 1 /\ pc' = "chain" /\ UNCHANGED <<run, todo, errs>>
    BY <1>12 DEF Return
  <2>2. machine'.repo = machine.repo
    BY <1>4, <2>1 DEF Fields
  <2>3. GitPlace(pc', plugin', "git" \in errs', todo')
    BY <1>3, <1>4, <2>1 DEF GitPlace
  <2>4. GitAt(scenario, run, machine.repo, pc', plugin', "git" \in errs', todo')
    <3>1. CASE plugin < 2
      <4>1. plugin' # 2 \/ pc' # "deeds"
        BY <2>1
      <4>2. ~ (plugin' > 2)
        BY <1>4, <2>1, <3>1
      <4> QED BY <2>1, <4>1, <4>2 DEF GitAt
    <3>2. CASE plugin > 2
      BY <1>3, <1>4, <2>1, <3>2 DEF GitAt
    <3>3. CASE plugin = 2
      <4> PICK g : g = scenario.stages[run].git
        OBVIOUS
      <4>1. ASSUME "git" \notin errs, g.url # "", Steady(scenario, run)
            PROVE  machine.repo.tree = Tip(g, scenario.tips[run], machine.repo)
        <5>1. OnCourse(g, scenario.tips[run], Steady(scenario, run), machine.repo, todo)
          BY <1>3, <2>1, <3>3, <4>1 DEF GitAt
        <5>2. Underway(g, scenario.tips[run], Steady(scenario, run), machine.repo, todo)
          BY <2>1, <4>1, <5>1 DEF OnCourse, Refused
        <5>3. Arrived(g, scenario.tips[run], Steady(scenario, run), machine.repo)
          BY <2>1, <5>2, UnderwayEnd
        <5> QED BY <4>1, <5>3 DEF Arrived
      <4>2. pc' = "chain" /\ errs' = errs
        BY <2>1
      <4> QED BY <4>1, <4>2 DEF GitAt
    <3> QED BY <1>4, <3>1, <3>2, <3>3
  <2> QED BY <1>3, <2>1, <2>2, <2>3, <2>4
<1>13. CASE Finish
  <2>1. /\ pc = "chain" /\ plugin > 12 /\ pc' = "done"
        /\ UNCHANGED <<machine, run, plugin, todo, errs>>
    BY <1>13, ChainLength DEF Finish
  <2>2. plugin > 2 /\ plugin # 2
    BY <1>4, <2>1
  <2>3. GitAt(scenario, run, machine.repo, pc', plugin, "git" \in errs, todo)
    BY <1>3, <2>1, <2>2 DEF GitAt
  <2>4. GitPlace(pc', plugin, "git" \in errs, todo)
    BY <2>1, <2>2 DEF GitPlace
  <2> QED BY <1>3, <2>1, <2>3, <2>4
<1>14. CASE Crash
  <2>1. /\ pc' = "down" /\ UNCHANGED run
        /\ \E repo, f : /\ machine' = Booted([machine EXCEPT !.repo = repo], f)
                        /\ repo = machine.repo \/ repo = [NoRepo EXCEPT !.state = "part"]
    BY <1>14 DEF Crash
  <2>2. machine'.repo = machine.repo \/ machine'.repo = [NoRepo EXCEPT !.state = "part"]
    <3>1. \A repo : LET old == [machine EXCEPT !.repo = repo]
                    IN  "repo" \in DOMAIN old /\ old.repo = repo
      BY <1>4 DEF Fields
    <3> QED BY <2>1, <3>1, BootedRepo
  <2>3. LET part == [NoRepo EXCEPT !.state = "part"]
        IN  DOMAIN part = RepoFields /\ part.state = "part"
    BY DEF NoRepo, RepoFields
  <2>4. RepoOk(GitBranches(scenario, run), machine'.repo)
    BY <1>3, <2>2, <2>3 DEF RepoOk
  <2>5. GitAt(scenario, run', machine'.repo, pc', plugin', "git" \in errs', todo')
    BY <2>1 DEF GitAt
  <2>6. GitPlace(pc', plugin', "git" \in errs', todo')
    BY <2>1 DEF GitPlace
  <2> QED BY <2>1, <2>4, <2>5, <2>6
<1>15. CASE NextStage
  <2>1. /\ run' = run + 1 /\ plugin' = 1 /\ errs' = {} /\ pc' = "check"
        /\ machine' = [machine EXCEPT !.shell = <<>>, !.flags = {}]
    BY <1>15 DEF NextStage
  <2>2. machine'.repo = machine.repo
    BY <1>4, <2>1 DEF Fields
  <2>3. RepoOk(GitBranches(scenario, run + 1), machine.repo)
    BY <1>3, <1>4, BranchesGrow
  <2>4. GitAt(scenario, run', machine'.repo, pc', plugin', "git" \in errs', todo')
    BY <2>1 DEF GitAt
  <2>5. "git" \notin errs'
    BY <2>1
  <2>6. GitPlace(pc', plugin', "git" \in errs', todo')
    BY <2>1, <2>5 DEF GitPlace
  <2> QED BY <2>1, <2>2, <2>3, <2>4, <2>6
<1>16. CASE UNCHANGED vars
  BY <1>3, <1>16 DEF vars
<1> QED BY <1>6, <1>7, <1>10, <1>11, <1>12, <1>13, <1>14, <1>15, <1>16 DEF Next

\* After a call of the shell backend without an error the work tree is what the
\* branch is at on the remote, for any stages that are steady in what they ask
\* for, whatever fails, wherever calls break off, and wherever the remote goes.
THEOREM WorkTreeFollows == Spec => []WorkTreeIsBranch
<1>1. Init => ChainInv /\ GitInv
  BY ChainStart, GitStart
<1>2. ChainInv /\ GitInv /\ [Next]_vars => (ChainInv /\ GitInv)'
  BY ChainStep, GitStep
<1>3. ChainInv /\ GitInv => WorkTreeIsBranch
  <2> SUFFICES ASSUME GitInv, pc = "done", "git" \notin errs, stage.git.url # "",
                      scenario.backend = "shell",
                      \/ Cardinality({effective_branch(s.git) : s \in {t \in Stages : t.git.url # ""}}) <= 1
                      \/ \A s \in Stages : ~ s.git.branch_only
               PROVE  machine.repo.tree
                        = scenario.tips[run][<<machine.repo.url, effective_branch(stage.git)>>]
    BY DEF WorkTreeIsBranch
  <2>1. Stages = StagesTo(scenario, run)
    BY DEF Stages, StagesTo
  <2>2. Steady(scenario, run)
    BY <2>1 DEF Steady, GitBranches
  <2>3. plugin > 2
    BY DEF GitInv, GitPlace
  <2>4. machine.repo.tree = Tip(scenario.stages[run].git, scenario.tips[run], machine.repo)
    BY <2>2, <2>3 DEF GitInv, GitAt, stage
  <2> QED BY <2>4 DEF Tip, stage
<1> QED BY <1>1, <1>2, <1>3, PTL DEF Spec

-----------------------------------------------------------------------------

(***************************************************************************)
(* A call that ends has applied what its stage asks, or reported an error. *)
(* While a plugin works off its deeds, what is asked of it is coming: it   *)
(* is there already, or a deed that is left will bring it, and none after  *)
(* that undoes it.  A deed that works keeps this, one that fails is        *)
(* reported, and with nothing left to do it is made.  It stays made, as    *)
(* later plugins have other files and other parts of the machine.          *)
(***************************************************************************)

\* A deed that writes the path, the last of a sequence that does, and what the
\* path will hold if all of the sequence works.
WritesTo(deed, path) == deed.op = "write" /\ deed.path = path

LastWrite(deeds, path, content) ==
  \E i \in DOMAIN deeds :
    /\ WritesTo(deeds[i], path) /\ deeds[i].content = content
    /\ \A j \in DOMAIN deeds : j > i => ~ WritesTo(deeds[j], path)

NoWrite(deeds, path) == \A i \in DOMAIN deeds : ~ WritesTo(deeds[i], path)

Comes(f, deeds, path, content) ==
  LastWrite(deeds, path, content) \/ (NoWrite(deeds, path) /\ Reads(f, path, content))

\* No deed of the first kind stands behind one of the second.
Before(deeds, first, second) ==
  \A i, j \in DOMAIN deeds : i < j /\ deeds[i] \in second => deeds[j] \notin first

\* A list is its head and its tail, place by place.
LEMMA ListParts ==
  ASSUME NEW deeds, Listed(deeds), deeds # <<>>
  PROVE  /\ Listed(Tail(deeds)) /\ Len(deeds) \in Nat /\ Len(deeds) >= 1
         /\ DOMAIN deeds = 1 .. Len(deeds) /\ DOMAIN Tail(deeds) = 1 .. Len(deeds) - 1
         /\ Head(deeds) = deeds[1]
         /\ \A i \in 1 .. Len(deeds) - 1 : Tail(deeds)[i] = deeds[i + 1]
<1>1. PICK S : deeds \in Seq(S)
  BY DEF Listed
<1>2. Tail(deeds) \in Seq(S)
  BY <1>1
<1> QED BY <1>1, <1>2 DEF Listed

\* The set of its elements.
LEMMA ListElements ==
  ASSUME NEW deeds, Listed(deeds), deeds # <<>>
  PROVE  ToSet(deeds) = {Head(deeds)} \cup ToSet(Tail(deeds))
<1> DEFINE n == Len(deeds)
           rest == Tail(deeds)
<1>1. /\ n \in Nat /\ n >= 1 /\ DOMAIN deeds = 1 .. n /\ DOMAIN rest = 1 .. n - 1
      /\ Head(deeds) = deeds[1] /\ \A i \in 1 .. n - 1 : rest[i] = deeds[i + 1]
  BY ListParts
<1> HIDE DEF n, rest
<1>2. ASSUME NEW i \in 1 .. n
      PROVE  deeds[i] = Head(deeds) \/ \E j \in 1 .. n - 1 : deeds[i] = rest[j]
  <2>1. i = 1 \/ i - 1 \in 1 .. n - 1
    BY <1>1
  <2>2. i - 1 \in 1 .. n - 1 => rest[i - 1] = deeds[i]
    BY <1>1
  <2> QED BY <1>1, <2>1, <2>2
<1>3. ASSUME NEW j \in 1 .. n - 1
      PROVE  \E i \in 1 .. n : rest[j] = deeds[i]
  <2>1. j + 1 \in 1 .. n
    BY <1>1
  <2> QED BY <1>1, <2>1
<1>4. 1 \in 1 .. n
  BY <1>1
<1>5. ASSUME NEW d \in ToSet(deeds)
      PROVE  d = Head(deeds) \/ d \in ToSet(rest)
  <2>1. PICK i \in 1 .. n : d = deeds[i]
    BY <1>1 DEF ToSet
  <2> QED BY <1>1, <1>2, <2>1 DEF ToSet
<1>6. ToSet(rest) \subseteq ToSet(deeds)
  BY <1>1, <1>3 DEF ToSet
<1>7. Head(deeds) \in ToSet(deeds)
  BY <1>1, <1>4 DEF ToSet
<1> QED BY <1>5, <1>6, <1>7 DEF rest

\* A file that is written reads so, and the others as before.
LEMMA PutReads ==
  \A f, p, c : /\ Reads(Put(f, p, c), p, c)
              /\ \A path, content : p # path /\ Reads(f, path, content) =>
                   Reads(Put(f, p, c), path, content)
BY DEF Reads, Exists, Put, Over

\* What will be in a file is not changed by a deed that works.
LEMMA ComesOn ==
  ASSUME NEW deeds, Listed(deeds), deeds # <<>>, NEW f, NEW g, NEW path, NEW content,
         Comes(f, deeds, path, content),
         Head(deeds).op = "write" => g = Put(f, Head(deeds).path, Head(deeds).content),
         Head(deeds).op # "write" => g = f
  PROVE  Comes(g, Tail(deeds), path, content)
<1> DEFINE n == Len(deeds)
           rest == Tail(deeds)
           head == Head(deeds)
<1>1. /\ n \in Nat /\ n >= 1 /\ DOMAIN deeds = 1 .. n /\ DOMAIN rest = 1 .. n - 1
      /\ head = deeds[1] /\ \A i \in 1 .. n - 1 : rest[i] = deeds[i + 1]
  BY ListParts
<1> HIDE DEF n, rest, head
<1>2. CASE NoWrite(deeds, path) /\ Reads(f, path, content)
  <2>1. NoWrite(rest, path)
    BY <1>1, <1>2 DEF NoWrite
  <2>2. ~ WritesTo(head, path)
    BY <1>1, <1>2 DEF NoWrite
  <2>3. Reads(g, path, content)
    <3>1. CASE head.op # "write"
      BY <1>2, <3>1 DEF head
    <3>2. CASE head.op = "write"
      <4>1. head.path # path /\ g = Put(f, head.path, head.content)
        BY <2>2, <3>2 DEF WritesTo, head
      <4> QED BY <1>2, <4>1, PutReads
    <3> QED BY <3>1, <3>2
  <2> QED BY <2>1, <2>3 DEF Comes, rest
<1>3. ASSUME LastWrite(deeds, path, content)
      PROVE  Comes(g, rest, path, content)
  <2>1. PICK i \in 1 .. n :
          /\ WritesTo(deeds[i], path) /\ deeds[i].content = content
          /\ \A j \in 1 .. n : j > i => ~ WritesTo(deeds[j], path)
    BY <1>1, <1>3 DEF LastWrite
  <2>2. CASE i = 1
    <3>1. NoWrite(rest, path)
      <4>1. \A k \in 1 .. n - 1 : k + 1 \in 1 .. n /\ k + 1 > 1
        BY <1>1
      <4> QED BY <1>1, <2>1, <2>2, <4>1 DEF NoWrite
    <3>2. g = Put(f, path, content)
      BY <1>1, <2>1, <2>2 DEF WritesTo, head
    <3> QED BY <3>1, <3>2, PutReads DEF Comes
  <2>3. CASE i # 1
    <3>1. i - 1 \in 1 .. n - 1 /\ rest[i - 1] = deeds[i]
      BY <1>1, <2>3
    <3>2. \A k \in 1 .. n - 1 : k > i - 1 => ~ WritesTo(rest[k], path)
      <4>1. \A k \in 1 .. n - 1 : k > i - 1 => k + 1 \in 1 .. n /\ k + 1 > i
        BY <1>1
      <4> QED BY <1>1, <2>1, <4>1
    <3>3. LastWrite(rest, path, content)
      BY <1>1, <2>1, <3>1, <3>2 DEF LastWrite
    <3> QED BY <3>3 DEF Comes
  <2> QED BY <2>2, <2>3
<1> QED BY <1>2, <1>3 DEF Comes, rest

\* At the end it is there.
LEMMA ComesEnd ==
  ASSUME NEW f, NEW path, NEW content, Comes(f, <<>>, path, content)
  PROVE  Reads(f, path, content)
BY DEF Comes, LastWrite

\* Sequences of deeds one after the other.
LEMMA JoinedParts ==
  ASSUME NEW x, NEW y, Listed(x), Listed(y)
  PROVE  /\ Listed(x \o y) /\ Len(x) \in Nat /\ Len(y) \in Nat
         /\ DOMAIN x = 1 .. Len(x) /\ DOMAIN y = 1 .. Len(y)
         /\ DOMAIN (x \o y) = 1 .. Len(x) + Len(y)
         /\ \A i \in DOMAIN x : (x \o y)[i] = x[i]
         /\ \A i \in DOMAIN y : (x \o y)[Len(x) + i] = y[i]
<1>1. PICK S : x \in Seq(S)
  BY DEF Listed
<1>2. PICK T : y \in Seq(T)
  BY DEF Listed
<1>3. Seq(S) \subseteq Seq(S \cup T) /\ Seq(T) \subseteq Seq(S \cup T)
  OBVIOUS
<1>4. x \in Seq(S \cup T) /\ y \in Seq(S \cup T) /\ x \o y \in Seq(S \cup T)
  BY <1>1, <1>2, <1>3
<1> HIDE DEF Listed
<1>5. Listed(x \o y)
  BY <1>4 DEF Listed
<1> QED BY <1>4, <1>5

\* The elements of two lists joined,
LEMMA JoinedElements ==
  ASSUME NEW x, NEW y, Listed(x), Listed(y)
  PROVE  ToSet(x \o y) = ToSet(x) \cup ToSet(y)
<1> DEFINE z == x \o y
           n == Len(x)
           m == Len(y)
<1>1. /\ n \in Nat /\ m \in Nat /\ DOMAIN x = 1 .. n /\ DOMAIN y = 1 .. m
      /\ DOMAIN z = 1 .. n + m
      /\ \A i \in 1 .. n : z[i] = x[i]
      /\ \A i \in 1 .. m : z[n + i] = y[i]
  BY JoinedParts
<1> HIDE DEF n, m, z
<1>2. \A i \in 1 .. n + m : i \in 1 .. n \/ (i - n \in 1 .. m /\ z[i] = y[i - n])
  <2>1. \A i \in 1 .. n + m : i \in 1 .. n \/ (i - n \in 1 .. m /\ n + (i - n) = i)
    BY <1>1
  <2> QED BY <1>1, <2>1
<1>3. \A i \in 1 .. n : i \in 1 .. n + m
  BY <1>1
<1>4. \A i \in 1 .. m : n + i \in 1 .. n + m
  BY <1>1
<1>5. ToSet(z) \subseteq ToSet(x) \cup ToSet(y)
  BY <1>1, <1>2 DEF ToSet
<1>6. ToSet(x) \subseteq ToSet(z)
  BY <1>1, <1>3 DEF ToSet
<1>7. ToSet(y) \subseteq ToSet(z)
  BY <1>1, <1>4 DEF ToSet
<1> QED BY <1>5, <1>6, <1>7 DEF z

\* the last write to a path in them,
LEMMA JoinedWrites ==
  ASSUME NEW x, NEW y, Listed(x), Listed(y), NEW path, NEW content
  PROVE  /\ LastWrite(y, path, content) => LastWrite(x \o y, path, content)
         /\ LastWrite(x, path, content) /\ NoWrite(y, path) => LastWrite(x \o y, path, content)
         /\ NoWrite(x, path) /\ NoWrite(y, path) => NoWrite(x \o y, path)
<1> DEFINE z == x \o y
           n == Len(x)
           m == Len(y)
<1>1. /\ n \in Nat /\ m \in Nat /\ DOMAIN x = 1 .. n /\ DOMAIN y = 1 .. m
      /\ DOMAIN z = 1 .. n + m
      /\ \A i \in 1 .. n : z[i] = x[i]
      /\ \A i \in 1 .. m : z[n + i] = y[i]
  BY JoinedParts
<1> HIDE DEF n, m, z
<1>2. \A i \in 1 .. n + m : i \in 1 .. n \/ (i - n \in 1 .. m /\ z[i] = y[i - n])
  <2>1. \A i \in 1 .. n + m : i \in 1 .. n \/ (i - n \in 1 .. m /\ n + (i - n) = i)
    BY <1>1
  <2> QED BY <1>1, <2>1
<1>3. ASSUME LastWrite(y, path, content)
      PROVE  LastWrite(z, path, content)
  <2>1. PICK i \in 1 .. m : /\ WritesTo(y[i], path) /\ y[i].content = content
                            /\ \A j \in 1 .. m : j > i => ~ WritesTo(y[j], path)
    BY <1>1, <1>3 DEF LastWrite
  <2>2. n + i \in 1 .. n + m /\ z[n + i] = y[i]
    BY <1>1
  <2>3. \A j \in 1 .. n + m : j > n + i => j - n \in 1 .. m /\ j - n > i /\ j \notin 1 .. n
    BY <1>1
  <2>4. \A j \in 1 .. n + m : j > n + i => ~ WritesTo(z[j], path)
    BY <1>2, <2>1, <2>3
  <2> QED BY <1>1, <2>1, <2>2, <2>4 DEF LastWrite
<1>4. ASSUME LastWrite(x, path, content), NoWrite(y, path)
      PROVE  LastWrite(z, path, content)
  <2>1. PICK i \in 1 .. n : /\ WritesTo(x[i], path) /\ x[i].content = content
                            /\ \A j \in 1 .. n : j > i => ~ WritesTo(x[j], path)
    BY <1>1, <1>4 DEF LastWrite
  <2>2. i \in 1 .. n + m
    BY <1>1
  <2>3. \A j \in 1 .. n + m : j > i => ~ WritesTo(z[j], path)
    BY <1>1, <1>2, <1>4, <2>1 DEF NoWrite
  <2> QED BY <1>1, <2>1, <2>2, <2>3 DEF LastWrite
<1>5. NoWrite(x, path) /\ NoWrite(y, path) => NoWrite(z, path)
  BY <1>1, <1>2 DEF NoWrite
<1> QED BY <1>3, <1>4, <1>5 DEF z

\* The order of two kinds of deeds.
LEMMA BeforeTail ==
  ASSUME NEW deeds, Listed(deeds), deeds # <<>>, NEW first, NEW second,
         Before(deeds, first, second)
  PROVE  /\ Before(Tail(deeds), first, second)
         /\ Head(deeds) \in second => ToSet(Tail(deeds)) \cap first = {}
<1> DEFINE n == Len(deeds)
           rest == Tail(deeds)
           head == Head(deeds)
<1>1. /\ n \in Nat /\ n >= 1 /\ DOMAIN deeds = 1 .. n /\ DOMAIN rest = 1 .. n - 1
      /\ head = deeds[1] /\ \A i \in 1 .. n - 1 : rest[i] = deeds[i + 1]
  BY ListParts
<1> HIDE DEF n, rest, head
<1>2. \A i \in 1 .. n - 1 : i + 1 \in 1 .. n /\ 1 < i + 1 /\ 1 \in 1 .. n
  BY <1>1
<1>3. \A i, j \in 1 .. n - 1 : i < j => i + 1 < j + 1
  BY <1>1
<1>4. Before(rest, first, second)
  BY <1>1, <1>2, <1>3 DEF Before
<1>5. head \in second => ToSet(rest) \cap first = {}
  BY <1>1, <1>2 DEF Before, ToSet
<1> QED BY <1>4, <1>5 DEF rest, head

\* and what stands before what.
LEMMA BeforeJoined ==
  ASSUME NEW x, NEW y, Listed(x), Listed(y), NEW first, NEW second,
         Before(x, first, second), Before(y, first, second),
         ToSet(x) \cap second = {} \/ ToSet(y) \cap first = {}
  PROVE  Before(x \o y, first, second)
<1> DEFINE z == x \o y
           n == Len(x)
           m == Len(y)
<1>1. /\ n \in Nat /\ m \in Nat /\ DOMAIN x = 1 .. n /\ DOMAIN y = 1 .. m
      /\ DOMAIN z = 1 .. n + m
      /\ \A i \in 1 .. n : z[i] = x[i]
      /\ \A i \in 1 .. m : z[n + i] = y[i]
  BY JoinedParts
<1> HIDE DEF n, m, z
<1>2. \A i \in 1 .. n + m : i \in 1 .. n \/ (i - n \in 1 .. m /\ z[i] = y[i - n])
  <2>1. \A i \in 1 .. n + m : i \in 1 .. n \/ (i - n \in 1 .. m /\ n + (i - n) = i)
    BY <1>1
  <2> QED BY <1>1, <2>1
<1>3. ASSUME NEW i \in 1 .. n + m, NEW j \in 1 .. n + m, i < j, z[i] \in second
      PROVE  z[j] \notin first
  <2>1. CASE i \in 1 .. n /\ j \in 1 .. n
    BY <1>1, <1>3, <2>1 DEF Before
  <2>2. CASE i \in 1 .. n /\ j \notin 1 .. n
    <3>1. z[i] \in ToSet(x) /\ z[j] \in ToSet(y)
      BY <1>1, <1>2, <2>2 DEF ToSet
    <3> QED BY <1>3, <3>1
  <2>3. CASE i \notin 1 .. n
    <3>1. j \notin 1 .. n
      BY <1>1, <1>3, <2>3
    <3>2. i - n < j - n
      BY <1>1, <1>3
    <3> QED BY <1>1, <1>2, <1>3, <2>3, <3>1, <3>2 DEF Before
  <2> QED BY <2>1, <2>2, <2>3
<1> QED BY <1>1, <1>3 DEF Before, z

-----------------------------------------------------------------------------

\* What the plugin's commands do to the machine.
Effect(command, next) ==
  LET what == command[2]
  IN  /\ command[1] = "sethostname" => next = [machine EXCEPT !.hostname = what]
      /\ command[1] = "ssh key" => next = [machine EXCEPT !.key = TRUE]
      /\ command[1] = "firstboot" => next = [machine EXCEPT !.flags = what]
      /\ command[1] = "daemon-reload" =>
           next = [machine EXCEPT !.loaded = {<<path, files[path]>> : path \in Dropins(files)}]
      /\ command[1] = "shell" => next = [machine EXCEPT !.shell = Append(@, what)]
      /\ command[1] = "modprobe" => next = [machine EXCEPT !.modules = @ \cup {what}]
      /\ command[1] = "mask" => next = [machine EXCEPT !.masked = @ \cup {what}]
      /\ command[1] = "enable" => next = [machine EXCEPT !.enabled = @ \cup {what}]
      /\ command[1] = "disable" => next = [machine EXCEPT !.enabled = @ \ {what}]
      /\ command[1] = "start" => next = [machine EXCEPT !.started = @ \cup {what}]
      /\ command[1] \in {"refresh", "upgrade"} => next = machine
      /\ command[1] = "install" =>
           next = [machine EXCEPT !.installed =
                     Over([name \in ToSet(command[3]) |-> Candidate(what, name)], @)]
      /\ command[1] = "remove" =>
           next = [machine EXCEPT !.installed =
                     [name \in DOMAIN @ \ ToSet(command[3]) |-> @[name]]]
      /\ command[1] \in GitVerbs =>
           \E repo \in AfterGit(command, machine.repo, scenario.tips[run]) :
             next = [machine EXCEPT !.repo = repo]

\* A command that works leaves its effect.
LEMMA AfterIsEffect ==
  ASSUME NEW command, NEW next \in After(command)
  PROVE  Effect(command, next)
<1> DEFINE what == command[2]
<1>1. ASSUME command[1] = "sethostname"
      PROVE  next = [machine EXCEPT !.hostname = what]
  BY <1>1 DEF After
<1>2. ASSUME command[1] = "ssh key"
      PROVE  next = [machine EXCEPT !.key = TRUE]
  BY <1>2 DEF After
<1>3. ASSUME command[1] = "firstboot"
      PROVE  next = [machine EXCEPT !.flags = what]
  BY <1>3 DEF After
<1>4. ASSUME command[1] = "daemon-reload"
      PROVE  next = [machine EXCEPT !.loaded = {<<path, files[path]>> : path \in Dropins(files)}]
  BY <1>4 DEF After
<1>5. ASSUME command[1] = "shell"
      PROVE  next = [machine EXCEPT !.shell = Append(@, what)]
  BY <1>5 DEF After
<1>6. ASSUME command[1] = "modprobe"
      PROVE  next = [machine EXCEPT !.modules = @ \cup {what}]
  BY <1>6 DEF After
<1>7. ASSUME command[1] = "mask"
      PROVE  next = [machine EXCEPT !.masked = @ \cup {what}]
  BY <1>7 DEF After
<1>8. ASSUME command[1] = "enable"
      PROVE  next = [machine EXCEPT !.enabled = @ \cup {what}]
  BY <1>8 DEF After
<1>9. ASSUME command[1] = "disable"
      PROVE  next = [machine EXCEPT !.enabled = @ \ {what}]
  BY <1>9 DEF After
<1>10. ASSUME command[1] = "start"
       PROVE  next = [machine EXCEPT !.started = @ \cup {what}]
  BY <1>10 DEF After
<1>11. ASSUME command[1] \in {"refresh", "upgrade"}
       PROVE  next = machine
  BY <1>11 DEF After
<1>12. ASSUME command[1] = "install"
       PROVE  next = [machine EXCEPT !.installed =
                        Over([name \in ToSet(command[3]) |-> Candidate(what, name)], @)]
  BY <1>12 DEF After
<1>13. ASSUME command[1] = "remove"
       PROVE  next = [machine EXCEPT !.installed =
                        [name \in DOMAIN @ \ ToSet(command[3]) |-> @[name]]]
  BY <1>13 DEF After
<1>14. ASSUME command[1] \in GitVerbs
       PROVE  \E repo \in AfterGit(command, machine.repo, scenario.tips[run]) :
                next = [machine EXCEPT !.repo = repo]
  <2>1. After(command) = {[machine EXCEPT !.repo = repo] :
                            repo \in AfterGit(command, machine.repo, scenario.tips[run])}
    BY <1>14 DEF After, GitVerbs
  <2> QED BY <2>1
<1> QED BY <1>1, <1>2, <1>3, <1>4, <1>5, <1>6, <1>7, <1>8, <1>9, <1>10, <1>11, <1>12, <1>13, <1>14
        DEF Effect

\* What the stage has asked of a plugin will have come true when the deeds that
\* are left have worked.
DnsComing(s, f, deeds) ==
  s.dns.nameservers # <<>> => Comes(f, deeds, ResolvConf(s), render_resolv_conf(s.dns))

GitComing(s, backend, m, deeds) ==
  s.git.url # "" /\ backend = "shell" =>
    \/ m.repo.state = "whole"
    \/ \E deed \in ToSet(deeds) :
         \/ deed.op = "refuse"
         \/ deed.op = "run" /\ deed.command[1] \in {"clone", "fetch only", "fetch"}

ShellComing(s, m, deeds) ==
  \E n \in 0 .. Len(s.commands) :
    /\ m.shell = SubSeq(s.commands, 1, n)
    /\ deeds = [i \in 1 .. Len(s.commands) - n |-> Run(<<"shell", s.commands[n + i]>>, "next")]

NameComing(s, f, deeds) ==
  s.hostname # <<>> =>
    Comes(f, deeds, HostnamePath, s.hostname) /\ \E id : Comes(f, deeds, MachineIdPath, <<id>>)

SysctlComing(s, f, deeds) ==
  LET keys == Sorted(s.sysctl, SysctlOrder)
  IN  \A i \in DOMAIN keys :
        LET path == sysctl_path(keys[i])
        IN  Comes(f, deeds, path, s.sysctl[LastFor(keys, path, sysctl_path)])

Modprobe(name) == Run(<<"modprobe", name>>, "next")

ModulesComing(s, m, deeds) ==
  \A name \in ToSet(s.modules) : name \in m.modules \/ Modprobe(name) \in ToSet(deeds)

TimeComing(s, f, deeds) ==
  DOMAIN s.timesyncd # {} => Comes(f, deeds, TimesyncdPath, s.timesyncd)

Unit(verb, unit) == Run(<<verb, unit>>, "next")

Units(verb) == {Unit(verb, unit) : unit \in STRING}

UnitsComing(s, m, deeds) ==
  LET asked == s.systemctl
  IN  /\ \A u \in ToSet(asked.enable) \ ToSet(asked.disable) :
           u \in m.enabled \/ Unit("enable", u) \in ToSet(deeds)
      /\ \A u \in ToSet(asked.disable) :
           \/ Unit("disable", u) \in ToSet(deeds)
           \/ u \notin m.enabled /\ Unit("enable", u) \notin ToSet(deeds)
      /\ \A u : Unit("disable", u) \in ToSet(deeds) => u \in ToSet(asked.disable)
      /\ \A deed \in ToSet(deeds) :
           deed.op = "run" => \E verb : \E unit \in STRING : deed = Unit(verb, unit)
      /\ Before(deeds, Units("enable"), Units("disable"))
      /\ \A u \in ToSet(asked.mask) : u \in m.masked \/ Unit("mask", u) \in ToSet(deeds)
      /\ \A u \in ToSet(asked.start) : u \in m.started \/ Unit("start", u) \in ToSet(deeds)

\* The reload is the last deed.
OverridesComing(s, f, m, done, deeds) ==
  /\ \A i \in DOMAIN Overrides(s) :
       LET path == Dropin(Overrides(s)[i])
           content == LastFor(Overrides(s), path, Dropin).content
       IN  Comes(f, deeds, path, content) /\ (deeds = <<>> => <<path, content>> \in m.loaded)
  /\ \A i \in DOMAIN deeds : deeds[i].op = "run if written" <=> i = Len(deeds)
  /\ deeds # <<>> /\ Overrides(s) # <<>> => done \/ \E deed \in ToSet(deeds) : deed.op = "write"

VariablesComing(s, f, deeds) ==
  DOMAIN s.environment # {} =>
    \E env : /\ Comes(f, deeds, EnvFile(s), env)
             /\ \A v \in DOMAIN s.environment : v \in DOMAIN env /\ env[v] = s.environment[v]

FirstbootDeed(s) == Run(<<"firstboot", FlagsOf(s)>>, "return")

FlagsComing(s, m, deeds) ==
  /\ m.flags = FlagsOf(s) \/ FirstbootDeed(s) \in ToSet(deeds)
  /\ \A deed \in ToSet(deeds) : deed = FirstbootDeed(s)

PinsComing(s, pm, f, deeds) ==
  \A p \in {q \in DOMAIN s.package_pins : s.package_pins[q] # ""} :
    /\ pm = "apt" => Comes(f, deeds, PrefPath(p), <<s.package_pins[p]>>)
    /\ pm = "dnf" => /\ Comes(f, deeds, ProtectedPath(p), <<p>>)
                     /\ \E lines : Comes(f, deeds, DnfConf, lines) /\ "versionlock" \in lines
    /\ pm = "apk" => \E world : /\ Comes(f, deeds, WorldPath, world)
                                /\ {e \in world : e[1] = p} = {<<p, s.package_pins[p]>>}

InstallDeed(s, pm) == Run(<<"install", pm, s.packages.install>>, "next")
RemoveDeed(s, pm) == Run(<<"remove", pm, s.packages.remove>>, "next")

Versions(s, pm, pinned, m) ==
  \A p \in ToSet(s.packages.install) \ ToSet(s.packages.remove) :
    /\ p \in DOMAIN m.installed
    /\ pm = "apt" /\ pinned /\ p \in DOMAIN s.package_pins /\ s.package_pins[p] # "" =>
         m.installed[p] = s.package_pins[p]

PackagesComing(s, pm, pinned, m, deeds) ==
  \/ Refuse \in ToSet(deeds)
  \/ /\ InstallDeed(s, pm) \in ToSet(deeds) \/ Versions(s, pm, pinned, m)
     /\ \/ RemoveDeed(s, pm) \in ToSet(deeds)
        \/ /\ ToSet(s.packages.remove) \cap DOMAIN m.installed = {}
           /\ InstallDeed(s, pm) \notin ToSet(deeds) \/ ToSet(s.packages.remove) = {}
     /\ Before(deeds, {InstallDeed(s, pm)}, {RemoveDeed(s, pm)})
     /\ \A deed \in ToSet(deeds) :
          /\ deed.op = "run" /\ deed.command[1] = "install" => deed = InstallDeed(s, pm)
          /\ deed.op = "run" /\ deed.command[1] = "remove" => deed = RemoveDeed(s, pm)

\* Nothing left to do: it has come true.
LEMMA NothingLeft == ToSet(<<>>) = {}
BY DEF ToSet

\* For what is in files
LEMMA FilesComeTrue ==
  ASSUME NEW s, NEW f, NEW pm
  PROVE  /\ NameComing(s, f, <<>>) => NameSet(s, f)
         /\ SysctlComing(s, f, <<>>) => SysctlsSet(s, f)
         /\ TimeComing(s, f, <<>>) =>
              (DOMAIN s.timesyncd # {} => Reads(f, TimesyncdPath, s.timesyncd))
         /\ VariablesComing(s, f, <<>>) => VariablesSet(s, f)
         /\ PinsComing(s, pm, f, <<>>) => PinsSet(s, pm, f)
<1>1. NameComing(s, f, <<>>) => NameSet(s, f)
  <2>1. \A id : <<id>> # <<>>
    OBVIOUS
  <2> QED BY <2>1, ComesEnd DEF NameComing, NameSet, Reads
<1>2. SysctlComing(s, f, <<>>) => SysctlsSet(s, f)
  BY ComesEnd DEF SysctlComing, SysctlsSet
<1>3. TimeComing(s, f, <<>>) => (DOMAIN s.timesyncd # {} => Reads(f, TimesyncdPath, s.timesyncd))
  BY ComesEnd DEF TimeComing
<1>4. VariablesComing(s, f, <<>>) => VariablesSet(s, f)
  BY ComesEnd DEF VariablesComing, VariablesSet, Reads
<1>5. PinsComing(s, pm, f, <<>>) => PinsSet(s, pm, f)
  <2> SUFFICES ASSUME PinsComing(s, pm, f, <<>>),
                      NEW p \in {q \in DOMAIN s.package_pins : s.package_pins[q] # ""}
               PROVE  /\ pm = "apt" => Reads(f, PrefPath(p), <<s.package_pins[p]>>)
                      /\ pm = "dnf" => /\ Reads(f, ProtectedPath(p), <<p>>)
                                       /\ Exists(DnfConf, f) /\ "versionlock" \in f[DnfConf]
                      /\ pm = "apk" =>
                           /\ Exists(WorldPath, f)
                           /\ {e \in f[WorldPath] : e[1] = p} = {<<p, s.package_pins[p]>>}
    BY DEF PinsSet
  <2>1. pm = "apt" => Reads(f, PrefPath(p), <<s.package_pins[p]>>)
    BY ComesEnd DEF PinsComing
  <2>2. ASSUME pm = "dnf"
        PROVE  /\ Reads(f, ProtectedPath(p), <<p>>)
               /\ Exists(DnfConf, f) /\ "versionlock" \in f[DnfConf]
    <3>1. PICK lines : Comes(f, <<>>, DnfConf, lines) /\ "versionlock" \in lines
      BY <2>2 DEF PinsComing
    <3>2. Comes(f, <<>>, ProtectedPath(p), <<p>>)
      BY <2>2 DEF PinsComing
    <3> QED BY <3>1, <3>2, ComesEnd DEF Reads
  <2>3. ASSUME pm = "apk"
        PROVE  /\ Exists(WorldPath, f)
               /\ {e \in f[WorldPath] : e[1] = p} = {<<p, s.package_pins[p]>>}
    <3>1. PICK world : /\ Comes(f, <<>>, WorldPath, world)
                       /\ {e \in world : e[1] = p} = {<<p, s.package_pins[p]>>}
      BY <2>3 DEF PinsComing
    <3>2. Reads(f, WorldPath, world)
      BY <3>1, ComesEnd
    <3>3. Exists(WorldPath, f) /\ f[WorldPath] = world
      BY <3>2 DEF Reads
    <3> QED BY <3>1, <3>3
  <2> QED BY <2>1, <2>2, <2>3
<1> QED BY <1>1, <1>2, <1>3, <1>4, <1>5

\* and for what is in the machine.
LEMMA MachineComesTrue ==
  ASSUME NEW s, NEW f, NEW m, NEW backend, NEW pm, NEW pinned, NEW done, Stage(s)
  PROVE  /\ GitComing(s, backend, m, <<>>) =>
           (s.git.url # "" /\ backend = "shell" => m.repo.state = "whole")
         /\ ShellComing(s, m, <<>>) => m.shell = s.commands
         /\ ModulesComing(s, m, <<>>) => ToSet(s.modules) \subseteq m.modules
         /\ UnitsComing(s, m, <<>>) /\ OverridesComing(s, f, m, done, <<>>) => UnitsSet(s, f, m)
         /\ FlagsComing(s, m, <<>>) => m.flags = FlagsOf(s)
         /\ PackagesComing(s, pm, pinned, m, <<>>) => PackagesSet(s, pm, pinned, m)
<1>1. GitComing(s, backend, m, <<>>) =>
           (s.git.url # "" /\ backend = "shell" => m.repo.state = "whole")
  BY NothingLeft DEF GitComing
<1>2. ShellComing(s, m, <<>>) => m.shell = s.commands
  <2> SUFFICES ASSUME ShellComing(s, m, <<>>)
               PROVE  m.shell = s.commands
    OBVIOUS
  <2>1. s.commands \in Seq(STRING) /\ Len(s.commands) \in Nat
    BY DEF Stage
  <2>2. PICK n \in 0 .. Len(s.commands) :
          /\ m.shell = SubSeq(s.commands, 1, n)
          /\ <<>> = [i \in 1 .. Len(s.commands) - n |-> Run(<<"shell", s.commands[n + i]>>, "next")]
    BY DEF ShellComing
  <2>3. 1 \notin 1 .. Len(s.commands) - n
    <3>1. DOMAIN <<>> = 1 .. Len(s.commands) - n
      BY <2>2
    <3> QED BY <3>1
  <2>4. n = Len(s.commands)
    BY <2>1, <2>3
  <2>5. SubSeq(s.commands, 1, Len(s.commands)) = s.commands
    BY <2>1
  <2> QED BY <2>2, <2>4, <2>5
<1>3. ModulesComing(s, m, <<>>) => ToSet(s.modules) \subseteq m.modules
  BY NothingLeft DEF ModulesComing
<1>4. UnitsComing(s, m, <<>>) /\ OverridesComing(s, f, m, done, <<>>) => UnitsSet(s, f, m)
  <2> SUFFICES ASSUME UnitsComing(s, m, <<>>), OverridesComing(s, f, m, done, <<>>)
               PROVE  UnitsSet(s, f, m)
    OBVIOUS
  <2> DEFINE asked == s.systemctl
  <2>1. /\ ToSet(asked.enable) \ ToSet(asked.disable) \subseteq m.enabled
        /\ ToSet(asked.disable) \cap m.enabled = {}
        /\ ToSet(asked.mask) \subseteq m.masked
        /\ ToSet(asked.start) \subseteq m.started
    BY NothingLeft DEF UnitsComing
  <2>2. \A i \in DOMAIN Overrides(s) :
          LET path == Dropin(Overrides(s)[i])
              content == LastFor(Overrides(s), path, Dropin).content
          IN  Reads(f, path, content) /\ <<path, content>> \in m.loaded
    BY ComesEnd DEF OverridesComing
  <2> QED BY <2>1, <2>2 DEF UnitsSet
<1>5. FlagsComing(s, m, <<>>) => m.flags = FlagsOf(s)
  BY NothingLeft DEF FlagsComing
<1>6. PackagesComing(s, pm, pinned, m, <<>>) => PackagesSet(s, pm, pinned, m)
  <2> SUFFICES ASSUME PackagesComing(s, pm, pinned, m, <<>>)
               PROVE  PackagesSet(s, pm, pinned, m)
    OBVIOUS
  <2>1. /\ Versions(s, pm, pinned, m)
        /\ ToSet(s.packages.remove) \cap DOMAIN m.installed = {}
    BY NothingLeft DEF PackagesComing
  <2> QED BY <2>1 DEF Versions, PackagesSet
<1> QED BY <1>1, <1>2, <1>3, <1>4, <1>5, <1>6

\* A block of a sequence, and its places.
Block(seq, lo, n) == [k \in 1 .. n |-> seq[lo + k]]
Places(lo, n) == lo + 1 .. lo + n

\* The subsequence at neighbouring places is a block of the sequence.
LEMMA BlockOf ==
  ASSUME NEW seq, NEW lo \in Nat, NEW n \in Nat, NEW places, places = Places(lo, n)
  PROVE  Subsequence(seq, places) = Block(seq, lo, n)
<1>1. places = lo + 1 .. lo + n
  BY DEF Places
<1>2. places \subseteq 1 .. lo + n /\ lo + n \in Nat
  BY <1>1
<1>3. Cardinality(places) = n
  <2>1. Cardinality(lo + 1 .. lo + n) = IF lo + 1 > lo + n THEN 0 ELSE lo + n - (lo + 1) + 1
    BY FS_Interval
  <2> QED BY <1>1, <1>2, <2>1
<1>4. ASSUME NEW k \in 1 .. n
      PROVE  Place(places, k) = lo + k
  <2> DEFINE i == lo + k
  <2>1. i \in places /\ i \in lo + 1 .. lo + n /\ i \in Int /\ i - lo = k
    BY <1>1, <1>2
  <2> HIDE DEF i
  <2>2. {j \in places : j <= i} = lo + 1 .. i
    BY <1>1, <1>2, <2>1
  <2>3. Cardinality(lo + 1 .. i) = i - lo
    <3>1. Cardinality(lo + 1 .. i) = IF lo + 1 > i THEN 0 ELSE i - (lo + 1) + 1
      BY <2>1, FS_Interval
    <3> QED BY <2>1, <3>1
  <2>4. Rank(places, i) = k
    BY <2>1, <2>2, <2>3 DEF Rank
  <2>5. Place(places, Rank(places, i)) = i
    BY <1>2, <2>1, PlaceOrder
  <2> QED BY <2>4, <2>5 DEF i
<1> QED BY <1>3, <1>4 DEF Subsequence, Block

\* The lines that are rendered are those of the search, the nameservers and the
\* options.
LEMMA DnsComesTrue ==
  ASSUME NEW s, Stage(s), NEW f, DnsComing(s, f, <<>>)
  PROVE  DnsSet(s, f)
<1> SUFFICES ASSUME s.dns.nameservers # <<>>
             PROVE  /\ Exists(ResolvConf(s), f)
                    /\ LET of(word) == Those(f[ResolvConf(s)], LAMBDA line : line[1] = word)
                       IN  /\ of("nameserver") = [i \in DOMAIN s.dns.nameservers |->
                                                    <<"nameserver", <<s.dns.nameservers[i]>>>>]
                           /\ of("search") = IF s.dns.search \in {<<>>, <<".">>} THEN <<>>
                                             ELSE <<<<"search", s.dns.search>>>>
                           /\ \A i \in DOMAIN s.dns.options : s.dns.options[i] # "" =>
                                of("options") = <<<<"options", s.dns.options>>>>
  BY DEF DnsSet
<1> DEFINE lines == render_resolv_conf(s.dns)
           servers == s.dns.nameservers
           search == <<"search", s.dns.search>>
           options == <<"options", s.dns.options>>
           n == Len(servers)
           first == IF s.dns.search \in {<<>>, <<".">>} THEN <<>> ELSE <<search>>
           middle == [i \in DOMAIN servers |-> <<"nameserver", <<servers[i]>>>>]
           last == IF \A i \in DOMAIN s.dns.options : s.dns.options[i] = "" THEN <<>> ELSE <<options>>
           a == Len(first)
           o == Len(last)
<1>1. Exists(ResolvConf(s), f) /\ f[ResolvConf(s)] = lines
  BY ComesEnd DEF DnsComing, Reads
<1>2. servers \in Seq(STRING) /\ n \in Nat /\ DOMAIN servers = 1 .. n
  BY DEF Stage
<1>3. lines = first \o middle \o last
  BY DEF render_resolv_conf
<1>4. \/ a = 0 /\ first = <<>>
      \/ a = 1 /\ first = <<search>>
  OBVIOUS
<1>5. \/ o = 0 /\ last = <<>>
      \/ o = 1 /\ last = <<options>>
  OBVIOUS
<1>6. Listed(first) /\ Listed(last) /\ a \in Nat /\ o \in Nat
  <2>1. \A x : Listed(<<x>>) /\ Len(<<x>>) = 1
    <3>1. \A x : <<x>> \in Seq({x})
      OBVIOUS
    <3> QED BY <3>1 DEF Listed
  <2>2. Listed(<<>>)
    BY FineEmpty DEF Fine
  <2> HIDE DEF first, last, a, o
  <2> QED BY <1>4, <1>5, <2>1, <2>2
<1>7. Listed(middle) /\ DOMAIN middle = 1 .. n /\ Len(middle) = n
  <2>1. middle = [i \in 1 .. n |-> middle[i]]
    BY <1>2
  <2> HIDE DEF middle, n
  <2>2. middle \in Seq({middle[i] : i \in 1 .. n}) /\ Len(middle) = n
    BY <1>2, <2>1
  <2> QED BY <2>1, <2>2 DEF Listed
<1>8. /\ \A i \in 1 .. a : first[i] = search
      /\ \A i \in 1 .. n : middle[i] = <<"nameserver", <<servers[i]>>>>
      /\ \A i \in 1 .. o : last[i] = options
  <2>1. \A i \in 1 .. n : middle[i] = <<"nameserver", <<servers[i]>>>>
    BY <1>2
  <2>2. \A x : <<x>>[1] = x
    OBVIOUS
  <2> HIDE DEF first, last, a, o, middle
  <2> QED BY <1>4, <1>5, <2>1, <2>2
<1>9. /\ search[1] = "search" /\ options[1] = "options"
      /\ \A i \in 1 .. n : <<"nameserver", <<servers[i]>>>>[1] = "nameserver"
  OBVIOUS
<1>10. /\ first = [k \in 1 .. a |-> first[k]] /\ last = [k \in 1 .. o |-> last[k]]
       /\ middle = [k \in 1 .. n |-> middle[k]]
  <2>1. \A x : <<x>> = [k \in 1 .. 1 |-> <<x>>[k]] /\ <<>> = [k \in 1 .. 0 |-> <<>>[k]]
    OBVIOUS
  <2>2. middle = [k \in 1 .. n |-> middle[k]]
    BY <1>2
  <2> HIDE DEF first, last, a, o, middle
  <2> QED BY <1>4, <1>5, <2>1, <2>2
<1>11. /\ DOMAIN lines = 1 .. a + n + o
       /\ \A i \in 1 .. a : lines[i] = first[i]
       /\ \A i \in 1 .. n : lines[a + i] = middle[i]
       /\ \A i \in 1 .. o : lines[a + n + i] = last[i]
  <2> DEFINE both == first \o middle
  <2> HIDE DEF first, middle, last, n, lines
  <2>1. /\ Listed(both) /\ DOMAIN both = 1 .. a + n
        /\ \A i \in 1 .. a : both[i] = first[i]
        /\ \A i \in 1 .. n : both[a + i] = middle[i]
    BY <1>6, <1>7, JoinedParts
  <2>2. Len(both) = a + n
    <3>1. Len(both) \in Nat /\ DOMAIN both = 1 .. Len(both)
      BY <2>1 DEF Listed
    <3> QED BY <1>2, <1>6, <2>1, <3>1
  <2>3. lines = both \o last
    BY <1>3
  <2> HIDE DEF both, a, o
  <2>4. /\ DOMAIN lines = 1 .. Len(both) + Len(last)
        /\ \A i \in 1 .. Len(both) : lines[i] = both[i]
        /\ \A i \in 1 .. Len(last) : lines[Len(both) + i] = last[i]
    BY <1>6, <2>1, <2>3, JoinedParts
  <2>5. Len(last) = o
    BY DEF o
  <2>6. \A i \in 1 .. a : i \in 1 .. a + n
    BY <1>2, <1>6
  <2>7. \A i \in 1 .. n : a + i \in 1 .. a + n
    BY <1>2, <1>6
  <2> QED BY <1>2, <1>6, <2>1, <2>2, <2>4, <2>5, <2>6, <2>7
<1> DEFINE places(word) == {i \in DOMAIN lines : lines[i][1] = word}
<1> HIDE DEF first, middle, last, a, o, n, lines, search, options, servers
<1>12. \A i \in 1 .. a + n + o :
         \/ i \in 1 .. a /\ lines[i][1] = "search"
         \/ i \in a + 1 .. a + n /\ lines[i][1] = "nameserver"
         \/ i \in a + n + 1 .. a + n + o /\ lines[i][1] = "options"
  <2> SUFFICES ASSUME NEW i \in 1 .. a + n + o
               PROVE  \/ i \in 1 .. a /\ lines[i][1] = "search"
                      \/ i \in a + 1 .. a + n /\ lines[i][1] = "nameserver"
                      \/ i \in a + n + 1 .. a + n + o /\ lines[i][1] = "options"
    OBVIOUS
  <2>1. CASE i \in 1 .. a
    BY <1>8, <1>9, <1>11, <2>1
  <2>2. CASE i \in a + 1 .. a + n
    <3>1. i - a \in 1 .. n /\ a + (i - a) = i
      BY <1>2, <1>6, <2>2
    <3>2. lines[i] = middle[i - a]
      BY <1>11, <3>1
    <3> QED BY <1>8, <1>9, <2>2, <3>1, <3>2
  <2>3. CASE i \in a + n + 1 .. a + n + o
    <3>1. i - (a + n) \in 1 .. o /\ a + n + (i - (a + n)) = i
      BY <1>2, <1>6, <2>3
    <3>2. lines[i] = last[i - (a + n)]
      BY <1>11, <3>1
    <3> QED BY <1>8, <1>9, <2>3, <3>1, <3>2
  <2>4. i \in 1 .. a \/ i \in a + 1 .. a + n \/ i \in a + n + 1 .. a + n + o
    BY <1>2, <1>6
  <2> QED BY <2>1, <2>2, <2>3, <2>4
<1>13. \A i : i \in 1 .. a \/ i \in a + 1 .. a + n \/ i \in a + n + 1 .. a + n + o
              => i \in 1 .. a + n + o
  BY <1>2, <1>6
<1>14. /\ \A i \in 1 .. a : i \notin a + 1 .. a + n /\ i \notin a + n + 1 .. a + n + o
       /\ \A i \in a + 1 .. a + n : i \notin 1 .. a /\ i \notin a + n + 1 .. a + n + o
       /\ \A i \in a + n + 1 .. a + n + o : i \notin 1 .. a /\ i \notin a + 1 .. a + n
  BY <1>2, <1>6
<1>15. /\ \A i : i \in places("search") <=> i \in 0 + 1 .. 0 + a
       /\ \A i : i \in places("nameserver") <=> i \in a + 1 .. a + n
       /\ \A i : i \in places("options") <=> i \in a + n + 1 .. a + n + o
  <2>1. 0 + 1 .. 0 + a = 1 .. a
    BY <1>6
  <2> QED BY <1>11, <1>12, <1>13, <1>14, <2>1
<1> PICK these, servants, those :
      these = places("search") /\ servants = places("nameserver") /\ those = places("options")
  OBVIOUS
<1>16. these = Places(0, a) /\ servants = Places(a, n) /\ those = Places(a + n, o)
  <2>1. these = 0 + 1 .. 0 + a
    BY <1>15
  <2>2. servants = a + 1 .. a + n
    BY <1>15
  <2>3. those = (a + n) + 1 .. (a + n) + o
    BY <1>15
  <2> QED BY <2>1, <2>2, <2>3 DEF Places
<1> HIDE DEF places
<1>17. Subsequence(lines, these) = first
  <2>1. Subsequence(lines, these) = Block(lines, 0, a)
    BY <1>6, <1>16, BlockOf
  <2>2. \A k \in 1 .. a : lines[0 + k] = first[k]
    BY <1>6, <1>11
  <2> QED BY <1>10, <2>1, <2>2 DEF Block
<1>18. Subsequence(lines, servants) = middle
  <2>1. Subsequence(lines, servants) = Block(lines, a, n)
    BY <1>2, <1>6, <1>16, BlockOf
  <2> QED BY <1>10, <1>11, <2>1 DEF Block
<1>19. Subsequence(lines, those) = last
  <2>1. a + n \in Nat
    BY <1>2, <1>6
  <2>2. Subsequence(lines, those) = Block(lines, a + n, o)
    BY <1>6, <1>16, <2>1, BlockOf
  <2> QED BY <1>10, <1>11, <2>2 DEF Block
<1>20. \A word : Those(lines, LAMBDA line : line[1] = word) = Subsequence(lines, places(word))
  BY DEF Those, places
<1>21. first = IF s.dns.search \in {<<>>, <<".">>} THEN <<>> ELSE <<search>>
  BY DEF first
<1>22. \A i \in DOMAIN s.dns.options : s.dns.options[i] # "" => last = <<options>>
  BY DEF last
<1> QED BY <1>1, <1>17, <1>18, <1>19, <1>20, <1>21, <1>22 DEF middle, search, options, servers

-----------------------------------------------------------------------------

\* What is there after a deed that works.
Worked(deed, g, next, done) ==
  /\ deed.op # "refuse"
  /\ deed.op = "write" => g = Put(files, deed.path, deed.content)
  /\ deed.op # "write" => g = files
  /\ deed.op = "run" => next \in After(deed.command)
  /\ deed.op = "run if written" /\ written => next \in After(deed.command)
  /\ deed.op = "run if written" /\ ~ written => next = machine
  /\ deed.op \notin {"run", "run if written"} => next = machine
  /\ deed.op = "write" => done
  /\ written => done

\* What plugins that write files are asked for still comes,
LEMMA FilesComeOn ==
  ASSUME NEW s, NEW pm, NEW deeds, Listed(deeds), deeds # <<>>, NEW g, NEW next, NEW done,
         Worked(Head(deeds), g, next, done)
  PROVE  /\ DnsComing(s, files, deeds) => DnsComing(s, g, Tail(deeds))
         /\ NameComing(s, files, deeds) => NameComing(s, g, Tail(deeds))
         /\ SysctlComing(s, files, deeds) => SysctlComing(s, g, Tail(deeds))
         /\ TimeComing(s, files, deeds) => TimeComing(s, g, Tail(deeds))
         /\ VariablesComing(s, files, deeds) => VariablesComing(s, g, Tail(deeds))
         /\ PinsComing(s, pm, files, deeds) => PinsComing(s, pm, g, Tail(deeds))
<1> DEFINE rest == Tail(deeds)
<1>1. \A path, content : Comes(files, deeds, path, content) => Comes(g, rest, path, content)
  BY ComesOn DEF Worked
<1> HIDE DEF rest
<1>2. DnsComing(s, files, deeds) => DnsComing(s, g, rest)
  BY <1>1 DEF DnsComing
<1>3. NameComing(s, files, deeds) => NameComing(s, g, rest)
  BY <1>1 DEF NameComing
<1>4. SysctlComing(s, files, deeds) => SysctlComing(s, g, rest)
  BY <1>1 DEF SysctlComing
<1>5. TimeComing(s, files, deeds) => TimeComing(s, g, rest)
  BY <1>1 DEF TimeComing
<1>6. VariablesComing(s, files, deeds) => VariablesComing(s, g, rest)
  BY <1>1 DEF VariablesComing
<1>7. PinsComing(s, pm, files, deeds) => PinsComing(s, pm, g, rest)
  <2> SUFFICES ASSUME PinsComing(s, pm, files, deeds),
                      NEW p \in {q \in DOMAIN s.package_pins : s.package_pins[q] # ""}
               PROVE  /\ pm = "apt" => Comes(g, rest, PrefPath(p), <<s.package_pins[p]>>)
                      /\ pm = "dnf" => /\ Comes(g, rest, ProtectedPath(p), <<p>>)
                                       /\ \E lines : Comes(g, rest, DnfConf, lines) /\ "versionlock" \in lines
                      /\ pm = "apk" => \E world : /\ Comes(g, rest, WorldPath, world)
                                                  /\ {e \in world : e[1] = p} = {<<p, s.package_pins[p]>>}
    BY DEF PinsComing
  <2>1. pm = "apt" => Comes(g, rest, PrefPath(p), <<s.package_pins[p]>>)
    BY <1>1 DEF PinsComing
  <2>2. ASSUME pm = "dnf"
        PROVE  /\ Comes(g, rest, ProtectedPath(p), <<p>>)
               /\ \E lines : Comes(g, rest, DnfConf, lines) /\ "versionlock" \in lines
    BY <1>1, <2>2 DEF PinsComing
  <2>3. ASSUME pm = "apk"
        PROVE  \E world : /\ Comes(g, rest, WorldPath, world)
                          /\ {e \in world : e[1] = p} = {<<p, s.package_pins[p]>>}
    <3>1. PICK world : /\ Comes(files, deeds, WorldPath, world)
                       /\ {e \in world : e[1] = p} = {<<p, s.package_pins[p]>>}
      BY <2>3 DEF PinsComing
    <3>2. Comes(g, rest, WorldPath, world)
      BY <1>1, <3>1
    <3> QED BY <3>1, <3>2
  <2> QED BY <2>1, <2>2, <2>3
<1> QED BY <1>2, <1>3, <1>4, <1>5, <1>6, <1>7 DEF rest

\* and so does what the shell is to run,
LEMMA ShellComesOn ==
  ASSUME NEW s, Stage(s), NEW deeds, Listed(deeds), deeds # <<>>, NEW g, NEW next, NEW done,
         Worked(Head(deeds), g, next, done), ShellComing(s, machine, deeds),
         "shell" \in DOMAIN machine
  PROVE  ShellComing(s, next, Tail(deeds))
<1> DEFINE lines == s.commands
           L == Len(lines)
           rest == Tail(deeds)
           deed(i) == Run(<<"shell", lines[i]>>, "next")
<1>1. lines \in Seq(STRING) /\ L \in Nat /\ DOMAIN lines = 1 .. L
  BY DEF Stage
<1>2. PICK n \in 0 .. L : /\ machine.shell = SubSeq(lines, 1, n)
                          /\ deeds = [i \in 1 .. L - n |-> deed(n + i)]
  BY DEF ShellComing
<1>3. /\ Len(deeds) \in Nat /\ Len(deeds) >= 1 /\ DOMAIN deeds = 1 .. Len(deeds)
      /\ DOMAIN rest = 1 .. Len(deeds) - 1 /\ Head(deeds) = deeds[1]
      /\ \A i \in 1 .. Len(deeds) - 1 : rest[i] = deeds[i + 1]
      /\ Listed(rest)
  BY ListParts
<1> HIDE DEF deed, rest, L, lines
<1>4. DOMAIN deeds = 1 .. L - n
  BY <1>2
<1>5. Len(deeds) = L - n /\ n < L /\ n + 1 \in 1 .. L /\ n + 1 \in 0 .. L
  BY <1>1, <1>2, <1>3, <1>4
<1>6. Head(deeds) = deed(n + 1)
  BY <1>1, <1>2, <1>3, <1>5
<1>7. Head(deeds).op = "run" /\ Head(deeds).command = <<"shell", lines[n + 1]>>
  BY <1>6 DEF deed, Run
<1>8. next.shell = Append(machine.shell, lines[n + 1])
  <2>1. next \in After(Head(deeds).command)
    BY <1>7 DEF Worked
  <2>2. Effect(Head(deeds).command, next)
    BY <2>1, AfterIsEffect
  <2>3. <<"shell", lines[n + 1]>>[1] = "shell" /\ <<"shell", lines[n + 1]>>[2] = lines[n + 1]
    OBVIOUS
  <2>4. next = [machine EXCEPT !.shell = Append(@, lines[n + 1])]
    BY <1>7, <2>2, <2>3 DEF Effect
  <2> QED BY <2>4
<1>9. next.shell = SubSeq(lines, 1, n + 1)
  <2>1. Append(SubSeq(lines, 1, n), lines[n + 1]) = SubSeq(lines, 1, n + 1)
    BY <1>1, <1>2, <1>5
  <2> QED BY <1>2, <1>8, <2>1
<1>10. rest = [i \in 1 .. L - (n + 1) |-> deed((n + 1) + i)]
  <2>1. Len(deeds) - 1 = L - (n + 1)
    BY <1>1, <1>2, <1>5
  <2>2. ASSUME NEW i \in 1 .. L - (n + 1)
        PROVE  rest[i] = deed((n + 1) + i)
    <3>1. i + 1 \in 1 .. L - n /\ n + (i + 1) = (n + 1) + i /\ rest[i] = deeds[i + 1]
      BY <1>1, <1>2, <1>3, <2>1
    <3>2. deeds[i + 1] = deed(n + (i + 1))
      BY <1>2, <3>1
    <3> QED BY <3>1, <3>2
  <2>3. rest = [i \in DOMAIN rest |-> rest[i]]
    <3>1. PICK S : rest \in Seq(S)
      BY <1>3 DEF Listed
    <3> QED BY <3>1
  <2> QED BY <1>3, <2>1, <2>2, <2>3
<1> QED BY <1>5, <1>9, <1>10 DEF ShellComing, deed, L, lines, rest

\* the modules,
LEMMA ModulesComeOn ==
  ASSUME NEW s, NEW deeds, Listed(deeds), deeds # <<>>, NEW g, NEW next, NEW done,
         Worked(Head(deeds), g, next, done), Proper("modules", Head(deeds)),
         "modules" \in DOMAIN machine, ModulesComing(s, machine, deeds)
  PROVE  ModulesComing(s, next, Tail(deeds))
<1> DEFINE head == Head(deeds)
           what == head.command[2]
<1>1. ToSet(deeds) = {head} \cup ToSet(Tail(deeds))
  BY ListElements
<1>2. head.op = "run" => next = [machine EXCEPT !.modules = @ \cup {what}]
  <2> SUFFICES ASSUME head.op = "run"
               PROVE  next = [machine EXCEPT !.modules = @ \cup {what}]
    OBVIOUS
  <2>1. head.command[1] = "modprobe"
    BY DEF Proper, Commands
  <2>2. Effect(head.command, next)
    BY AfterIsEffect DEF Worked
  <2> QED BY <2>1, <2>2 DEF Effect
<1>3. head.op # "run" => next = machine
  BY DEF Proper, Worked
<1>4. machine.modules \subseteq next.modules
  BY <1>2, <1>3
<1>5. ASSUME NEW name, head = Modprobe(name)
      PROVE  name \in next.modules
  <2>1. head.op = "run" /\ head.command = <<"modprobe", name>>
    BY <1>5 DEF Modprobe, Run
  <2>2. what = name
    BY <2>1
  <2> QED BY <1>2, <2>1, <2>2
<1> HIDE DEF head
<1> QED BY <1>1, <1>4, <1>5 DEF ModulesComing

\* the flags of the first boot,
LEMMA FlagsComeOn ==
  ASSUME NEW s, NEW deeds, Listed(deeds), deeds # <<>>, NEW g, NEW next, NEW done,
         Worked(Head(deeds), g, next, done), Proper("systemd_firstboot", Head(deeds)),
         "flags" \in DOMAIN machine, FlagsComing(s, machine, deeds)
  PROVE  FlagsComing(s, next, Tail(deeds))
<1> DEFINE head == Head(deeds)
           flags == FlagsOf(s)
<1>1. ToSet(deeds) = {head} \cup ToSet(Tail(deeds))
  BY ListElements
<1>2. head = Run(<<"firstboot", flags>>, "return")
  BY <1>1 DEF FlagsComing, FirstbootDeed
<1>3. head.op = "run" /\ head.command = <<"firstboot", flags>>
  BY <1>2 DEF Run
<1>4. Effect(head.command, next)
  BY <1>3, AfterIsEffect DEF Worked
<1>5. <<"firstboot", flags>>[1] = "firstboot" /\ <<"firstboot", flags>>[2] = flags
  OBVIOUS
<1>6. next = [machine EXCEPT !.flags = flags]
  BY <1>3, <1>4, <1>5 DEF Effect
<1>7. next.flags = flags
  BY <1>6
<1> QED BY <1>1, <1>7 DEF FlagsComing

\* What systemctl's commands leave of the units and the overrides.
UnitsAfter(head, m, next) ==
  /\ next.enabled = IF head.op = "run" /\ head.command[1] = "enable" THEN m.enabled \cup {head.command[2]}
                    ELSE IF head.op = "run" /\ head.command[1] = "disable" THEN m.enabled \ {head.command[2]}
                    ELSE m.enabled
  /\ m.masked \subseteq next.masked /\ m.started \subseteq next.started
  /\ head.op = "run" /\ head.command[1] = "mask" => head.command[2] \in next.masked
  /\ head.op = "run" /\ head.command[1] = "start" => head.command[2] \in next.started
  /\ head.op # "run if written" => next.loaded = m.loaded

\* A deed of systemctl does to the units what its command says.
LEMMA UnitsLeft ==
  ASSUME NEW head, NEW g, NEW next, NEW done, Worked(head, g, next, done),
         Proper("systemctl", head), DOMAIN machine = Fields
  PROVE  UnitsAfter(head, machine, next)
<1> DEFINE verb == head.command[1]
           what == head.command[2]
<1>1. head.op = "run" => verb \in {"enable", "disable", "mask", "start"}
  BY DEF Proper, Commands
<1>2. head.op = "run" => Effect(head.command, next)
  BY AfterIsEffect DEF Worked
<1>3. ASSUME head.op = "run"
      PROVE  /\ verb = "enable" => next = [machine EXCEPT !.enabled = @ \cup {what}]
             /\ verb = "disable" => next = [machine EXCEPT !.enabled = @ \ {what}]
             /\ verb = "mask" => next = [machine EXCEPT !.masked = @ \cup {what}]
             /\ verb = "start" => next = [machine EXCEPT !.started = @ \cup {what}]
  BY <1>2, <1>3 DEF Effect
<1>4. {"enabled", "masked", "started", "loaded"} \subseteq DOMAIN machine
  BY DEF Fields
<1>5. CASE head.op = "run" /\ verb = "enable"
  <2>1. next = [machine EXCEPT !.enabled = @ \cup {what}]
    BY <1>3, <1>5
  <2>2. /\ next.enabled = machine.enabled \cup {what} /\ next.masked = machine.masked
        /\ next.started = machine.started /\ next.loaded = machine.loaded
    BY <1>4, <2>1
  <2> QED BY <1>5, <2>2 DEF UnitsAfter
<1>6. CASE head.op = "run" /\ verb = "disable"
  <2>1. next = [machine EXCEPT !.enabled = @ \ {what}]
    BY <1>3, <1>6
  <2>2. /\ next.enabled = machine.enabled \ {what} /\ next.masked = machine.masked
        /\ next.started = machine.started /\ next.loaded = machine.loaded
    BY <1>4, <2>1
  <2> QED BY <1>6, <2>2 DEF UnitsAfter
<1>7. CASE head.op = "run" /\ verb = "mask"
  <2>1. next = [machine EXCEPT !.masked = @ \cup {what}]
    BY <1>3, <1>7
  <2>2. /\ next.enabled = machine.enabled /\ next.masked = machine.masked \cup {what}
        /\ next.started = machine.started /\ next.loaded = machine.loaded
    BY <1>4, <2>1
  <2> QED BY <1>7, <2>2 DEF UnitsAfter
<1>8. CASE head.op = "run" /\ verb = "start"
  <2>1. next = [machine EXCEPT !.started = @ \cup {what}]
    BY <1>3, <1>8
  <2>2. /\ next.enabled = machine.enabled /\ next.masked = machine.masked
        /\ next.started = machine.started \cup {what} /\ next.loaded = machine.loaded
    BY <1>4, <2>1
  <2> QED BY <1>8, <2>2 DEF UnitsAfter
<1>9. CASE head.op = "run if written" /\ written
  <2>1. next \in After(head.command) /\ head.command = <<"daemon-reload">>
    BY <1>9 DEF Worked, Proper
  <2>2. Effect(head.command, next) /\ <<"daemon-reload">>[1] = "daemon-reload"
    BY <2>1, AfterIsEffect
  <2>3. next = [machine EXCEPT !.loaded = {<<path, files[path]>> : path \in Dropins(files)}]
    BY <2>1, <2>2 DEF Effect
  <2>4. /\ next.enabled = machine.enabled /\ next.masked = machine.masked
        /\ next.started = machine.started
    BY <1>4, <2>3
  <2> QED BY <1>9, <2>4 DEF UnitsAfter
<1>10. CASE head.op # "run" /\ (head.op = "run if written" => ~ written)
  <2>1. next = machine
    BY <1>10 DEF Worked
  <2> QED BY <1>10, <2>1 DEF UnitsAfter
<1> HIDE DEF verb
<1>11. head.op = "run" => verb = "enable" \/ verb = "disable" \/ verb = "mask" \/ verb = "start"
  BY <1>1
<1> QED BY <1>5, <1>6, <1>7, <1>8, <1>9, <1>10, <1>11

\* the units,
LEMMA UnitsComeOn ==
  ASSUME NEW s, Stage(s), NEW deeds, Listed(deeds), deeds # <<>>, NEW m, NEW next,
         UnitsAfter(Head(deeds), m, next), UnitsComing(s, m, deeds)
  PROVE  UnitsComing(s, next, Tail(deeds))
<1> DEFINE head == Head(deeds)
           rest == Tail(deeds)
           asked == s.systemctl
<1>1. ToSet(deeds) = {head} \cup ToSet(rest)
  BY ListElements
<1>2. /\ Before(rest, Units("enable"), Units("disable"))
      /\ head \in Units("disable") => ToSet(rest) \cap Units("enable") = {}
  BY BeforeTail DEF UnitsComing
<1>3. \A verb, u : head = Unit(verb, u) =>
                     head.op = "run" /\ head.command[1] = verb /\ head.command[2] = u
  <2>1. \A verb, u : LET deed == Unit(verb, u)
                     IN  deed.op = "run" /\ deed.command[1] = verb /\ deed.command[2] = u
    BY DEF Unit, Run
  <2> HIDE DEF head
  <2> QED BY <2>1
<1>4. ToSet(asked.disable) \subseteq STRING /\ ToSet(asked.enable) \subseteq STRING
  BY DEF Stage, ToSet
<1>5. UnitsAfter(head, m, next)
  OBVIOUS
<1>6. /\ \A u \in ToSet(asked.enable) \ ToSet(asked.disable) :
           u \in m.enabled \/ Unit("enable", u) \in ToSet(deeds)
      /\ \A u \in ToSet(asked.disable) :
           \/ Unit("disable", u) \in ToSet(deeds)
           \/ u \notin m.enabled /\ Unit("enable", u) \notin ToSet(deeds)
      /\ \A u : Unit("disable", u) \in ToSet(deeds) => u \in ToSet(asked.disable)
      /\ \A u \in ToSet(asked.mask) : u \in m.masked \/ Unit("mask", u) \in ToSet(deeds)
      /\ \A u \in ToSet(asked.start) : u \in m.started \/ Unit("start", u) \in ToSet(deeds)
  BY DEF UnitsComing
<1> HIDE DEF head, rest
<1>7. head.op = "run" => \E verb : \E u \in STRING : head = Unit(verb, u)
  BY <1>1 DEF UnitsComing
<1>8. head.op = "run" /\ head.command[1] = "disable" =>
        /\ head.command[2] \in ToSet(asked.disable)
        /\ head = Unit("disable", head.command[2]) /\ head \in Units("disable")
  <2> SUFFICES ASSUME head.op = "run", head.command[1] = "disable"
               PROVE  /\ head.command[2] \in ToSet(asked.disable)
                      /\ head = Unit("disable", head.command[2]) /\ head \in Units("disable")
    OBVIOUS
  <2>1. PICK verb, u : u \in STRING /\ head = Unit(verb, u)
    BY <1>7
  <2>2. verb = "disable" /\ head.command[2] = u
    BY <1>3, <2>1
  <2> QED BY <1>1, <1>6, <2>1, <2>2 DEF Units
<1>9. ASSUME head.op = "run", head.command[1] = "enable"
      PROVE  head = Unit("enable", head.command[2])
  <2>1. PICK verb, u : u \in STRING /\ head = Unit(verb, u)
    BY <1>7, <1>9
  <2> QED BY <1>3, <1>9, <2>1
<1>10. ASSUME NEW u \in ToSet(asked.enable) \ ToSet(asked.disable)
       PROVE  u \in next.enabled \/ Unit("enable", u) \in ToSet(rest)
  <2>1. CASE Unit("enable", u) = head
    <3>1. head.op = "run" /\ head.command[1] = "enable" /\ head.command[2] = u
      BY <1>3, <2>1
    <3>2. next.enabled = m.enabled \cup {u}
      BY <1>5, <3>1 DEF UnitsAfter
    <3> QED BY <3>2
  <2>2. CASE Unit("enable", u) # head /\ u \in m.enabled
    <3>1. head.op = "run" /\ head.command[1] = "disable" => head.command[2] # u
      BY <1>8
    <3> QED BY <1>5, <2>2, <3>1 DEF UnitsAfter
  <2> QED BY <1>1, <1>6, <2>1, <2>2
<1>11. ASSUME NEW u \in ToSet(asked.disable)
       PROVE  \/ Unit("disable", u) \in ToSet(rest)
              \/ u \notin next.enabled /\ Unit("enable", u) \notin ToSet(rest)
  <2>1. CASE Unit("disable", u) = head
    <3>1. Unit("enable", u) \notin ToSet(rest)
      <4>1. u \in STRING
        BY <1>4
      <4> QED BY <1>2, <2>1, <4>1 DEF Units
    <3>2. u \notin next.enabled
      BY <1>3, <1>5, <2>1 DEF UnitsAfter
    <3> QED BY <3>1, <3>2
  <2>2. CASE u \notin m.enabled /\ Unit("enable", u) \notin ToSet(deeds)
    <3>1. head.op = "run" /\ head.command[1] = "enable" => head.command[2] # u
      BY <1>1, <1>9, <2>2
    <3>2. u \notin next.enabled
      BY <1>5, <2>2, <3>1 DEF UnitsAfter
    <3> QED BY <1>1, <2>2, <3>2
  <2> QED BY <1>1, <1>6, <2>1, <2>2
<1>12. ASSUME NEW u \in ToSet(asked.mask)
       PROVE  u \in next.masked \/ Unit("mask", u) \in ToSet(rest)
  <2>1. Unit("mask", u) = head => u \in next.masked
    BY <1>3, <1>5 DEF UnitsAfter
  <2>2. u \in m.masked => u \in next.masked
    BY <1>5 DEF UnitsAfter
  <2> QED BY <1>1, <1>6, <2>1, <2>2
<1>13. ASSUME NEW u \in ToSet(asked.start)
       PROVE  u \in next.started \/ Unit("start", u) \in ToSet(rest)
  <2>1. Unit("start", u) = head => u \in next.started
    BY <1>3, <1>5 DEF UnitsAfter
  <2>2. u \in m.started => u \in next.started
    BY <1>5 DEF UnitsAfter
  <2> QED BY <1>1, <1>6, <2>1, <2>2
<1>14. /\ \A u : Unit("disable", u) \in ToSet(rest) => u \in ToSet(asked.disable)
       /\ \A deed \in ToSet(rest) : deed.op = "run" => \E verb : \E unit \in STRING : deed = Unit(verb, unit)
  BY <1>1 DEF UnitsComing
<1> QED BY <1>2, <1>10, <1>11, <1>12, <1>13, <1>14 DEF UnitsComing, rest

\* the overrides,
LEMMA OverridesComeOn ==
  ASSUME NEW s, NEW deeds, Listed(deeds), deeds # <<>>, NEW g, NEW next, NEW done,
         Worked(Head(deeds), g, next, done), Proper("systemctl", Head(deeds)),
         "loaded" \in DOMAIN machine, OverridesComing(s, files, machine, written, deeds)
  PROVE  OverridesComing(s, g, next, done, Tail(deeds))
<1> DEFINE n == Len(deeds)
           rest == Tail(deeds)
           head == Head(deeds)
           list == Overrides(s)
           path(i) == Dropin(list[i])
           content(i) == LastFor(list, path(i), Dropin).content
<1>1. /\ n \in Nat /\ n >= 1 /\ DOMAIN deeds = 1 .. n /\ DOMAIN rest = 1 .. n - 1
      /\ head = deeds[1] /\ \A i \in 1 .. n - 1 : rest[i] = deeds[i + 1]
      /\ Listed(rest)
  BY ListParts
<1>2. ToSet(deeds) = {head} \cup ToSet(rest)
  BY ListElements
<1>3. Worked(head, g, next, done) /\ Proper("systemctl", head)
  OBVIOUS
<1>4. /\ \A i \in DOMAIN list : Comes(files, deeds, path(i), content(i))
      /\ \A i \in DOMAIN deeds : deeds[i].op = "run if written" <=> i = n
      /\ list # <<>> => written \/ \E deed \in ToSet(deeds) : deed.op = "write"
  BY DEF OverridesComing
<1>5. Len(rest) = n - 1
  <2>1. Len(rest) \in Nat /\ DOMAIN rest = 1 .. Len(rest)
    BY <1>1 DEF Listed
  <2> QED BY <1>1, <2>1
<1>6. rest = <<>> <=> n = 1
  <2>1. Len(<<>>) = 0 /\ \A S : \A q \in Seq(S) : Len(q) = 0 => q = <<>>
    OBVIOUS
  <2>2. PICK S : rest \in Seq(S)
    BY <1>1 DEF Listed
  <2> HIDE DEF n, rest
  <2> QED BY <1>1, <1>5, <2>1, <2>2
<1>7. \A p, c : Comes(files, deeds, p, c) => Comes(g, rest, p, c)
  BY ComesOn DEF Worked
<1> HIDE DEF n, rest, head, list, content, path
<1>8. \A i \in DOMAIN rest : rest[i].op = "run if written" <=> i = Len(rest)
  <2>1. \A i \in 1 .. n - 1 : i + 1 \in 1 .. n /\ (i + 1 = n <=> i = n - 1)
    BY <1>1
  <2> QED BY <1>1, <1>4, <1>5, <2>1
<1>9. ASSUME rest # <<>>, list # <<>>
      PROVE  done \/ \E deed \in ToSet(rest) : deed.op = "write"
  BY <1>2, <1>3, <1>4, <1>9 DEF Worked
<1>10. ASSUME NEW i \in DOMAIN list, rest = <<>>
       PROVE  <<path(i), content(i)>> \in next.loaded
  <2>1. n = 1 /\ head.op = "run if written"
    <3>1. n = 1 /\ 1 \in 1 .. n
      BY <1>1, <1>6, <1>10
    <3> QED BY <1>1, <1>4, <3>1
  <2>2. list # <<>>
    BY <1>10
  <2>3. written
    <3>1. ToSet(rest) = {}
      BY <1>10, NothingLeft
    <3> QED BY <1>2, <1>4, <2>1, <2>2, <3>1
  <2>4. Effect(head.command, next) /\ head.command = <<"daemon-reload">>
    BY <1>3, <2>1, <2>3, AfterIsEffect DEF Worked, Proper
  <2>5. <<"daemon-reload">>[1] = "daemon-reload"
    OBVIOUS
  <2>6. next = [machine EXCEPT !.loaded = {<<p, files[p]>> : p \in Dropins(files)}]
    BY <2>4, <2>5 DEF Effect
  <2>7. next.loaded = {<<p, files[p]>> : p \in Dropins(files)}
    BY <2>6
  <2>8. g = files
    BY <1>3, <2>1 DEF Worked
  <2>9. Reads(files, path(i), content(i))
    <3>1. Comes(g, <<>>, path(i), content(i))
      BY <1>4, <1>7, <1>10
    <3> QED BY <2>8, <3>1, ComesEnd
  <2>10. Head(path(i)) = "systemd"
    BY DEF path, Dropin
  <2>11. path(i) \in Dropins(files) /\ files[path(i)] = content(i)
    BY <2>9, <2>10 DEF Reads, Exists, Dropins
  <2> QED BY <2>7, <2>11
<1>11. \A i \in DOMAIN list : /\ Comes(g, rest, path(i), content(i))
                              /\ rest = <<>> => <<path(i), content(i)>> \in next.loaded
  BY <1>4, <1>7, <1>10
<1> QED BY <1>8, <1>9, <1>11 DEF OverridesComing, rest, list, path, content

\* the clone,
StateKept(verb, repo, next) ==
  /\ Whole(next)
  /\ verb \in {"clone", "fetch only", "fetch"} => next.state = "whole"
  /\ repo.state = "whole" => next.state = "whole"

\* A git command leaves a repository that is whole, and one that brings commits
\* makes it so.
LEMMA StateLeft ==
  ASSUME NEW command, NEW repo, NEW tips, Whole(repo), command[1] \in GitVerbs,
         NEW next \in AfterGit(command, repo, tips)
  PROVE  StateKept(command[1], repo, next)
<1> SUFFICES /\ DOMAIN next = RepoFields
             /\ command[1] \in {"clone", "fetch only", "fetch"} => next.state = "whole"
             /\ repo.state = "whole" => next.state = "whole"
  BY DEF StateKept, Whole
<1>1. DOMAIN repo = RepoFields
  BY DEF Whole
<1>2. CASE command[1] \in {"clone", "fetch only"}
  <2>1. PICK url, only, origin, heads, head, tree :
          next = [state |-> "whole", url |-> url, only |-> only, origin |-> origin,
                  heads |-> heads, head |-> head, tree |-> tree]
    BY <1>2 DEF AfterGit
  <2>2. DOMAIN next = RepoFields /\ next.state = "whole"
    BY <2>1 DEF RepoFields
  <2> QED BY <2>2
<1>3. CASE command[1] = "fetch"
  <2>1. repo.state = "whole" /\ \E x : next = [repo EXCEPT !.origin = x]
    BY <1>3 DEF AfterGit
  <2>2. DOMAIN next = RepoFields /\ next.state = repo.state
    BY <1>1, <2>1
  <2> QED BY <2>1, <2>2
<1>4. CASE command[1] = "fetch gix"
  <2>1. \E x : next = [repo EXCEPT !.origin = x]
    BY <1>4 DEF AfterGit
  <2>2. DOMAIN next = RepoFields /\ next.state = repo.state
    BY <1>1, <2>1
  <2> QED BY <1>4, <2>2
<1>5. CASE command[1] \in {"reset", "checkout"}
  <2>1. \E x, y, z : next = [repo EXCEPT !.head = x, !.tree = y, !.heads = z]
    <3>1. CASE command[1] = "reset"
      BY <3>1 DEF AfterGit
    <3>2. CASE command[1] = "checkout"
      BY <3>2 DEF AfterGit
    <3> QED BY <1>5, <3>1, <3>2
  <2>2. DOMAIN next = RepoFields /\ next.state = repo.state
    BY <1>1, <2>1
  <2> QED BY <1>5, <2>2
<1> QED BY <1>2, <1>3, <1>4, <1>5 DEF GitVerbs

\* the repository,
LEMMA GitComesOn ==
  ASSUME NEW s, NEW backend, NEW deeds, Listed(deeds), deeds # <<>>, NEW g, NEW next, NEW done,
         Worked(Head(deeds), g, next, done), Proper("git", Head(deeds)),
         DOMAIN machine = Fields, DOMAIN machine.repo = RepoFields, GitComing(s, backend, machine, deeds)
  PROVE  GitComing(s, backend, next, Tail(deeds))
<1> DEFINE head == Head(deeds)
           rest == Tail(deeds)
<1>1. ToSet(deeds) = {head} \cup ToSet(rest)
  BY ListElements
<1>2. Worked(head, g, next, done) /\ Proper("git", head)
  OBVIOUS
<1> HIDE DEF head, rest
<1>3. CASE head.op # "run"
  <2>1. next = machine /\ head.op # "refuse"
    BY <1>2, <1>3 DEF Worked, Proper
  <2> QED BY <1>1, <1>3, <2>1 DEF GitComing, rest
<1>4. CASE head.op = "run"
  <2>1. next \in After(head.command) /\ <<"git", head.command[1]>> \in Commands
    BY <1>2, <1>4 DEF Worked, Proper
  <2>2. "repo" \in DOMAIN machine
    BY DEF Fields
  <2>3. CASE head.command[1] \in GitVerbs
    <3>1. PICK repo \in AfterGit(head.command, machine.repo, scenario.tips[run]) :
            next = [machine EXCEPT !.repo = repo]
      BY <2>1, <2>2, <2>3, AfterFields
    <3>2. next.repo = repo
      BY <2>2, <3>1
    <3> PICK command, old, tips :
          command = head.command /\ old = machine.repo /\ tips = scenario.tips[run]
      OBVIOUS
    <3>3. /\ command[1] \in {"clone", "fetch only", "fetch"} => repo.state = "whole"
          /\ old.state = "whole" => repo.state = "whole"
      <4>1. repo \in AfterGit(command, old, tips) /\ Whole(old) /\ command[1] \in GitVerbs
        BY <2>3 DEF Whole
      <4>2. StateKept(command[1], old, repo)
        BY <4>1, StateLeft
      <4> QED BY <4>2 DEF StateKept
    <3> QED BY <1>1, <1>4, <3>2, <3>3 DEF GitComing, rest
  <2>4. CASE head.command[1] \notin GitVerbs
    <3>1. next.repo = machine.repo
      BY <2>1, <2>2, <2>4, AfterFields
    <3> QED BY <1>1, <1>4, <2>4, <3>1 DEF GitComing, GitVerbs, rest
  <2> QED BY <2>3, <2>4
<1> QED BY <1>3, <1>4

\* and the packages, in the versions of the pins that are in place.
LEMMA PackagesComeOn ==
  ASSUME NEW s, NEW pm, NEW pinned, NEW deeds, Listed(deeds), deeds # <<>>, NEW g, NEW next, NEW done,
         Worked(Head(deeds), g, next, done), Proper("packages", Head(deeds)),
         DOMAIN machine = Fields, pinned => PinsSet(s, pm, files),
         PackagesComing(s, pm, pinned, machine, deeds)
  PROVE  PackagesComing(s, pm, pinned, next, Tail(deeds))
<1> DEFINE head == Head(deeds)
           rest == Tail(deeds)
           install == InstallDeed(s, pm)
           remove == RemoveDeed(s, pm)
           asked == ToSet(s.packages.install)
           gone == ToSet(s.packages.remove)
           old == machine.installed
<1>1. ToSet(deeds) = {head} \cup ToSet(rest)
  BY ListElements
<1>2. Worked(head, g, next, done) /\ Proper("packages", head)
  OBVIOUS
<1>3. CASE Refuse \in ToSet(deeds)
  <2>1. Refuse.op = "refuse"
    BY DEF Refuse
  <2> QED BY <1>1, <1>2, <1>3, <2>1 DEF Worked, PackagesComing
<1>4. CASE Refuse \notin ToSet(deeds)
  <2>1. /\ install \in ToSet(deeds) \/ Versions(s, pm, pinned, machine)
        /\ \/ remove \in ToSet(deeds)
           \/ /\ gone \cap DOMAIN old = {}
              /\ install \notin ToSet(deeds) \/ gone = {}
        /\ Before(deeds, {install}, {remove})
        /\ \A deed \in ToSet(deeds) :
             /\ deed.op = "run" /\ deed.command[1] = "install" => deed = install
             /\ deed.op = "run" /\ deed.command[1] = "remove" => deed = remove
    BY <1>4 DEF PackagesComing
  <2>2. Before(rest, {install}, {remove}) /\ (head = remove => install \notin ToSet(rest))
    BY <2>1, BeforeTail
  <2>3. /\ install.op = "run" /\ install.command = <<"install", pm, s.packages.install>>
        /\ remove.op = "run" /\ remove.command = <<"remove", pm, s.packages.remove>>
    BY DEF InstallDeed, RemoveDeed, Run
  <2>4. /\ <<"install", pm, s.packages.install>>[1] = "install"
        /\ <<"install", pm, s.packages.install>>[2] = pm
        /\ <<"install", pm, s.packages.install>>[3] = s.packages.install
        /\ <<"remove", pm, s.packages.remove>>[1] = "remove"
        /\ <<"remove", pm, s.packages.remove>>[3] = s.packages.remove
    OBVIOUS
  <2>5. "installed" \in DOMAIN machine
    BY DEF Fields
  <2> HIDE DEF head, rest, install, remove
  <2>6. install # remove
    <3>1. install.command[1] = "install" /\ remove.command[1] = "remove"
      BY <2>3, <2>4
    <3> QED BY <3>1
  <2>7. head.op = "run" => Effect(head.command, next)
    BY <1>2, AfterIsEffect DEF Worked
  <2>8. CASE head = install
    <3> PICK taken : taken = [name \in ToSet(head.command[3]) |-> Candidate(head.command[2], name)]
      OBVIOUS
    <3>1. head.op = "run" /\ head.command[1] = "install" /\ head.command[2] = pm
          /\ ToSet(head.command[3]) = asked
      BY <2>3, <2>4, <2>8
    <3>2. next = [machine EXCEPT !.installed = Over(taken, @)]
      BY <2>7, <3>1 DEF Effect
    <3>3. next.installed = Over(taken, old)
      BY <2>5, <3>2
    <3>4. /\ DOMAIN next.installed = asked \cup DOMAIN old
          /\ \A p \in asked : next.installed[p] = Candidate(pm, p)
      BY <3>1, <3>3 DEF Over
    <3>5. ASSUME NEW p \in asked \ gone, pm = "apt", pinned,
                 p \in DOMAIN s.package_pins, s.package_pins[p] # ""
          PROVE  next.installed[p] = s.package_pins[p]
      <4>1. PrefPath(p) \in DOMAIN files /\ files[PrefPath(p)] = <<s.package_pins[p]>>
        BY <3>5 DEF PinsSet, Reads, Exists
      <4>2. <<s.package_pins[p]>> # <<>> /\ Head(<<s.package_pins[p]>>) = s.package_pins[p]
        OBVIOUS
      <4>3. Candidate(pm, p) = s.package_pins[p]
        BY <3>5, <4>1, <4>2 DEF Candidate
      <4> QED BY <3>4, <4>3
    <3>6. Versions(s, pm, pinned, next)
      BY <3>4, <3>5 DEF Versions
    <3>7. \/ remove \in ToSet(rest)
          \/ gone \cap DOMAIN next.installed = {} /\ gone = {}
      BY <1>1, <2>1, <2>6, <2>8
    <3> QED BY <1>1, <2>1, <2>2, <3>6, <3>7 DEF PackagesComing, rest, install, remove
  <2>9. CASE head = remove
    <3>1. next = [machine EXCEPT !.installed = [name \in DOMAIN @ \ gone |-> @[name]]]
      BY <2>3, <2>4, <2>7, <2>9 DEF Effect
    <3>2. next.installed = [name \in DOMAIN old \ gone |-> old[name]]
      BY <2>5, <3>1
    <3>3. install \notin ToSet(deeds)
      BY <1>1, <2>2, <2>6, <2>9
    <3>4. Versions(s, pm, pinned, machine)
      BY <2>1, <3>3
    <3>5. Versions(s, pm, pinned, next)
      BY <3>2, <3>4 DEF Versions
    <3>6. gone \cap DOMAIN next.installed = {}
      BY <3>2
    <3>7. install \notin ToSet(rest)
      BY <1>1, <3>3
    <3> QED BY <1>1, <2>1, <2>2, <3>5, <3>6, <3>7 DEF PackagesComing, rest, install, remove
  <2>10. CASE head \notin {install, remove}
    <3>1. next = machine
      <4>1. CASE head.op = "run"
        <5>1. head.command[1] \in {"refresh", "upgrade"}
          <6>1. head.command[1] \in {"refresh", "upgrade", "install", "remove"}
            BY <1>2, <4>1 DEF Proper, Commands
          <6> QED BY <1>1, <2>1, <2>10, <4>1, <6>1
        <5> QED BY <2>7, <4>1, <5>1 DEF Effect
      <4>2. CASE head.op # "run"
        BY <1>2, <4>2 DEF Worked, Proper
      <4> QED BY <4>1, <4>2
    <3> QED BY <1>1, <2>1, <2>2, <2>10, <3>1 DEF PackagesComing, rest, install, remove
  <2> QED BY <2>8, <2>9, <2>10
<1> QED BY <1>3, <1>4

-----------------------------------------------------------------------------

\* A list of one write has it last.
LEMMA OneWrite ==
  \A path, content, fail : LastWrite(<<Write(path, content, fail)>>, path, content)
<1> SUFFICES ASSUME NEW path, NEW content, NEW fail
             PROVE  LastWrite(<<Write(path, content, fail)>>, path, content)
  OBVIOUS
<1> DEFINE w == Write(path, content, fail)
           deeds == <<w>>
<1>1. WritesTo(w, path) /\ w.content = content
  BY DEF WritesTo, Write
<1>2. DOMAIN deeds = 1 .. 1 /\ deeds[1] = w
  OBVIOUS
<1> HIDE DEF deeds, w
<1>3. LastWrite(deeds, path, content)
  BY <1>1, <1>2 DEF LastWrite
<1> QED BY <1>3 DEF deeds, w

\* What a call sets out with will bring about what the stage asks of the plugin:
\* dns, environment, timesyncd and hostname,
LEMMA FilesCalled ==
  ASSUME NEW s, NEW f, NEW id, NEW readable
  PROVE  /\ DnsComing(s, f, dns(s))
         /\ VariablesComing(s, f, environment(s, f, readable))
         /\ TimeComing(s, f, timesyncd(s))
         /\ NameComing(s, f, hostname(s, <<id>>))
<1>1. DnsComing(s, f, dns(s))
  BY OneWrite DEF DnsComing, dns, Comes
<1>2. VariablesComing(s, f, environment(s, f, readable))
  <2> SUFFICES ASSUME DOMAIN s.environment # {}
               PROVE  \E env : /\ Comes(f, environment(s, f, readable), EnvFile(s), env)
                               /\ \A v \in DOMAIN s.environment :
                                    v \in DOMAIN env /\ env[v] = s.environment[v]
    BY DEF VariablesComing
  <2> DEFINE path == EnvFile(s)
             existing == IF Exists(path, f) /\ readable THEN parse_dotenv(f[path]) ELSE <<>>
             env == Over(s.environment, existing)
  <2>1. environment(s, f, readable) = <<Write(path, env, "return")>>
    BY DEF environment
  <2>2. \A v \in DOMAIN s.environment : v \in DOMAIN env /\ env[v] = s.environment[v]
    BY DEF Over
  <2> HIDE DEF env, path
  <2>3. LastWrite(environment(s, f, readable), path, env)
    BY <2>1, OneWrite
  <2> QED BY <2>2, <2>3 DEF Comes, path
<1>3. TimeComing(s, f, timesyncd(s))
  <2> SUFFICES ASSUME DOMAIN s.timesyncd # {}
               PROVE  LastWrite(timesyncd(s), TimesyncdPath, s.timesyncd)
    BY DEF TimeComing, Comes
  <2> DEFINE a == MkdirAll("return")
             b == Write(TimesyncdPath, s.timesyncd, "return")
             deeds == <<a, b>>
  <2>1. timesyncd(s) = deeds
    BY DEF timesyncd
  <2>2. WritesTo(b, TimesyncdPath) /\ b.content = s.timesyncd
    BY DEF WritesTo, Write
  <2>3. DOMAIN deeds = 1 .. 2 /\ deeds[2] = b
    OBVIOUS
  <2> HIDE DEF deeds, a, b
  <2>4. LastWrite(deeds, TimesyncdPath, s.timesyncd)
    <3>1. 2 \in DOMAIN deeds /\ \A j \in DOMAIN deeds : ~ (j > 2)
      BY <2>3
    <3> QED BY <2>2, <2>3, <3>1 DEF LastWrite
  <2> QED BY <2>1, <2>4
<1>4. NameComing(s, f, hostname(s, <<id>>))
  <2> SUFFICES ASSUME s.hostname # <<>>
               PROVE  /\ LastWrite(hostname(s, <<id>>), HostnamePath, s.hostname)
                      /\ LastWrite(hostname(s, <<id>>), MachineIdPath, <<id>>)
    BY DEF NameComing, Comes
  <2> DEFINE a == Write(HostnamePath, s.hostname, "return")
             b == Write(MachineIdPath, <<id>>, "return")
             c == Run(<<"sethostname", s.hostname>>, "ignore")
             deeds == <<a, b, c>>
  <2>1. hostname(s, <<id>>) = deeds
    BY DEF hostname
  <2>2. /\ WritesTo(a, HostnamePath) /\ a.content = s.hostname
        /\ WritesTo(b, MachineIdPath) /\ b.content = <<id>> /\ ~ WritesTo(b, HostnamePath)
        /\ \A path : ~ WritesTo(c, path)
    BY DEF WritesTo, Write, Run, HostnamePath, MachineIdPath
  <2>3. DOMAIN deeds = 1 .. 3 /\ deeds[1] = a /\ deeds[2] = b /\ deeds[3] = c
    OBVIOUS
  <2> HIDE DEF deeds, a, b, c
  <2>4. /\ 1 \in DOMAIN deeds /\ 2 \in DOMAIN deeds
        /\ \A j \in DOMAIN deeds : /\ j > 1 => j = 2 \/ j = 3
                                   /\ j > 2 => j = 3
    BY <2>3
  <2>5. LastWrite(deeds, HostnamePath, s.hostname)
    BY <2>2, <2>3, <2>4 DEF LastWrite
  <2>6. LastWrite(deeds, MachineIdPath, <<id>>)
    BY <2>2, <2>3, <2>4 DEF LastWrite
  <2> QED BY <2>1, <2>5, <2>6
<1> QED BY <1>1, <1>2, <1>3, <1>4

\* commands, modules and systemd_firstboot,
LEMMA CommandsCalled ==
  ASSUME NEW s, Stage(s), NEW m
  PROVE  /\ m.shell = <<>> => ShellComing(s, m, commands(s))
         /\ ModulesComing(s, m, modules(s))
         /\ m.flags = {} => FlagsComing(s, m, systemd_firstboot(s))
<1>1. /\ s.commands \in Seq(STRING) /\ DOMAIN s.commands = 1 .. Len(s.commands)
      /\ Len(s.commands) \in Nat /\ DOMAIN s.modules = 1 .. Len(s.modules)
  BY DEF Stage
<1>2. ASSUME m.shell = <<>>
      PROVE  ShellComing(s, m, commands(s))
  <2> DEFINE L == Len(s.commands)
             deed(i) == Run(<<"shell", s.commands[i]>>, "next")
  <2>1. commands(s) = [i \in 1 .. L |-> deed(i)]
    BY <1>1 DEF commands, ForEach
  <2>2. SubSeq(s.commands, 1, 0) = <<>>
    BY <1>1
  <2>3. L - 0 = L /\ 0 \in 0 .. L /\ \A i \in 1 .. L : 0 + i = i
    BY <1>1
  <2> HIDE DEF deed, L
  <2>4. commands(s) = [i \in 1 .. L - 0 |-> deed(0 + i)]
    BY <2>1, <2>3
  <2> QED BY <1>2, <2>2, <2>3, <2>4 DEF ShellComing, deed, L
<1>3. ModulesComing(s, m, modules(s))
  <2>1. /\ DOMAIN modules(s) = DOMAIN s.modules
        /\ \A i \in DOMAIN s.modules : modules(s)[i] = Modprobe(s.modules[i])
    BY DEF modules, ForEach, Modprobe
  <2> QED BY <2>1 DEF ModulesComing, ToSet
<1>4. ASSUME m.flags = {}
      PROVE  FlagsComing(s, m, systemd_firstboot(s))
  <2>1. CASE DOMAIN s.systemd_firstboot = {}
    <3>1. systemd_firstboot(s) = <<>>
      BY <2>1 DEF systemd_firstboot
    <3>2. FlagsOf(s) = {}
      BY <2>1 DEF FlagsOf
    <3> QED BY <1>4, <3>1, <3>2, NothingLeft DEF FlagsComing
  <2>2. CASE DOMAIN s.systemd_firstboot # {}
    <3>1. systemd_firstboot(s) = <<FirstbootDeed(s)>>
      BY <2>2 DEF systemd_firstboot, FirstbootDeed, FlagsOf
    <3>2. \A x : ToSet(<<x>>) = {x}
      BY DEF ToSet
    <3> QED BY <3>1, <3>2 DEF FlagsComing
  <2> QED BY <2>1, <2>2
<1> QED BY <1>2, <1>3, <1>4

\* The greatest of some places of a sequence.
LEMMA MaxPlace ==
  ASSUME NEW n \in Nat, NEW S, S \subseteq 1 .. n, S # {}
  PROVE  Max(S) \in S /\ \A i \in S : i <= Max(S)
<1>1. S \subseteq 0 .. n
  OBVIOUS
<1>2. \E i \in S : \A j \in S : j <= i
  BY <1>1, Greatest
<1>3. \E i \in S : \A j \in S : i >= j
  BY <1>2
<1>4. Max(S) \in S /\ \A j \in S : Max(S) >= j
  BY <1>3 DEF Max
<1> QED BY <1>4

\* sysctl,
LEMMA SysctlCalled ==
  ASSUME NEW s, NEW f
  PROVE  SysctlComing(s, f, sysctl(s))
<1> DEFINE keys == Sorted(s.sysctl, SysctlOrder)
           n == Len(keys)
           deeds == sysctl(s)
<1>1. n \in Nat /\ DOMAIN keys = 1 .. n
  BY ChainAssumption, SortedElements
<1>2. /\ DOMAIN deeds = 1 .. n
      /\ \A i \in 1 .. n : deeds[i] = Write(sysctl_path(keys[i]), s.sysctl[keys[i]], "next")
  BY <1>1 DEF sysctl, ForEach
<1> HIDE DEF keys, deeds, n
<1>3. ASSUME NEW i \in DOMAIN keys
      PROVE  LET path == sysctl_path(keys[i])
             IN  LastWrite(deeds, path, s.sysctl[LastFor(keys, path, sysctl_path)])
  <2> DEFINE path == sysctl_path(keys[i])
             S == {j \in DOMAIN keys : sysctl_path(keys[j]) = path}
             last == Max(S)
  <2>1. i \in S /\ S \subseteq 1 .. n
    BY <1>1
  <2>2. last \in S /\ \A j \in S : j <= last
    <3> HIDE DEF S
    <3> QED BY <1>1, <2>1, MaxPlace
  <2>3. LastFor(keys, path, sysctl_path) = keys[last]
    BY DEF LastFor
  <2>4. last \in 1 .. n /\ sysctl_path(keys[last]) = path
    BY <1>1, <2>2
  <2>5. \A j \in 1 .. n : j > last => sysctl_path(keys[j]) # path
    <3> SUFFICES ASSUME NEW j \in 1 .. n, j > last, sysctl_path(keys[j]) = path
                 PROVE  FALSE
      OBVIOUS
    <3>1. j \in S
      BY <1>1
    <3>2. j <= last
      BY <2>2, <3>1
    <3> QED BY <2>4, <3>2
  <2> HIDE DEF last, S, path
  <2>6. WritesTo(deeds[last], path) /\ deeds[last].content = s.sysctl[keys[last]]
    BY <1>2, <2>4 DEF WritesTo, Write
  <2>7. \A j \in 1 .. n : j > last => ~ WritesTo(deeds[j], path)
    BY <1>2, <2>5 DEF WritesTo, Write
  <2>8. LastWrite(deeds, path, s.sysctl[keys[last]])
    BY <1>2, <2>4, <2>6, <2>7 DEF LastWrite
  <2> QED BY <2>3, <2>8 DEF path
<1> QED BY <1>3 DEF SysctlComing, Comes, keys, deeds

\* A list of units' commands.
LEMMA UnitList ==
  ASSUME NEW units \in Seq(STRING), NEW verb
  PROVE  /\ Listed(run_list(units, verb))
         /\ ToSet(run_list(units, verb)) = {Unit(verb, u) : u \in ToSet(units)}
<1> DEFINE n == Len(units)
           deeds == run_list(units, verb)
<1>1. n \in Nat /\ DOMAIN units = 1 .. n
  OBVIOUS
<1>2. deeds = [i \in 1 .. n |-> Unit(verb, units[i])]
  BY <1>1 DEF run_list, ForEach, Unit
<1> HIDE DEF deeds, n
<1>3. Listed(deeds)
  <2> DEFINE S == {Unit(verb, units[i]) : i \in 1 .. n}
  <2>1. \A i \in 1 .. n : Unit(verb, units[i]) \in S
    OBVIOUS
  <2> HIDE DEF S
  <2>2. deeds \in [1 .. n -> S]
    BY <1>2, <2>1
  <2>3. deeds \in Seq(S)
    BY <1>1, <2>2
  <2> QED BY <2>3 DEF Listed
<1>4. ToSet(deeds) = {Unit(verb, u) : u \in ToSet(units)}
  <2>1. DOMAIN deeds = 1 .. n /\ \A i \in 1 .. n : deeds[i] = Unit(verb, units[i])
    BY <1>2
  <2> QED BY <1>1, <2>1 DEF ToSet
<1> QED BY <1>3, <1>4 DEF Listed, deeds

\* The deeds for the overrides: each one's file gets the content of the last
\* that is for it.
LEMMA OverrideWrites ==
  ASSUME NEW list, Listed(list), NEW deeds, deeds = write_overrides(list)
  PROVE  /\ Listed(deeds)
         /\ \A i \in DOMAIN list :
              LET path == Dropin(list[i])
              IN  LastWrite(deeds, path, LastFor(list, path, Dropin).content)
         /\ \A deed \in ToSet(deeds) : deed.op \in {"mkdir", "write"}
         /\ list # <<>> => \E deed \in ToSet(deeds) : deed.op = "write"
<1> DEFINE n == Len(list)
<1>1. n \in Nat /\ DOMAIN list = 1 .. n
  BY DEF Listed
<1>2. /\ DOMAIN deeds = 1 .. 2 * n /\ deeds = [k \in 1 .. 2 * n |-> deeds[k]]
      /\ \A k \in 1 .. 2 * n :
           LET o == list[(k + 1) \div 2]
           IN  deeds[k] = IF k % 2 = 1 THEN MkdirAll("skip") ELSE Write(Dropin(o), o.content, "next")
  BY DEF write_overrides
<1>3. /\ \A j \in 1 .. n : 2 * j \in 1 .. 2 * n /\ (2 * j) % 2 # 1 /\ (2 * j + 1) \div 2 = j
      /\ \A k \in 1 .. 2 * n : k % 2 # 1 => \E j \in 1 .. n : k = 2 * j
  BY <1>1
<1> HIDE DEF n
<1>4. \A j \in 1 .. n : deeds[2 * j] = Write(Dropin(list[j]), list[j].content, "next")
  BY <1>2, <1>3
<1>5. \A k \in 1 .. 2 * n : deeds[k] = MkdirAll("skip") \/ \E j \in 1 .. n : k = 2 * j
  BY <1>2, <1>3
<1>6. Listed(deeds)
  <2>1. 2 * n \in Nat
    BY <1>1
  <2> DEFINE S == {deeds[k] : k \in 1 .. 2 * n}
  <2>2. \A k \in 1 .. 2 * n : deeds[k] \in S
    OBVIOUS
  <2> HIDE DEF S
  <2>3. deeds \in [1 .. 2 * n -> S]
    BY <1>2, <2>2
  <2>4. deeds \in Seq(S)
    BY <2>1, <2>3
  <2> QED BY <2>4 DEF Listed
<1>7. \A p, c : Write(p, c, "next").op = "write" /\ Write(p, c, "next").path = p
                /\ Write(p, c, "next").content = c
  BY DEF Write
<1>8. MkdirAll("skip").op = "mkdir"
  BY DEF MkdirAll
<1>9. \A j \in 1 .. n : /\ deeds[2 * j].op = "write" /\ deeds[2 * j].path = Dropin(list[j])
                        /\ deeds[2 * j].content = list[j].content
  <2> SUFFICES ASSUME NEW j \in 1 .. n
               PROVE  /\ deeds[2 * j].op = "write" /\ deeds[2 * j].path = Dropin(list[j])
                      /\ deeds[2 * j].content = list[j].content
    OBVIOUS
  <2>1. PICK p, c : p = Dropin(list[j]) /\ c = list[j].content
    OBVIOUS
  <2>2. PICK deed : deed = deeds[2 * j]
    OBVIOUS
  <2>3. deed = Write(p, c, "next")
    BY <1>4, <2>1, <2>2
  <2>4. deed.op = "write" /\ deed.path = p /\ deed.content = c
    BY <1>7, <2>3
  <2> QED BY <2>1, <2>2, <2>4
<1>10. ASSUME NEW k \in 1 .. 2 * n
       PROVE  deeds[k].op \in {"mkdir", "write"}
  <2>1. CASE deeds[k] = MkdirAll("skip")
    BY <1>8, <2>1
  <2>2. CASE \E j \in 1 .. n : k = 2 * j
    BY <1>9, <2>2
  <2> QED BY <1>5, <2>1, <2>2
<1>11. \A deed \in ToSet(deeds) : deed.op \in {"mkdir", "write"}
  BY <1>2, <1>10 DEF ToSet
<1>12. ASSUME list # <<>>
       PROVE  \E deed \in ToSet(deeds) : deed.op = "write"
  <2>1. 1 \in 1 .. n
    <3>1. \A S : \A q \in Seq(S) : q # <<>> => Len(q) >= 1
      OBVIOUS
    <3>2. n >= 1
      BY <1>12, <3>1 DEF Listed, n
    <3> QED BY <1>1, <3>2
  <2>2. deeds[2 * 1].op = "write" /\ 2 * 1 \in DOMAIN deeds
    BY <1>2, <1>3, <1>9, <2>1
  <2> QED BY <2>2 DEF ToSet
<1>13. ASSUME NEW i \in DOMAIN list
       PROVE  LET path == Dropin(list[i])
              IN  LastWrite(deeds, path, LastFor(list, path, Dropin).content)
  <2> DEFINE path == Dropin(list[i])
             S == {j \in DOMAIN list : Dropin(list[j]) = path}
             last == Max(S)
  <2>1. i \in S /\ S \subseteq 1 .. n
    BY <1>1
  <2>2. last \in S /\ \A j \in S : j <= last
    <3> HIDE DEF S
    <3> QED BY <1>1, <2>1, MaxPlace
  <2>3. LastFor(list, path, Dropin) = list[last]
    BY DEF LastFor
  <2>4. last \in 1 .. n /\ Dropin(list[last]) = path
    BY <1>1, <2>2
  <2>5. \A j \in 1 .. n : j > last => Dropin(list[j]) # path
    <3> SUFFICES ASSUME NEW j \in 1 .. n, j > last, Dropin(list[j]) = path
                 PROVE  FALSE
      OBVIOUS
    <3>1. j \in S
      BY <1>1
    <3>2. j <= last
      BY <2>2, <3>1
    <3> QED BY <2>4, <3>2
  <2> HIDE DEF last, S, path
  <2>6. WritesTo(deeds[2 * last], path) /\ deeds[2 * last].content = list[last].content
    BY <1>9, <2>4 DEF WritesTo
  <2>7. \A k \in 1 .. 2 * n : k > 2 * last => ~ WritesTo(deeds[k], path)
    <3> SUFFICES ASSUME NEW k \in 1 .. 2 * n, k > 2 * last, deeds[k] # MkdirAll("skip")
                 PROVE  ~ WritesTo(deeds[k], path)
      BY <1>8 DEF WritesTo
    <3>1. PICK j \in 1 .. n : k = 2 * j
      BY <1>5
    <3>2. j > last
      BY <1>1, <2>4, <3>1
    <3>3. deeds[k].path = Dropin(list[j])
      BY <1>9, <3>1
    <3> QED BY <2>5, <3>2, <3>3 DEF WritesTo
  <2>8. 2 * last \in DOMAIN deeds
    BY <1>2, <1>3, <2>4
  <2>9. LastWrite(deeds, path, list[last].content)
    BY <1>2, <2>6, <2>7, <2>8 DEF LastWrite
  <2> QED BY <2>3, <2>9 DEF path
<1> QED BY <1>6, <1>11, <1>12, <1>13

ReloadDeed == RunIfWritten(<<"daemon-reload">>)

\* systemctl,
LEMMA SystemctlCalled ==
  ASSUME NEW s, Stage(s), NEW f, NEW m
  PROVE  UnitsComing(s, m, systemctl(s)) /\ OverridesComing(s, f, m, FALSE, systemctl(s))
<1> DEFINE asked == s.systemctl
           e == run_list(asked.enable, "enable")
           d == run_list(asked.disable, "disable")
           k == run_list(asked.mask, "mask")
           t == run_list(asked.start, "start")
           w == write_overrides(Overrides(s))
           r == <<ReloadDeed>>
           ed == e \o d
           edk == ed \o k
           edkt == edk \o t
           most == edkt \o w
           deeds == most \o r
           first == Units("enable")
           second == Units("disable")
<1>1. systemctl(s) = deeds
  BY DEF systemctl, ReloadDeed
<1>2. /\ asked.enable \in Seq(STRING) /\ asked.disable \in Seq(STRING)
      /\ asked.mask \in Seq(STRING) /\ asked.start \in Seq(STRING)
      /\ asked.overrides \in Seq([service : STRING, name : STRING, content : Seq(STRING)])
  BY DEF Stage
<1>3. /\ ToSet(asked.enable) \subseteq STRING /\ ToSet(asked.disable) \subseteq STRING
      /\ ToSet(asked.mask) \subseteq STRING /\ ToSet(asked.start) \subseteq STRING
  BY <1>2 DEF ToSet
<1>4. Listed(Overrides(s))
  <2> DEFINE all == asked.overrides
             places == {i \in DOMAIN all : all[i].service # "" /\ all[i].content # <<>>}
  <2>1. Overrides(s) = Subsequence(all, places) /\ places \subseteq DOMAIN all
    BY DEF Overrides, Those
  <2> HIDE DEF places
  <2> QED BY <1>2, <2>1, ThoseElements DEF Listed
<1>5. /\ Listed(e) /\ ToSet(e) = {Unit("enable", u) : u \in ToSet(asked.enable)}
      /\ Listed(d) /\ ToSet(d) = {Unit("disable", u) : u \in ToSet(asked.disable)}
      /\ Listed(k) /\ ToSet(k) = {Unit("mask", u) : u \in ToSet(asked.mask)}
      /\ Listed(t) /\ ToSet(t) = {Unit("start", u) : u \in ToSet(asked.start)}
  <2> HIDE DEF asked
  <2> QED BY <1>2, UnitList
<1>6. /\ Listed(w)
      /\ \A i \in DOMAIN Overrides(s) :
           LET path == Dropin(Overrides(s)[i])
           IN  LastWrite(w, path, LastFor(Overrides(s), path, Dropin).content)
      /\ \A deed \in ToSet(w) : deed.op \in {"mkdir", "write"}
      /\ Overrides(s) # <<>> => \E deed \in ToSet(w) : deed.op = "write"
  BY <1>4, OverrideWrites
<1>7. Listed(r) /\ ToSet(r) = {ReloadDeed}
  <2>1. \A x : Listed(<<x>>) /\ ToSet(<<x>>) = {x}
    <3>1. \A x : <<x>> \in Seq({x})
      OBVIOUS
    <3>2. \A x : Listed(<<x>>)
      BY <3>1 DEF Listed
    <3>3. \A x : ToSet(<<x>>) = {x}
      BY DEF ToSet
    <3> QED BY <3>2, <3>3
  <2> QED BY <2>1
<1>8. ReloadDeed.op = "run if written"
  BY DEF ReloadDeed, RunIfWritten
<1> HIDE DEF e, d, k, t, w, r
<1>9. Listed(ed) /\ ToSet(ed) = ToSet(e) \cup ToSet(d)
  BY <1>5, JoinedParts, JoinedElements
<1> HIDE DEF ed
<1>10. Listed(edk) /\ ToSet(edk) = ToSet(ed) \cup ToSet(k)
  BY <1>5, <1>9, JoinedParts, JoinedElements
<1> HIDE DEF edk
<1>11. Listed(edkt) /\ ToSet(edkt) = ToSet(edk) \cup ToSet(t)
  BY <1>5, <1>10, JoinedParts, JoinedElements
<1> HIDE DEF edkt
<1>12. Listed(most) /\ ToSet(most) = ToSet(edkt) \cup ToSet(w)
  BY <1>6, <1>11, JoinedParts, JoinedElements
<1> HIDE DEF most
<1>13. Listed(deeds) /\ ToSet(deeds) = ToSet(most) \cup ToSet(r)
  BY <1>7, <1>12, JoinedParts, JoinedElements
<1> HIDE DEF deeds
<1>14. /\ \A verb, u : Unit(verb, u).op = "run"
       /\ \A verb, u, v, x : Unit(verb, u) = Unit(v, x) => verb = v /\ u = x
  <2>1. \A verb, u : Unit(verb, u).op = "run" /\ Unit(verb, u).command = <<verb, u>>
    BY DEF Unit, Run
  <2>2. \A verb, u : <<verb, u>>[1] = verb /\ <<verb, u>>[2] = u
    OBVIOUS
  <2>3. \A verb, u : Unit(verb, u).command[1] = verb /\ Unit(verb, u).command[2] = u
    BY <2>1, <2>2
  <2> HIDE DEF Unit
  <2>4. ASSUME NEW verb, NEW u, NEW v, NEW x, Unit(verb, u) = Unit(v, x)
        PROVE  verb = v /\ u = x
    <3>1. Unit(verb, u).command[1] = Unit(v, x).command[1] /\ Unit(verb, u).command[2] = Unit(v, x).command[2]
      BY <2>4
    <3> QED BY <2>3, <3>1
  <2> QED BY <2>1, <2>4
<1>15. /\ ToSet(e) \subseteq ToSet(deeds) /\ ToSet(d) \subseteq ToSet(deeds)
       /\ ToSet(k) \subseteq ToSet(deeds) /\ ToSet(t) \subseteq ToSet(deeds)
       /\ ToSet(w) \subseteq ToSet(deeds)
  BY <1>9, <1>10, <1>11, <1>12, <1>13
<1>16. \A deed \in ToSet(deeds) :
         \/ deed \in ToSet(e) \/ deed \in ToSet(d) \/ deed \in ToSet(k) \/ deed \in ToSet(t)
         \/ deed.op # "run"
  <2>1. \A deed \in ToSet(w) : deed.op # "run"
    BY <1>6
  <2>2. \A deed \in ToSet(r) : deed.op # "run"
    BY <1>7, <1>8
  <2> QED BY <1>9, <1>10, <1>11, <1>12, <1>13, <2>1, <2>2
<1>17. \A u : Unit("disable", u) \in ToSet(deeds) => u \in ToSet(asked.disable)
  <2> SUFFICES ASSUME NEW u, Unit("disable", u) \in ToSet(deeds)
               PROVE  u \in ToSet(asked.disable)
    OBVIOUS
  <2> PICK deed : deed = Unit("disable", u)
    OBVIOUS
  <2>1. deed.op = "run" /\ deed \in ToSet(deeds)
    BY <1>14
  <2>2. deed \notin ToSet(e) /\ deed \notin ToSet(k) /\ deed \notin ToSet(t)
    BY <1>5, <1>14
  <2>3. deed \in ToSet(d)
    BY <1>16, <2>1, <2>2
  <2> QED BY <1>5, <1>14, <2>3
<1>18. \A deed \in ToSet(deeds) :
         deed.op = "run" => \E verb : \E unit \in STRING : deed = Unit(verb, unit)
  <2>1. \A verb \in STRING, unit \in STRING : \E v, x \in STRING : Unit(verb, unit) = Unit(v, x)
    OBVIOUS
  <2>2. \A deed \in ToSet(e) : \E verb : \E unit \in STRING : deed = Unit(verb, unit)
    BY <1>3, <1>5
  <2>3. \A deed \in ToSet(d) : \E verb : \E unit \in STRING : deed = Unit(verb, unit)
    BY <1>3, <1>5
  <2>4. \A deed \in ToSet(k) : \E verb : \E unit \in STRING : deed = Unit(verb, unit)
    BY <1>3, <1>5
  <2>5. \A deed \in ToSet(t) : \E verb : \E unit \in STRING : deed = Unit(verb, unit)
    BY <1>3, <1>5
  <2> QED BY <1>16, <2>2, <2>3, <2>4, <2>5
<1>19. Before(deeds, first, second)
  <2>1. /\ ToSet(e) \cap second = {} /\ ToSet(d) \cap first = {} /\ ToSet(k) \cap first = {}
        /\ ToSet(t) \cap first = {}
    BY <1>5, <1>14 DEF Units
  <2>2. ToSet(w) \cap first = {} /\ ToSet(r) \cap first = {}
    <3>1. \A deed \in first : deed.op = "run"
      BY <1>14 DEF Units
    <3>2. \A deed \in ToSet(w) : deed.op # "run"
      BY <1>6
    <3>3. \A deed \in ToSet(r) : deed.op # "run"
      BY <1>7, <1>8
    <3> HIDE DEF first
    <3> QED BY <3>1, <3>2, <3>3
  <2>3. ASSUME NEW x, ToSet(x) \cap first = {} \/ ToSet(x) \cap second = {}
        PROVE  Before(x, first, second)
    BY <2>3 DEF Before, ToSet
  <2> HIDE DEF first, second
  <2>4. /\ Before(e, first, second) /\ Before(d, first, second) /\ Before(k, first, second)
        /\ Before(t, first, second) /\ Before(w, first, second) /\ Before(r, first, second)
    BY <2>1, <2>2, <2>3
  <2>5. Before(ed, first, second)
    BY <1>5, <2>1, <2>4, BeforeJoined DEF ed
  <2>6. Before(edk, first, second)
    BY <1>5, <1>9, <2>1, <2>4, <2>5, BeforeJoined DEF edk
  <2>7. Before(edkt, first, second)
    BY <1>5, <1>10, <2>1, <2>4, <2>6, BeforeJoined DEF edkt
  <2>8. Before(most, first, second)
    BY <1>6, <1>11, <2>2, <2>4, <2>7, BeforeJoined DEF most
  <2> QED BY <1>7, <1>12, <2>2, <2>4, <2>8, BeforeJoined DEF deeds
<1>20. UnitsComing(s, m, deeds)
  <2>1. /\ \A u \in ToSet(asked.enable) : Unit("enable", u) \in ToSet(deeds)
        /\ \A u \in ToSet(asked.disable) : Unit("disable", u) \in ToSet(deeds)
        /\ \A u \in ToSet(asked.mask) : Unit("mask", u) \in ToSet(deeds)
        /\ \A u \in ToSet(asked.start) : Unit("start", u) \in ToSet(deeds)
    BY <1>5, <1>15
  <2> QED BY <1>17, <1>18, <1>19, <2>1 DEF UnitsComing
<1>21. deeds # <<>> /\ \A i \in DOMAIN deeds : deeds[i].op = "run if written" <=> i = Len(deeds)
  <2> DEFINE n == Len(most)
  <2>1. Len(r) = 1 /\ r[1] = ReloadDeed
    BY DEF r
  <2>2. /\ n \in Nat /\ DOMAIN most = 1 .. n /\ DOMAIN deeds = 1 .. n + 1
        /\ \A i \in 1 .. n : deeds[i] = most[i]
        /\ DOMAIN r = 1 .. 1 /\ \A i \in DOMAIN r : deeds[n + i] = r[i]
    <3>1. /\ Len(most) \in Nat /\ DOMAIN most = 1 .. Len(most)
          /\ DOMAIN deeds = 1 .. Len(most) + Len(r)
          /\ \A i \in DOMAIN most : deeds[i] = most[i]
          /\ DOMAIN r = 1 .. Len(r) /\ \A i \in DOMAIN r : deeds[Len(most) + i] = r[i]
      BY <1>7, <1>12, JoinedParts DEF deeds
    <3> QED BY <2>1, <3>1
  <2>3. Len(deeds) \in Nat /\ DOMAIN deeds = 1 .. Len(deeds)
    BY <1>13 DEF Listed
  <2> HIDE DEF n
  <2>4. Len(deeds) = n + 1
    BY <2>2, <2>3
  <2>5. deeds[n + 1] = ReloadDeed
    BY <2>1, <2>2
  <2>6. \A deed \in ToSet(most) : deed.op # "run if written"
    <3>1. \A deed \in ToSet(w) : deed.op # "run if written"
      BY <1>6
    <3>2. \A deed : deed \in ToSet(e) \/ deed \in ToSet(d) \/ deed \in ToSet(k) \/ deed \in ToSet(t)
                   => deed.op = "run"
      BY <1>5, <1>14
    <3> QED BY <1>9, <1>10, <1>11, <1>12, <3>1, <3>2
  <2>7. \A i \in 1 .. n : deeds[i].op # "run if written"
    <3>1. \A i \in 1 .. n : most[i] \in ToSet(most)
      BY <2>2 DEF ToSet
    <3> QED BY <2>2, <2>6, <3>1
  <2>8. \A i \in 1 .. n + 1 : i \in 1 .. n \/ i = n + 1
    BY <2>2
  <2>9. \A i \in 1 .. n : i # n + 1
    BY <2>2
  <2>10. deeds # <<>>
    BY <2>2, <2>3, <2>4
  <2> QED BY <1>8, <2>2, <2>4, <2>5, <2>7, <2>8, <2>9, <2>10
<1>22. OverridesComing(s, f, m, FALSE, deeds)
  <2>1. \A path : NoWrite(r, path)
    BY <1>7, <1>8 DEF NoWrite, WritesTo, ToSet
  <2>2. ASSUME NEW path, NEW content, LastWrite(w, path, content)
        PROVE  LastWrite(deeds, path, content)
    <3>1. LastWrite(most, path, content)
      BY <1>6, <1>11, <2>2, JoinedWrites DEF most
    <3> QED BY <1>7, <1>12, <2>1, <3>1, JoinedWrites DEF deeds
  <2>3. \A i \in DOMAIN Overrides(s) :
          LET path == Dropin(Overrides(s)[i])
              content == LastFor(Overrides(s), path, Dropin).content
          IN  Comes(f, deeds, path, content)
    BY <1>6, <2>2 DEF Comes
  <2>4. Overrides(s) # <<>> => \E deed \in ToSet(deeds) : deed.op = "write"
    BY <1>6, <1>15
  <2> QED BY <1>21, <2>3, <2>4 DEF OverridesComing
<1> QED BY <1>1, <1>20, <1>22

\* Lists of one and of two.
LEMMA Single ==
  \A x : /\ Listed(<<x>>) /\ DOMAIN <<x>> = 1 .. 1 /\ <<x>>[1] = x /\ ToSet(<<x>>) = {x}
        /\ \A y : <<x, y>> = <<x>> \o <<y>>
<1>1. \A x : Listed(<<x>>)
  <2>1. \A x : <<x>> \in Seq({x})
    OBVIOUS
  <2> QED BY <2>1 DEF Listed
<1>2. \A x : DOMAIN <<x>> = 1 .. 1 /\ <<x>>[1] = x
  OBVIOUS
<1>3. \A x : ToSet(<<x>>) = {x}
  BY DEF ToSet
<1>4. ASSUME NEW x, NEW y
      PROVE  <<x, y>> = <<x>> \o <<y>>
  <2> PICK S : S = {x, y}
    OBVIOUS
  <2> PICK s, t, u : s = <<x>> /\ t = s \o <<y>> /\ u = <<x, y>>
    OBVIOUS
  <2>1. s \in Seq(S) /\ Len(s) = 1 /\ s[1] = x /\ <<y>> \in Seq(S)
    OBVIOUS
  <2>2. t \in Seq(S) /\ Len(t) = 2 /\ t[1] = s[1] /\ t[2] = y
    BY <2>1
  <2>3. u \in Seq(S) /\ Len(u) = 2 /\ u[1] = x /\ u[2] = y
    OBVIOUS
  <2>4. \A i \in 1 .. 2 : i = 1 \/ i = 2
    OBVIOUS
  <2>5. \A i \in 1 .. 2 : t[i] = u[i]
    BY <2>1, <2>2, <2>3, <2>4
  <2>6. t = [i \in 1 .. 2 |-> t[i]] /\ u = [i \in 1 .. 2 |-> u[i]]
    BY <2>2, <2>3
  <2>7. t = u
    <3> HIDE <2>1, <2>2, <2>3
    <3> QED BY <2>5, <2>6
  <2> QED BY <2>7
<1> QED BY <1>1, <1>2, <1>3, <1>4

\* One deed that does not write the path.
LEMMA SingleWrites ==
  \A x, path : ~ WritesTo(x, path) => NoWrite(<<x>>, path)
BY Single DEF NoWrite

\* A wanted element of a sequence is there.
AllIn(sub, seq, places) == \A i \in places : \E k \in DOMAIN sub : sub[k] = seq[i]

\* A subsequence has all the elements at its places.
LEMMA ThoseAll ==
  ASSUME NEW S, NEW seq \in Seq(S), NEW places, places \subseteq DOMAIN seq,
         NEW sub, sub = Subsequence(seq, places)
  PROVE  /\ sub \in Seq(S) /\ Len(sub) \in Nat /\ DOMAIN sub = 1 .. Len(sub)
         /\ AllIn(sub, seq, places)
<1>1. /\ sub \in Seq(S) /\ DOMAIN sub = 1 .. Len(sub)
      /\ \A k \in DOMAIN sub : sub[k] = seq[Place(places, k)]
      /\ \A i \in places : \E k \in DOMAIN sub : Place(places, k) = i
  BY SubsequenceElements
<1>2. Len(sub) \in Nat
  BY <1>1
<1> QED BY <1>1, <1>2 DEF AllIn

\* A path that is written with one content only.
LEMMA SameWrites ==
  ASSUME NEW deeds, NEW n \in Nat, DOMAIN deeds = 1 .. n, NEW path, NEW content,
         \E i \in 1 .. n : WritesTo(deeds[i], path),
         \A i \in 1 .. n : WritesTo(deeds[i], path) => deeds[i].content = content
  PROVE  LastWrite(deeds, path, content)
<1> DEFINE S == {i \in 1 .. n : WritesTo(deeds[i], path)}
           last == Max(S)
<1>1. S \subseteq 1 .. n /\ S # {}
  OBVIOUS
<1>2. last \in S /\ \A j \in S : j <= last
  <2> HIDE DEF S
  <2> QED BY <1>1, MaxPlace
<1>3. last \in 1 .. n /\ WritesTo(deeds[last], path) /\ deeds[last].content = content
  BY <1>2
<1>4. \A j \in 1 .. n : j > last => ~ WritesTo(deeds[j], path)
  <2> SUFFICES ASSUME NEW j \in 1 .. n, j > last, WritesTo(deeds[j], path)
               PROVE  FALSE
    OBVIOUS
  <2>1. j \in S
    OBVIOUS
  <2>2. j <= last
    BY <1>2, <2>1
  <2> QED BY <1>3, <2>2
<1> HIDE DEF last, S
<1> QED BY <1>3, <1>4 DEF LastWrite

\* Writes to one path after the other.
WritesTill(n, path, content) == [k \in 1 .. n |-> Write(path[k], content[k], "next")]

\* Of writes to several paths, what one path gets.
LEMMA WritesOf ==
  ASSUME NEW n \in Nat, NEW path, NEW content, NEW q, NEW c
  PROVE  /\ (\E k \in 1 .. n : path[k] = q) /\ (\A k \in 1 .. n : path[k] = q => content[k] = c)
              => LastWrite(WritesTill(n, path, content), q, c)
         /\ (\A k \in 1 .. n : path[k] # q) => NoWrite(WritesTill(n, path, content), q)
<1> DEFINE list == WritesTill(n, path, content)
<1>1. DOMAIN list = 1 .. n /\ \A k \in 1 .. n : list[k] = Write(path[k], content[k], "next")
  BY DEF WritesTill
<1> HIDE DEF list
<1>2. ASSUME NEW k \in 1 .. n
      PROVE  list[k].op = "write" /\ list[k].path = path[k] /\ list[k].content = content[k]
  <2> PICK a, b, deed : a = path[k] /\ b = content[k] /\ deed = list[k]
    OBVIOUS
  <2>1. deed = Write(a, b, "next")
    BY <1>1
  <2>2. deed.op = "write" /\ deed.path = a /\ deed.content = b
    BY <2>1 DEF Write
  <2> QED BY <2>2
<1>3. \A k \in 1 .. n : WritesTo(list[k], q) <=> path[k] = q
  BY <1>2 DEF WritesTo
<1>4. ASSUME \E k \in 1 .. n : path[k] = q, \A k \in 1 .. n : path[k] = q => content[k] = c
      PROVE  LastWrite(list, q, c)
  <2>1. \E k \in 1 .. n : WritesTo(list[k], q)
    BY <1>3, <1>4
  <2>2. \A k \in 1 .. n : WritesTo(list[k], q) => list[k].content = c
    BY <1>2, <1>3, <1>4
  <2> QED BY <1>1, <2>1, <2>2, SameWrites
<1>5. (\A k \in 1 .. n : path[k] # q) => NoWrite(list, q)
  BY <1>1, <1>3 DEF NoWrite
<1> QED BY <1>4, <1>5 DEF list

\* The wanted keys of a map, each of them.
LEMMA VersionedAll ==
  ASSUME NEW pins, DOMAIN pins \subseteq ToSet(PackageOrder), NEW p \in DOMAIN pins, pins[p] # ""
  PROVE  /\ Len(Versioned(pins)) \in Nat /\ DOMAIN Versioned(pins) = 1 .. Len(Versioned(pins))
         /\ \E i \in DOMAIN Versioned(pins) : Versioned(pins)[i] = p
<1> DEFINE sorted == Sorted(pins, PackageOrder)
           there == {i \in DOMAIN PackageOrder : PackageOrder[i] \in DOMAIN pins}
           places == {i \in DOMAIN sorted : pins[sorted[i]] # ""}
           names == Versioned(pins)
<1>1. PackageOrder \in Seq(STRING)
  BY ChainAssumption
<1>2. sorted = Subsequence(PackageOrder, there) /\ there \subseteq DOMAIN PackageOrder
  BY DEF Sorted, Those
<1>3. PICK j \in DOMAIN PackageOrder : PackageOrder[j] = p
  BY DEF ToSet
<1>4. j \in there
  BY <1>3
<1>5. names = Subsequence(sorted, places) /\ places \subseteq DOMAIN sorted
  BY DEF Versioned, Those
<1> HIDE DEF sorted, there, names
<1>6. sorted \in Seq(STRING) /\ \E k \in DOMAIN sorted : sorted[k] = p
  <2>1. sorted \in Seq(STRING) /\ AllIn(sorted, PackageOrder, there)
    BY <1>1, <1>2, ThoseAll
  <2> QED BY <1>3, <1>4, <2>1 DEF AllIn
<1>7. PICK k \in DOMAIN sorted : sorted[k] = p
  BY <1>6
<1>8. k \in places
  BY <1>7
<1> HIDE DEF places
<1>9. /\ Len(names) \in Nat /\ DOMAIN names = 1 .. Len(names)
      /\ \E i \in DOMAIN names : names[i] = p
  <2>1. /\ Len(names) \in Nat /\ DOMAIN names = 1 .. Len(names)
        /\ AllIn(names, sorted, places)
    BY <1>5, <1>6, ThoseAll
  <2> QED BY <1>7, <1>8, <2>1 DEF AllIn
<1> QED BY <1>9 DEF names

\* package_pins,
LEMMA PinsCalled ==
  ASSUME NEW s, Stage(s), NEW os, NEW f, NEW readable
  PROVE  PinsComing(s, match_id(os), f, package_pins(s, os, f, readable))
<1> DEFINE pins == s.package_pins
           pm == match_id(os)
           deeds == package_pins(s, os, f, readable)
           mkdir == MkdirAll("return")
           lock == update_dnf_conf_versionlock(f, readable)
<1> SUFFICES ASSUME NEW p \in {q \in DOMAIN pins : pins[q] # ""}
             PROVE  /\ pm = "apt" => Comes(f, deeds, PrefPath(p), <<pins[p]>>)
                    /\ pm = "dnf" => /\ Comes(f, deeds, ProtectedPath(p), <<p>>)
                                     /\ \E lines : Comes(f, deeds, DnfConf, lines) /\ "versionlock" \in lines
                    /\ pm = "apk" => \E world : /\ Comes(f, deeds, WorldPath, world)
                                                /\ {e \in world : e[1] = p} = {<<p, pins[p]>>}
  BY DEF PinsComing
<1>1. DOMAIN pins \subseteq ToSet(PackageOrder) /\ DOMAIN pins # {}
  BY DEF Stage
<1>2. /\ Len(Versioned(pins)) \in Nat /\ DOMAIN Versioned(pins) = 1 .. Len(Versioned(pins))
      /\ \E i \in DOMAIN Versioned(pins) : Versioned(pins)[i] = p
  BY <1>1, VersionedAll
<1>3. mkdir.op = "mkdir" /\ \A path : ~ WritesTo(mkdir, path)
  BY DEF MkdirAll, WritesTo
<1>4. \A path, content : /\ WritesTo(Write(path, content, "next"), path)
                         /\ Write(path, content, "next").content = content
                         /\ Write(path, content, "next").path = path
  BY DEF WritesTo, Write
<1>5. Listed(<<mkdir>>) /\ \A path : NoWrite(<<mkdir>>, path)
  <2> HIDE DEF mkdir
  <2> QED BY <1>3, Single, SingleWrites
<1>6. /\ Listed(Prefs(pins)) /\ LastWrite(Prefs(pins), PrefPath(p), <<pins[p]>>)
      /\ Listed(Protected(pins)) /\ LastWrite(Protected(pins), ProtectedPath(p), <<p>>)
      /\ NoWrite(Protected(pins), DnfConf)
  <2> DEFINE names == Versioned(pins)
             n == Len(names)
  <2>1. n \in Nat /\ DOMAIN names = 1 .. n
    BY <1>2
  <2>2. PICK i \in 1 .. n : names[i] = p
    BY <1>2
  <2>3. LastWrite(Prefs(pins), PrefPath(p), <<pins[p]>>)
    <3> DEFINE path == [k \in 1 .. n |-> PrefPath(names[k])]
               content == [k \in 1 .. n |-> <<pins[names[k]]>>]
    <3>1. Prefs(pins) = WritesTill(n, path, content)
      BY <2>1 DEF Prefs, ForEach, WritesTill
    <3>2. path[i] = PrefPath(p)
      BY <2>2
    <3>3. \A q : PrefPath(q) = PrefPath(p) => q = p
      BY DEF PrefPath
    <3>4. \A k \in 1 .. n : path[k] = PrefPath(p) => content[k] = <<pins[p]>>
      BY <3>3
    <3> HIDE DEF path, content, names, n
    <3> PICK q, c : q = PrefPath(p) /\ c = <<pins[p]>>
      OBVIOUS
    <3> HIDE DEF pins
    <3>5. (\E k \in 1 .. n : path[k] = q) /\ (\A k \in 1 .. n : path[k] = q => content[k] = c)
      BY <2>2, <3>2, <3>4
    <3>6. LastWrite(WritesTill(n, path, content), q, c)
      BY <2>1, <3>5, WritesOf
    <3> QED BY <3>1, <3>6
  <2>4. LastWrite(Protected(pins), ProtectedPath(p), <<p>>) /\ NoWrite(Protected(pins), DnfConf)
    <3> DEFINE path == [k \in 1 .. n |-> ProtectedPath(names[k])]
               content == [k \in 1 .. n |-> <<names[k]>>]
    <3>1. Protected(pins) = WritesTill(n, path, content)
      BY <2>1 DEF Protected, ForEach, WritesTill
    <3>2. path[i] = ProtectedPath(p)
      BY <2>2
    <3>3. \A q : ProtectedPath(q) = ProtectedPath(p) => q = p
      BY DEF ProtectedPath
    <3>4. \A k \in 1 .. n : path[k] = ProtectedPath(p) => content[k] = <<p>>
      BY <3>3
    <3>5. \A k \in 1 .. n : path[k] # DnfConf
      BY PathsApart
    <3> HIDE DEF path, content, names, n
    <3> PICK q, c : q = ProtectedPath(p) /\ c = <<p>>
      OBVIOUS
    <3> HIDE DEF pins
    <3>6. (\E k \in 1 .. n : path[k] = q) /\ (\A k \in 1 .. n : path[k] = q => content[k] = c)
      BY <2>2, <3>2, <3>4
    <3>7. LastWrite(WritesTill(n, path, content), q, c) /\ NoWrite(WritesTill(n, path, content), DnfConf)
      BY <2>1, <3>5, <3>6, WritesOf
    <3> QED BY <3>1, <3>7
  <2>5. Listed(Prefs(pins)) /\ Listed(Protected(pins))
    BY FinePrefs DEF Fine
  <2> QED BY <2>3, <2>4, <2>5
<1>7. ASSUME pm = "apt"
      PROVE  Comes(f, deeds, PrefPath(p), <<pins[p]>>)
  <2>1. deeds = <<mkdir>> \o Prefs(pins)
    BY <1>1, <1>7 DEF package_pins, apply_apt, Prefs
  <2> HIDE DEF deeds, mkdir, pins
  <2>2. LastWrite(deeds, PrefPath(p), <<pins[p]>>)
    BY <1>5, <1>6, <2>1, JoinedWrites
  <2> QED BY <2>2 DEF Comes
<1>8. ASSUME pm = "dnf"
      PROVE  /\ Comes(f, deeds, ProtectedPath(p), <<p>>)
             /\ \E lines : Comes(f, deeds, DnfConf, lines) /\ "versionlock" \in lines
  <2> DEFINE files1 == <<mkdir>> \o Protected(pins)
             existing == IF Exists(DnfConf, f) /\ readable THEN f[DnfConf] ELSE {}
             lines == {"versionlock"} \cup IF existing = {} THEN {"[main]"} ELSE existing
             w == Write(DnfConf, lines, "next")
  <2>1. deeds = files1 \o lock
    BY <1>1, <1>8 DEF package_pins, apply_dnf, Protected
  <2>2. \/ "versionlock" \in existing /\ lock = <<mkdir>>
        \/ lock = <<mkdir>> \o <<w>>
    <3>1. <<mkdir, w>> = <<mkdir>> \o <<w>>
      <4> HIDE DEF mkdir, w
      <4> QED BY Single
    <3> QED BY <3>1 DEF update_dnf_conf_versionlock
  <2>3. "versionlock" \in existing => Reads(f, DnfConf, existing)
    BY DEF Reads
  <2>4. "versionlock" \in lines
    OBVIOUS
  <2>5. w = Write(DnfConf, lines, "next")
    OBVIOUS
  <2>6. Listed(<<w>>) /\ LastWrite(<<w>>, DnfConf, lines) /\ NoWrite(<<w>>, ProtectedPath(p))
    <3> HIDE DEF w, lines
    <3>1. Listed(<<w>>)
      BY Single
    <3>2. LastWrite(<<w>>, DnfConf, lines)
      BY <2>5, OneWrite
    <3>3. ~ WritesTo(w, ProtectedPath(p))
      BY <1>4, <2>5, PathsApart DEF WritesTo
    <3> QED BY <3>1, <3>2, <3>3, SingleWrites
  <2> HIDE DEF deeds, mkdir, pins, w, lines, existing, lock
  <2>7. /\ Listed(files1) /\ LastWrite(files1, ProtectedPath(p), <<p>>)
        /\ NoWrite(files1, DnfConf)
    BY <1>5, <1>6, JoinedWrites, JoinedParts
  <2>8. /\ Listed(<<mkdir>> \o <<w>>) /\ LastWrite(<<mkdir>> \o <<w>>, DnfConf, lines)
        /\ NoWrite(<<mkdir>> \o <<w>>, ProtectedPath(p))
    BY <1>5, <2>6, JoinedWrites, JoinedParts
  <2>9. Listed(lock) /\ NoWrite(lock, ProtectedPath(p))
    BY <1>5, <2>2, <2>8
  <2> HIDE DEF files1
  <2>10. LastWrite(deeds, ProtectedPath(p), <<p>>)
    BY <2>1, <2>7, <2>9, JoinedWrites
  <2>11. CASE "versionlock" \in existing /\ lock = <<mkdir>>
    <3>1. NoWrite(deeds, DnfConf)
      BY <1>5, <2>1, <2>7, <2>9, <2>11, JoinedWrites
    <3> QED BY <2>3, <2>10, <2>11, <3>1 DEF Comes
  <2>12. CASE lock = <<mkdir>> \o <<w>>
    <3>1. LastWrite(deeds, DnfConf, lines)
      BY <2>1, <2>7, <2>8, <2>9, <2>12, JoinedWrites
    <3> QED BY <2>4, <2>10, <3>1 DEF Comes
  <2> QED BY <2>2, <2>11, <2>12
<1>9. ASSUME pm = "apk"
      PROVE  \E world : /\ Comes(f, deeds, WorldPath, world)
                        /\ {e \in world : e[1] = p} = {<<p, pins[p]>>}
  <2> DEFINE existing == IF Exists(WorldPath, f) /\ readable THEN f[WorldPath] ELSE {}
             world == WorldWith(pins, existing)
             w == Write(WorldPath, world, "next")
  <2>1. deeds = <<mkdir>> \o <<w>>
    <3>1. <<mkdir, w>> = <<mkdir>> \o <<w>>
      <4> HIDE DEF mkdir, w
      <4> QED BY Single
    <3> QED BY <1>1, <1>9, <3>1 DEF package_pins, apply_apk
  <2>2. {e \in world : e[1] = p} = {<<p, pins[p]>>}
    <3> HIDE DEF existing
    <3>1. \A q : <<q, pins[q]>>[1] = q
      OBVIOUS
    <3>2. <<p, pins[p]>> \in world
      BY DEF WorldWith
    <3>3. ASSUME NEW e \in world, e[1] = p
          PROVE  e = <<p, pins[p]>>
      <4>1. e \in {<<name, pins[name]>> : name \in {q \in DOMAIN pins : pins[q] # ""}}
        BY <3>3 DEF WorldWith
      <4> QED BY <3>1, <3>3, <4>1
    <3> HIDE DEF world
    <3> QED BY <3>1, <3>2, <3>3
  <2>3. w = Write(WorldPath, world, "next")
    OBVIOUS
  <2> HIDE DEF deeds, mkdir, w, world
  <2>4. Listed(<<w>>) /\ LastWrite(<<w>>, WorldPath, world)
    <3> QED BY <2>3, Single, OneWrite
  <2>5. LastWrite(deeds, WorldPath, world)
    BY <1>5, <2>1, <2>4, JoinedWrites
  <2> QED BY <2>2, <2>5 DEF Comes
<1> QED BY <1>7, <1>8, <1>9

\* packages,
LEMMA PackagesCalled ==
  ASSUME NEW s, Stage(s), NEW os, NEW m, NEW pinned
  PROVE  PackagesComing(s, match_id(os), pinned, m, packages(s, os))
<1> DEFINE asked == s.packages
           pm == match_id(os)
           refresh == Run(<<"refresh", pm>>, "next")
           upgrade == Run(<<"upgrade", pm>>, "next")
           install == InstallDeed(s, pm)
           remove == RemoveDeed(s, pm)
           a == IF asked.refresh THEN <<refresh>> ELSE <<>>
           b == IF asked.upgrade THEN <<upgrade>> ELSE <<>>
           c == IF asked.install # <<>> THEN <<install>> ELSE <<>>
           d == IF asked.remove # <<>> THEN <<remove>> ELSE <<>>
           ab == a \o b
           abc == ab \o c
           deeds == abc \o d
<1>1. packages(s, os) = IF pm = "none" /\ deeds # <<>> THEN <<Refuse>> ELSE deeds
  BY DEF packages, InstallDeed, RemoveDeed
<1>2. /\ refresh.op = "run" /\ refresh.command[1] = "refresh"
      /\ upgrade.op = "run" /\ upgrade.command[1] = "upgrade"
      /\ install.op = "run" /\ install.command[1] = "install"
      /\ remove.op = "run" /\ remove.command[1] = "remove"
  <2>1. \A command : Run(command, "next").op = "run" /\ Run(command, "next").command = command
    BY DEF Run
  <2>2. /\ <<"refresh", pm>>[1] = "refresh" /\ <<"upgrade", pm>>[1] = "upgrade"
        /\ <<"install", pm, asked.install>>[1] = "install"
        /\ <<"remove", pm, asked.remove>>[1] = "remove"
    OBVIOUS
  <2> QED BY <2>1, <2>2 DEF InstallDeed, RemoveDeed
<1>3. ToSet(asked.install) = {} \/ asked.install # <<>>
  BY NothingLeft
<1>4. ToSet(asked.remove) = {} \/ asked.remove # <<>>
  BY NothingLeft
<1>5. ToSet(<<Refuse>>) = {Refuse}
  BY Single
<1> HIDE DEF refresh, upgrade, install, remove
<1>6. /\ Listed(a) /\ ToSet(a) \subseteq {refresh}
      /\ Listed(b) /\ ToSet(b) \subseteq {upgrade}
      /\ Listed(c) /\ ToSet(c) = IF asked.install # <<>> THEN {install} ELSE {}
      /\ Listed(d) /\ ToSet(d) = IF asked.remove # <<>> THEN {remove} ELSE {}
  <2>1. Listed(<<>>)
    BY FineEmpty DEF Fine
  <2>2. \A x : Listed(<<x>>) /\ ToSet(<<x>>) = {x}
    BY Single
  <2>3. Listed(a) /\ ToSet(a) \subseteq {refresh}
    BY <2>1, <2>2, NothingLeft
  <2>4. Listed(b) /\ ToSet(b) \subseteq {upgrade}
    BY <2>1, <2>2, NothingLeft
  <2>5. Listed(c) /\ ToSet(c) = IF asked.install # <<>> THEN {install} ELSE {}
    BY <2>1, <2>2, NothingLeft
  <2>6. Listed(d) /\ ToSet(d) = IF asked.remove # <<>> THEN {remove} ELSE {}
    BY <2>1, <2>2, NothingLeft
  <2> QED BY <2>3, <2>4, <2>5, <2>6
<1> HIDE DEF a, b, c, d
<1>7. Listed(ab) /\ ToSet(ab) = ToSet(a) \cup ToSet(b)
  BY <1>6, JoinedParts, JoinedElements
<1> HIDE DEF ab
<1>8. Listed(abc) /\ ToSet(abc) = ToSet(ab) \cup ToSet(c)
  BY <1>6, <1>7, JoinedParts, JoinedElements
<1> HIDE DEF abc
<1>9. ToSet(deeds) = ToSet(abc) \cup ToSet(d)
  BY <1>6, <1>8, JoinedElements
<1>10. Before(deeds, {install}, {remove})
  <2>1. ASSUME NEW x, ToSet(x) \cap {remove} = {}
        PROVE  Before(x, {install}, {remove})
    BY <2>1 DEF Before, ToSet
  <2>2. ASSUME NEW x, ToSet(x) \cap {install} = {}
        PROVE  Before(x, {install}, {remove})
    BY <2>2 DEF Before, ToSet
  <2>3. ToSet(abc) \cap {remove} = {} /\ ToSet(d) \cap {install} = {}
    BY <1>2, <1>6, <1>7, <1>8
  <2>4. Before(abc, {install}, {remove}) /\ Before(d, {install}, {remove})
    BY <2>1, <2>2, <2>3
  <2> QED BY <1>6, <1>8, <2>3, <2>4, BeforeJoined
<1> HIDE DEF deeds
<1>11. ToSet(deeds) \subseteq {refresh, upgrade, install, remove}
  BY <1>6, <1>7, <1>8, <1>9
<1>12. /\ install \in ToSet(deeds) \/ ToSet(asked.install) = {}
       /\ remove \in ToSet(deeds) \/ ToSet(asked.remove) = {}
  BY <1>3, <1>4, <1>6, <1>8, <1>9
<1>13. \A deed \in ToSet(deeds) :
         /\ deed.op = "run" /\ deed.command[1] = "install" => deed = install
         /\ deed.op = "run" /\ deed.command[1] = "remove" => deed = remove
  BY <1>2, <1>11
<1>14. PackagesComing(s, pm, pinned, m, deeds)
  <2>1. install \in ToSet(deeds) \/ Versions(s, pm, pinned, m)
    BY <1>12 DEF Versions
  <2> HIDE DEF asked, pm
  <2>2. \/ remove \in ToSet(deeds)
        \/ /\ ToSet(s.packages.remove) \cap DOMAIN m.installed = {}
           /\ install \notin ToSet(deeds) \/ ToSet(s.packages.remove) = {}
    BY <1>12 DEF asked
  <2> QED BY <1>10, <1>13, <2>1, <2>2 DEF PackagesComing, install, remove
<1>15. PackagesComing(s, pm, pinned, m, <<Refuse>>)
  BY <1>5 DEF PackagesComing
<1> HIDE DEF asked, pm
<1>16. packages(s, os) = deeds \/ packages(s, os) = <<Refuse>>
  BY <1>1
<1> QED BY <1>14, <1>15, <1>16 DEF pm

\* and git, which clones, fetches or refuses.
LEMMA GitBrings ==
  ASSUME NEW s, NEW m, NEW backend
  PROVE  GitComing(s, backend, m, git(s, m.repo, backend))
<1> SUFFICES ASSUME s.git.url # "", backend = "shell"
             PROVE  \E deed \in ToSet(git(s, m.repo, backend)) :
                      \/ deed.op = "refuse"
                      \/ deed.op = "run" /\ deed.command[1] \in {"clone", "fetch only", "fetch"}
  BY DEF GitComing
<1> DEFINE g == s.git
           branch == effective_branch(g)
           deeds == git(s, m.repo, backend)
           Brings(deed) == \/ deed.op = "refuse"
                           \/ deed.op = "run" /\ deed.command[1] \in {"clone", "fetch only", "fetch"}
           Good(list) == Listed(list) /\ \E deed \in ToSet(list) : Brings(deed)
<1>1. /\ \A command : Run(command, "return").op = "run" /\ Run(command, "return").command = command
      /\ Refuse.op = "refuse"
  BY DEF Run, Refuse
<1>2. /\ \A x : <<"fetch", x>>[1] = "fetch"
      /\ \A x, y, z : <<"clone", x, y, z>>[1] = "clone"
  OBVIOUS
<1>3. /\ \A x : Brings(Run(<<"fetch", x>>, "return"))
      /\ \A x, y, z : Brings(Run(<<"clone", x, y, z>>, "return"))
      /\ Brings(Refuse)
  <2>1. ASSUME NEW command,
               Verb(command, "clone") \/ Verb(command, "fetch only") \/ Verb(command, "fetch")
        PROVE  Brings(Run(command, "return"))
    BY <1>1, <2>1 DEF Verb
  <2>2. Brings(Refuse)
    BY <1>1
  <2> HIDE DEF Brings
  <2>3. ASSUME NEW x
        PROVE  Brings(Run(<<"fetch", x>>, "return"))
    <3> PICK command : command = <<"fetch", x>>
      OBVIOUS
    <3>1. Verb(command, "fetch")
      BY <1>2 DEF Verb
    <3>2. Brings(Run(command, "return"))
      BY <2>1, <3>1
    <3> QED BY <3>2
  <2>4. ASSUME NEW x, NEW y, NEW z
        PROVE  Brings(Run(<<"clone", x, y, z>>, "return"))
    <3> PICK command : command = <<"clone", x, y, z>>
      OBVIOUS
    <3>1. Verb(command, "clone")
      BY <1>2 DEF Verb
    <3>2. Brings(Run(command, "return"))
      BY <2>1, <3>1
    <3> QED BY <3>2
  <2> QED BY <2>2, <2>3, <2>4
<1>4. \A deed : Brings(deed) => Good(<<deed>>)
  BY Single
<1> HIDE DEF Brings
<1>5. ASSUME NEW x, NEW y, Listed(x), Listed(y), Good(x) \/ Good(y)
      PROVE  Good(x \o y)
  <2>1. Listed(x \o y) /\ ToSet(x \o y) = ToSet(x) \cup ToSet(y)
    BY <1>5, JoinedParts, JoinedElements
  <2>2. PICK deed \in ToSet(x) \cup ToSet(y) : Brings(deed)
    BY <1>5
  <2> QED BY <2>1, <2>2
<1>6. /\ Listed(build_auth(g)) /\ Listed(<<MkdirAll("return")>>)
      /\ \A x : Listed(IF g.branch_only THEN <<x>> ELSE <<>>)
  <2>1. Listed(<<>>) /\ \A x : Listed(<<x>>)
    BY FineEmpty, Single DEF Fine
  <2> QED BY <2>1 DEF build_auth
<1> HIDE DEF Good, g, branch
<1>7. Good(clone_fresh(g, branch))
  BY <1>3, <1>4 DEF clone_fresh
<1>8. Good(update_existing(g, branch))
  <2> DEFINE a == Run(<<"fetch", branch>>, "return")
             b == Run(<<"reset", branch>>, "return")
             c == IF g.branch_only THEN <<Run(<<"checkout", branch>>, "return")>> ELSE <<>>
  <2>1. Good(<<a>>) /\ Listed(<<a>>) /\ Listed(<<b>>) /\ Listed(c)
    BY <1>3, <1>4, <1>6, Single
  <2>2. update_existing(g, branch) = <<a, b>> \o c
    BY DEF update_existing
  <2> HIDE DEF a, b, c
  <2>3. <<a, b>> = <<a>> \o <<b>>
    BY Single
  <2>4. Good(<<a, b>>) /\ Listed(<<a, b>>)
    <3>1. Good(<<a>> \o <<b>>)
      BY <1>5, <2>1
    <3>2. Listed(<<a>> \o <<b>>)
      BY <2>1, JoinedParts
    <3> QED BY <2>3, <3>1, <3>2
  <2> QED BY <1>5, <2>1, <2>2, <2>4
<1>9. Good(clone_or_pull(g, m.repo, backend)) /\ Listed(clone_or_pull(g, m.repo, backend))
  <2> DEFINE repo == m.repo
  <2> HIDE DEF repo
  <2>1. \E x : Good(x) /\ clone_or_pull(g, repo, backend) = build_auth(g) \o x
    <3>1. CASE repo.state = "none" /\ backend = "shell"
      <4>1. clone_or_pull(g, repo, backend) = build_auth(g) \o clone_fresh(g, branch)
        BY <3>1 DEF clone_or_pull, branch
      <4> QED BY <1>7, <4>1
    <3>2. CASE repo.state # "none" /\ backend = "shell"
      <4>1. clone_or_pull(g, repo, backend) = build_auth(g) \o update_existing(g, branch)
        BY <3>2 DEF clone_or_pull, branch
      <4> QED BY <1>8, <4>1
    <3> QED BY <3>1, <3>2
  <2>2. PICK x : Good(x) /\ clone_or_pull(g, repo, backend) = build_auth(g) \o x
    BY <2>1
  <2>3. Listed(x)
    BY <2>2 DEF Good
  <2>4. Good(build_auth(g) \o x) /\ Listed(build_auth(g) \o x)
    <3>1. Good(build_auth(g) \o x)
      BY <1>5, <1>6, <2>2, <2>3
    <3> QED BY <3>1 DEF Good
  <2> QED BY <2>2, <2>4 DEF repo
<1>10. git(s, m.repo, backend) = <<Refuse>>
       \/ git(s, m.repo, backend) = <<MkdirAll("return")>> \o clone_or_pull(g, m.repo, backend)
  BY DEF git, g
<1>11. Good(git(s, m.repo, backend))
  BY <1>3, <1>4, <1>5, <1>6, <1>9, <1>10
<1> QED BY <1>11 DEF Good, Brings

-----------------------------------------------------------------------------

\* What stage s asks of a plugin, as made up to now and as still coming.
Made(name, s, backend, pm, pinned, f, m) ==
  /\ name = "dns" => DnsSet(s, f)
  /\ name = "git" => (s.git.url # "" /\ backend = "shell" => m.repo.state = "whole")
  /\ name = "commands" => m.shell = s.commands
  /\ name = "hostname" => NameSet(s, f)
  /\ name = "sysctl" => SysctlsSet(s, f)
  /\ name = "modules" => ToSet(s.modules) \subseteq m.modules
  /\ name = "timesyncd" => (DOMAIN s.timesyncd # {} => Reads(f, TimesyncdPath, s.timesyncd))
  /\ name = "systemctl" => UnitsSet(s, f, m)
  /\ name = "environment" => VariablesSet(s, f)
  /\ name = "systemd_firstboot" => m.flags = FlagsOf(s)
  /\ name = "package_pins" => PinsSet(s, pm, f)
  /\ name = "packages" => PackagesSet(s, pm, pinned, m)

Coming(name, s, backend, pm, pinned, f, m, done, deeds) ==
  /\ name = "dns" => DnsComing(s, f, deeds)
  /\ name = "git" => GitComing(s, backend, m, deeds)
  /\ name = "commands" => ShellComing(s, m, deeds)
  /\ name = "hostname" => NameComing(s, f, deeds)
  /\ name = "sysctl" => SysctlComing(s, f, deeds)
  /\ name = "modules" => ModulesComing(s, m, deeds)
  /\ name = "timesyncd" => TimeComing(s, f, deeds)
  /\ name = "systemctl" => UnitsComing(s, m, deeds) /\ OverridesComing(s, f, m, done, deeds)
  /\ name = "environment" => VariablesComing(s, f, deeds)
  /\ name = "systemd_firstboot" => FlagsComing(s, m, deeds)
  /\ name = "package_pins" => PinsComing(s, pm, f, deeds)
  /\ name = "packages" => PackagesComing(s, pm, pinned, m, deeds)

\* What is made is what is asked of the plugins of the chain.
LEMMA MadeIsApplied ==
  ASSUME NEW k \in 1 .. 12,
         Made(Chain[k], stage, scenario.backend, match_id(scenario.os), "package_pins" \notin errs, files, machine)
  PROVE  Applied(Chain[k])
<1> DEFINE name == Chain[k]
<1>1. name \in {"dns", "git", "commands", "hostname", "sysctl", "modules", "timesyncd",
                "systemctl", "environment", "systemd_firstboot", "package_pins", "packages"}
  BY DEF Chain
<1> HIDE DEF name
<1>2. Made(name, stage, scenario.backend, match_id(scenario.os), "package_pins" \notin errs, files, machine)
  BY DEF name
<1>3. Applied(name)
  <2>1. CASE name = "dns"
    BY <1>2, <2>1 DEF Made, Applied
  <2>2. CASE name = "git"
    BY <1>2, <2>2 DEF Made, Applied
  <2>3. CASE name = "commands"
    BY <1>2, <2>3 DEF Made, Applied
  <2>4. CASE name = "hostname"
    BY <1>2, <2>4 DEF Made, Applied
  <2>5. CASE name = "sysctl"
    BY <1>2, <2>5 DEF Made, Applied
  <2>6. CASE name = "modules"
    BY <1>2, <2>6 DEF Made, Applied
  <2>7. CASE name = "timesyncd"
    BY <1>2, <2>7 DEF Made, Applied
  <2>8. CASE name = "systemctl"
    BY <1>2, <2>8 DEF Made, Applied
  <2>9. CASE name = "environment"
    BY <1>2, <2>9 DEF Made, Applied
  <2>10. CASE name = "systemd_firstboot"
    BY <1>2, <2>10 DEF Made, Applied
  <2>11. CASE name = "package_pins"
    BY <1>2, <2>11 DEF Made, Applied
  <2>12. CASE name = "packages"
    BY <1>2, <2>12 DEF Made, Applied
  <2> QED BY <1>1, <2>1, <2>2, <2>3, <2>4, <2>5, <2>6, <2>7, <2>8, <2>9, <2>10, <2>11, <2>12
<1> QED BY <1>3 DEF name

\* With nothing left to do, what was coming is made.
LEMMA ComingMade ==
  ASSUME NEW name, NEW s, Stage(s), NEW backend, NEW pm, NEW pinned, NEW f, NEW m, NEW done,
         Coming(name, s, backend, pm, pinned, f, m, done, <<>>)
  PROVE  Made(name, s, backend, pm, pinned, f, m)
BY FilesComeTrue, MachineComesTrue, DnsComesTrue DEF Coming, Made

\* A deed that works leaves the rest coming.
LEMMA ComingOn ==
  ASSUME NEW name, NEW s, Stage(s), NEW backend, NEW pm, NEW pinned, NEW deeds, Listed(deeds), deeds # <<>>,
         NEW g, NEW next, NEW done, Worked(Head(deeds), g, next, done), Proper(name, Head(deeds)),
         DOMAIN machine = Fields, DOMAIN machine.repo = RepoFields,
         name = "packages" /\ pinned => PinsSet(s, pm, files),
         Coming(name, s, backend, pm, pinned, files, machine, written, deeds)
  PROVE  Coming(name, s, backend, pm, pinned, g, next, done, Tail(deeds))
<1> DEFINE rest == Tail(deeds)
<1>1. {"shell", "modules", "flags", "loaded"} \subseteq DOMAIN machine
  BY DEF Fields
<1>2. /\ name = "dns" => DnsComing(s, g, rest)
      /\ name = "hostname" => NameComing(s, g, rest)
      /\ name = "sysctl" => SysctlComing(s, g, rest)
      /\ name = "timesyncd" => TimeComing(s, g, rest)
      /\ name = "environment" => VariablesComing(s, g, rest)
      /\ name = "package_pins" => PinsComing(s, pm, g, rest)
  BY FilesComeOn DEF Coming
<1>3. name = "git" => GitComing(s, backend, next, rest)
  BY GitComesOn DEF Coming
<1>4. name = "commands" => ShellComing(s, next, rest)
  BY <1>1, ShellComesOn DEF Coming
<1>5. name = "modules" => ModulesComing(s, next, rest)
  BY <1>1, ModulesComeOn DEF Coming
<1>6. name = "systemctl" => UnitsComing(s, next, rest) /\ OverridesComing(s, g, next, done, rest)
  BY <1>1, UnitsLeft, UnitsComeOn, OverridesComeOn DEF Coming
<1>7. name = "systemd_firstboot" => FlagsComing(s, next, rest)
  BY <1>1, FlagsComeOn DEF Coming
<1>8. name = "packages" => PackagesComing(s, pm, pinned, next, rest)
  BY PackagesComeOn DEF Coming
<1> QED BY <1>2, <1>3, <1>4, <1>5, <1>6, <1>7, <1>8 DEF Coming

\* A call sets out to do what its stage asks of the plugin.
LEMMA CalledComing ==
  ASSUME ChainInv, NEW k \in 1 .. 12, NEW readable, NEW pinned,
         k = 3 => machine.shell = <<>>, k = 10 => machine.flags = {}
  PROVE  Coming(Chain[k], stage, scenario.backend, match_id(scenario.os), pinned, files, machine, FALSE,
                Deeds(Chain[k], readable))
<1> DEFINE name == Chain[k]
           deeds == Deeds(name, readable)
<1>1. /\ name \in {"dns", "git", "commands", "hostname", "sysctl", "modules", "timesyncd",
                   "systemctl", "environment", "systemd_firstboot", "package_pins", "packages"}
      /\ name = "commands" => k = 3
      /\ name = "systemd_firstboot" => k = 10
  BY DEF Chain
<1>2. Stage(stage) /\ scenario.backend \in {"shell", "gix"}
  BY ChainAssumption, StageNow DEF stage
<1> HIDE DEF name
<1>3. /\ name = "dns" => deeds = dns(stage)
      /\ name = "git" => deeds = git(stage, machine.repo, scenario.backend)
      /\ name = "commands" => deeds = commands(stage)
      /\ name = "hostname" => deeds = hostname(stage, <<run>>)
      /\ name = "sysctl" => deeds = sysctl(stage)
      /\ name = "modules" => deeds = modules(stage)
      /\ name = "timesyncd" => deeds = timesyncd(stage)
      /\ name = "systemctl" => deeds = systemctl(stage)
      /\ name = "environment" => deeds = environment(stage, files, readable)
      /\ name = "systemd_firstboot" => deeds = systemd_firstboot(stage)
      /\ name = "package_pins" => deeds = package_pins(stage, scenario.os, files, readable)
      /\ name = "packages" => deeds = packages(stage, scenario.os)
  BY DEF Deeds
<1> HIDE DEF deeds
<1>4. /\ name = "dns" => DnsComing(stage, files, deeds)
      /\ name = "hostname" => NameComing(stage, files, deeds)
      /\ name = "timesyncd" => TimeComing(stage, files, deeds)
      /\ name = "environment" => VariablesComing(stage, files, deeds)
  BY <1>3, FilesCalled
<1>5. /\ name = "commands" => ShellComing(stage, machine, deeds)
      /\ name = "modules" => ModulesComing(stage, machine, deeds)
      /\ name = "systemd_firstboot" => FlagsComing(stage, machine, deeds)
  BY <1>1, <1>2, <1>3, CommandsCalled
<1>6. /\ name = "git" => GitComing(stage, scenario.backend, machine, deeds)
      /\ name = "sysctl" => SysctlComing(stage, files, deeds)
  BY <1>2, <1>3, GitBrings, SysctlCalled
<1>7. name = "systemctl" => /\ UnitsComing(stage, machine, deeds)
                            /\ OverridesComing(stage, files, machine, FALSE, deeds)
  BY <1>2, <1>3, SystemctlCalled
<1>8. /\ name = "package_pins" => PinsComing(stage, match_id(scenario.os), files, deeds)
      /\ name = "packages" => PackagesComing(stage, match_id(scenario.os), pinned, machine, deeds)
  BY <1>2, <1>3, PinsCalled, PackagesCalled
<1>9. Coming(name, stage, scenario.backend, match_id(scenario.os), pinned, files, machine, FALSE, deeds)
  BY <1>4, <1>5, <1>6, <1>7, <1>8 DEF Coming
<1> QED BY <1>9 DEF name, deeds

\* The files and the fields of the machine that the plugin's work is in; a file
\* that `environment` is to write too is not dns's.
Uses(name, s, path) ==
  Owns(name, path) /\ (name = "dns" => path = ResolvConf(s) /\ path # EnvFile(s))

FilesSame(name, s, f, g) ==
  \A path \in DOMAIN f : Uses(name, s, path) => path \in DOMAIN g /\ g[path] = f[path]

FieldsSame(name, m, next) ==
  /\ name = "git" => next.repo = m.repo
  /\ name = "commands" => next.shell = m.shell
  /\ name = "modules" => next.modules = m.modules
  /\ name = "systemctl" => /\ next.enabled = m.enabled /\ next.masked = m.masked
                           /\ next.started = m.started /\ next.loaded = m.loaded
  /\ name = "systemd_firstboot" => next.flags = m.flags
  /\ name = "packages" => next.installed = m.installed

\* What is made stays if they do.
LEMMA MadeStays ==
  ASSUME NEW name, NEW s, Stage(s), NEW backend, NEW pm, NEW pinned, NEW f, NEW g, NEW m, NEW next,
         FilesSame(name, s, f, g), FieldsSame(name, m, next), Made(name, s, backend, pm, pinned, f, m)
  PROVE  Made(name, s, backend, pm, pinned, g, next)
<1>1. \A path : /\ Uses(name, s, path) /\ Exists(path, f) => Exists(path, g) /\ g[path] = f[path]
                /\ \A content : Uses(name, s, path) /\ Reads(f, path, content) => Reads(g, path, content)
  BY DEF FilesSame, Exists, Reads
<1>2. ASSUME name = "dns"
      PROVE  DnsSet(s, g)
  <2>1. s.dns.path \in STRING
    BY DEF Stage
  <2>2. Owns(name, ResolvConf(s))
    BY <1>2, <2>1 DEF Owns, ResolvConf
  <2>3. DnsSet(s, f)
    BY <1>2 DEF Made
  <2>4. CASE s.dns.nameservers # <<>> /\ ResolvConf(s) # EnvFile(s)
    <3>1. Exists(ResolvConf(s), f)
      BY <2>3, <2>4 DEF DnsSet
    <3>2. Exists(ResolvConf(s), g) /\ g[ResolvConf(s)] = f[ResolvConf(s)]
      BY <1>1, <2>2, <2>4, <3>1 DEF Uses
    <3> QED BY <2>3, <3>2 DEF DnsSet
  <2>5. CASE ~ (s.dns.nameservers # <<>> /\ ResolvConf(s) # EnvFile(s))
    BY <2>5 DEF DnsSet
  <2> QED BY <2>4, <2>5
<1>3. ASSUME name = "hostname"
      PROVE  NameSet(s, g)
  <2>1. Uses(name, s, HostnamePath) /\ Uses(name, s, MachineIdPath)
    BY <1>3 DEF Owns, Uses
  <2>2. NameSet(s, f)
    BY <1>3 DEF Made
  <2> QED BY <1>1, <2>1, <2>2 DEF NameSet
<1>4. ASSUME name = "sysctl"
      PROVE  SysctlsSet(s, g)
  <2> DEFINE keys == Sorted(s.sysctl, SysctlOrder)
  <2>1. SysctlOrder \in Seq(Seq(STRING))
    BY ChainAssumption
  <2>2. keys \in Seq(Seq(STRING)) /\ DOMAIN keys = 1 .. Len(keys)
    BY <2>1, SortedElements
  <2>3. SysctlsSet(s, f)
    BY <1>4 DEF Made
  <2>4. ASSUME NEW i \in DOMAIN keys
        PROVE  /\ Reads(f, sysctl_path(keys[i]),
                        s.sysctl[LastFor(keys, sysctl_path(keys[i]), sysctl_path)])
               /\ Uses(name, s, sysctl_path(keys[i]))
    <3>1. Reads(f, sysctl_path(keys[i]), s.sysctl[LastFor(keys, sysctl_path(keys[i]), sysctl_path)])
      BY <2>3 DEF SysctlsSet
    <3>2. keys[i] \in Seq(STRING)
      BY <2>2
    <3> QED BY <1>4, <3>1, <3>2, SysctlOwned DEF Uses
  <2>5. ASSUME NEW i \in DOMAIN keys
        PROVE  Reads(g, sysctl_path(keys[i]),
                     s.sysctl[LastFor(keys, sysctl_path(keys[i]), sysctl_path)])
    BY <1>1, <2>4
  <2> QED BY <2>5 DEF SysctlsSet
<1>5. ASSUME name = "timesyncd", DOMAIN s.timesyncd # {}
      PROVE  Reads(g, TimesyncdPath, s.timesyncd)
  <2>1. Uses(name, s, TimesyncdPath)
    BY <1>5 DEF Owns, Uses
  <2> QED BY <1>1, <1>5, <2>1 DEF Made
<1>6. ASSUME name = "systemctl"
      PROVE  UnitsSet(s, g, next)
  <2>1. \A o : Uses(name, s, Dropin(o))
    BY <1>6 DEF Owns, Uses, Dropin
  <2>2. UnitsSet(s, f, m)
    BY <1>6 DEF Made
  <2>3. /\ next.enabled = m.enabled /\ next.masked = m.masked
        /\ next.started = m.started /\ next.loaded = m.loaded
    BY <1>6 DEF FieldsSame
  <2>4. ASSUME NEW i \in DOMAIN Overrides(s)
        PROVE  LET path == Dropin(Overrides(s)[i])
                   content == LastFor(Overrides(s), path, Dropin).content
               IN  Reads(g, path, content) /\ <<path, content>> \in next.loaded
    BY <1>1, <2>1, <2>2, <2>3 DEF UnitsSet
  <2> QED BY <2>2, <2>3, <2>4 DEF UnitsSet
<1>7. ASSUME name = "environment"
      PROVE  VariablesSet(s, g)
  <2>1. s.environment_file \in STRING
    BY DEF Stage
  <2>2. Uses(name, s, EnvFile(s))
    BY <1>7, <2>1 DEF Owns, Uses, EnvFile
  <2>3. VariablesSet(s, f)
    BY <1>7 DEF Made
  <2> QED BY <1>1, <2>2, <2>3 DEF VariablesSet
<1>8. ASSUME name = "package_pins"
      PROVE  PinsSet(s, pm, g)
  <2>1. ASSUME NEW p \in DOMAIN s.package_pins
        PROVE  Uses(name, s, PrefPath(p)) /\ Uses(name, s, ProtectedPath(p))
    <3>1. p \in STRING
      BY ChainAssumption DEF Stage, ToSet
    <3> QED BY <1>8, <3>1 DEF Owns, Uses
  <2>2. Uses(name, s, DnfConf) /\ Uses(name, s, WorldPath)
    BY <1>8 DEF Owns, Uses
  <2>3. PinsSet(s, pm, f)
    BY <1>8 DEF Made
  <2>4. ASSUME NEW p \in {q \in DOMAIN s.package_pins : s.package_pins[q] # ""}
        PROVE  /\ pm = "apt" => Reads(g, PrefPath(p), <<s.package_pins[p]>>)
               /\ pm = "dnf" => /\ Reads(g, ProtectedPath(p), <<p>>)
                                /\ Exists(DnfConf, g) /\ "versionlock" \in g[DnfConf]
               /\ pm = "apk" => /\ Exists(WorldPath, g)
                                /\ {e \in g[WorldPath] : e[1] = p} = {<<p, s.package_pins[p]>>}
    <3>1. pm = "apt" => Reads(g, PrefPath(p), <<s.package_pins[p]>>)
      BY <1>1, <2>1, <2>3 DEF PinsSet
    <3>2. pm = "dnf" => /\ Reads(g, ProtectedPath(p), <<p>>)
                        /\ Exists(DnfConf, g) /\ "versionlock" \in g[DnfConf]
      BY <1>1, <2>1, <2>2, <2>3 DEF PinsSet
    <3>3. ASSUME pm = "apk"
          PROVE  /\ Exists(WorldPath, g)
                 /\ {e \in g[WorldPath] : e[1] = p} = {<<p, s.package_pins[p]>>}
      <4>1. /\ Exists(WorldPath, f)
            /\ {e \in f[WorldPath] : e[1] = p} = {<<p, s.package_pins[p]>>}
        BY <2>3, <3>3 DEF PinsSet
      <4>2. Exists(WorldPath, g) /\ g[WorldPath] = f[WorldPath]
        BY <1>1, <2>2, <4>1
      <4> QED BY <4>1, <4>2
    <3> QED BY <3>1, <3>2, <3>3
  <2> QED BY <2>4 DEF PinsSet
<1>9. /\ name = "git" => (s.git.url # "" /\ backend = "shell" => next.repo.state = "whole")
      /\ name = "commands" => next.shell = s.commands
      /\ name = "modules" => ToSet(s.modules) \subseteq next.modules
      /\ name = "systemd_firstboot" => next.flags = FlagsOf(s)
  BY DEF FieldsSame, Made
<1>10. name = "packages" => PackagesSet(s, pm, pinned, next)
  BY DEF FieldsSame, Made, PackagesSet
<1> QED BY <1>2, <1>3, <1>4, <1>5, <1>6, <1>7, <1>8, <1>9, <1>10 DEF Made

\* What the paths of each plugin begin with.
LEMMA OwnerForm ==
  ASSUME NEW name, NEW path, Owns(name, path)
  PROVE  /\ name \in {"dns", "environment", "hostname", "sysctl", "timesyncd", "systemctl", "package_pins"}
         /\ name \in {"dns", "environment"} =>
              \/ Len(path) = 1
              \/ Len(path) = 2 /\ path[1] = "etc" /\ path[2] \in {"resolv.conf", "environment"}
         /\ name = "hostname" =>
              Len(path) = 2 /\ path[1] = "etc" /\ path[2] \in {"hostname", "machine-id"}
         /\ name = "sysctl" => Len(path) >= 2 /\ path[1] = "proc"
         /\ name = "timesyncd" => Len(path) = 2 /\ path[1] = "timesyncd.conf.d"
         /\ name = "systemctl" => Len(path) = 3 /\ path[1] = "systemd"
         /\ name = "package_pins" =>
              Len(path) = 2 /\ path[1] \in {"dnf", "apk", "preferences.d", "protected.d"}
<1>1. \A p : Len(<<p>>) = 1
  OBVIOUS
<1>2. \A a, b : Len(<<a, b>>) = 2 /\ <<a, b>>[1] = a /\ <<a, b>>[2] = b
  OBVIOUS
<1>3. \A a, b, c : Len(<<a, b, c>>) = 3 /\ <<a, b, c>>[1] = a
  OBVIOUS
<1> QED BY <1>1, <1>2, <1>3
        DEF Owns, DefaultResolvConf, DefaultEnvFile, HostnamePath, MachineIdPath, TimesyncdPath,
            DnfConf, WorldPath, PrefPath, ProtectedPath

\* Of two plugins only dns and environment may share a file.
LEMMA OwnersDiffer ==
  ASSUME NEW a, NEW b, a # b, NEW path, Owns(a, path), Owns(b, path)
  PROVE  a \in {"dns", "environment"} /\ b \in {"dns", "environment"}
<1> DEFINE Form(name) ==
             \/ /\ name \in {"dns", "environment"}
                /\ \/ Len(path) = 1
                   \/ path[1] = "etc" /\ path[2] \in {"resolv.conf", "environment"}
             \/ /\ name = "hostname" /\ Len(path) = 2
                /\ path[1] = "etc" /\ path[2] \in {"hostname", "machine-id"}
             \/ name = "sysctl" /\ Len(path) >= 2 /\ path[1] = "proc"
             \/ name = "timesyncd" /\ Len(path) = 2 /\ path[1] = "timesyncd.conf.d"
             \/ name = "systemctl" /\ Len(path) = 3 /\ path[1] = "systemd"
             \/ /\ name = "package_pins" /\ Len(path) = 2
                /\ path[1] \in {"dnf", "apk", "preferences.d", "protected.d"}
<1>1. Form(a)
  BY OwnerForm
<1>2. Form(b)
  BY OwnerForm
<1>3. CASE a \in {"dns", "environment"}
  <2>1. CASE Len(path) = 1
    BY <1>2, <1>3, <2>1
  <2>2. CASE path[1] = "etc" /\ path[2] \in {"resolv.conf", "environment"}
    BY <1>2, <1>3, <2>2
  <2> QED BY <1>1, <1>3, <2>1, <2>2
<1>4. CASE a = "hostname"
  BY <1>1, <1>2, <1>4
<1>5. CASE a = "sysctl"
  BY <1>1, <1>2, <1>5
<1>6. CASE a = "timesyncd"
  BY <1>1, <1>2, <1>6
<1>7. CASE a = "systemctl"
  BY <1>1, <1>2, <1>7
<1>8. CASE a = "package_pins"
  BY <1>1, <1>2, <1>8
<1> QED BY <1>1, <1>3, <1>4, <1>5, <1>6, <1>7, <1>8

\* A plugin's command leaves the others' fields.
LEMMA FieldsLeft ==
  ASSUME NEW name, NEW command,
         <<name, command[1]>> \in Commands \/ (name = "systemctl" /\ command = <<"daemon-reload">>),
         NEW next \in After(command), NEW other, other # name
  PROVE  FieldsSame(other, machine, next)
<1>1. Effect(command, next)
  BY AfterIsEffect
<1> DEFINE verb == command[1]
<1>2. ASSUME <<name, verb>> \in Commands
      PROVE  \/ name = "git" /\ (verb = "ssh key" \/ verb \in GitVerbs)
             \/ name = "commands" /\ verb = "shell"
             \/ name = "hostname" /\ verb = "sethostname"
             \/ name = "modules" /\ verb = "modprobe"
             \/ name = "systemctl" /\ verb \in {"enable", "disable", "mask", "start"}
             \/ name = "systemd_firstboot" /\ verb = "firstboot"
             \/ name = "packages" /\ verb \in {"refresh", "upgrade", "install", "remove"}
  <2> HIDE DEF verb
  <2> QED BY <1>2 DEF Commands, GitVerbs
<1>3. command = <<"daemon-reload">> => verb = "daemon-reload"
  OBVIOUS
<1>4. \/ next = machine
      \/ name = "hostname" /\ \E x : next = [machine EXCEPT !.hostname = x]
      \/ name = "git" /\ \E x : next = [machine EXCEPT !.key = x]
      \/ name = "git" /\ \E x : next = [machine EXCEPT !.repo = x]
      \/ name = "commands" /\ \E x : next = [machine EXCEPT !.shell = x]
      \/ name = "modules" /\ \E x : next = [machine EXCEPT !.modules = x]
      \/ name = "systemctl" /\ \E x : next = [machine EXCEPT !.enabled = x]
      \/ name = "systemctl" /\ \E x : next = [machine EXCEPT !.masked = x]
      \/ name = "systemctl" /\ \E x : next = [machine EXCEPT !.started = x]
      \/ name = "systemctl" /\ \E x : next = [machine EXCEPT !.loaded = x]
      \/ name = "systemd_firstboot" /\ \E x : next = [machine EXCEPT !.flags = x]
      \/ name = "packages" /\ \E x : next = [machine EXCEPT !.installed = x]
  BY <1>1, <1>2, <1>3 DEF Effect
<1>5. FieldsSame(other, machine, machine)
  BY DEF FieldsSame
<1> HIDE DEF verb
<1>6. ASSUME NEW x, name = "git", next = [machine EXCEPT !.repo = x]
      PROVE  FieldsSame(other, machine, next)
  BY <1>6 DEF FieldsSame
<1>7. ASSUME NEW x, name = "commands", next = [machine EXCEPT !.shell = x]
      PROVE  FieldsSame(other, machine, next)
  BY <1>7 DEF FieldsSame
<1>8. ASSUME NEW x, name = "modules", next = [machine EXCEPT !.modules = x]
      PROVE  FieldsSame(other, machine, next)
  BY <1>8 DEF FieldsSame
<1>9. ASSUME NEW x, name = "systemctl", next = [machine EXCEPT !.enabled = x]
      PROVE  FieldsSame(other, machine, next)
  BY <1>9 DEF FieldsSame
<1>10. ASSUME NEW x, name = "systemctl", next = [machine EXCEPT !.masked = x]
       PROVE  FieldsSame(other, machine, next)
  BY <1>10 DEF FieldsSame
<1>11. ASSUME NEW x, name = "systemctl", next = [machine EXCEPT !.started = x]
       PROVE  FieldsSame(other, machine, next)
  BY <1>11 DEF FieldsSame
<1>12. ASSUME NEW x, name = "systemctl", next = [machine EXCEPT !.loaded = x]
       PROVE  FieldsSame(other, machine, next)
  BY <1>12 DEF FieldsSame
<1>13. ASSUME NEW x, name = "systemd_firstboot", next = [machine EXCEPT !.flags = x]
       PROVE  FieldsSame(other, machine, next)
  BY <1>13 DEF FieldsSame
<1>14. ASSUME NEW x, name = "packages", next = [machine EXCEPT !.installed = x]
       PROVE  FieldsSame(other, machine, next)
  BY <1>14 DEF FieldsSame
<1>15. ASSUME NEW x, name = "hostname", next = [machine EXCEPT !.hostname = x]
       PROVE  FieldsSame(other, machine, next)
  BY <1>15 DEF FieldsSame
<1>16. ASSUME NEW x, name = "git", next = [machine EXCEPT !.key = x]
       PROVE  FieldsSame(other, machine, next)
  BY <1>16 DEF FieldsSame
<1> QED BY <1>4, <1>5, <1>6, <1>7, <1>8, <1>9, <1>10, <1>11, <1>12, <1>13, <1>14, <1>15, <1>16

-----------------------------------------------------------------------------

Pinned == "package_pins" \notin errs

MadeNow(i) == Made(Chain[i], stage, scenario.backend, match_id(scenario.os), Pinned, files, machine)

\* What the plugins before this one were asked for is made, if they have not
\* returned an error, and what this one is asked for is coming.
AppliedInv ==
  /\ DOMAIN machine.repo = RepoFields
  /\ pc \in {"chain", "deeds", "done"} =>
       \A i \in 1 .. 12 : i < plugin /\ Chain[i] \notin errs => MadeNow(i)
  /\ pc = "deeds" /\ Chain[plugin] \notin errs =>
       Coming(Chain[plugin], stage, scenario.backend, match_id(scenario.os), Pinned, files, machine, written, todo)
  /\ pc = "check" \/ (pc = "chain" /\ plugin <= 3) \/ (pc = "deeds" /\ plugin < 3) =>
       machine.shell = <<>>
  /\ pc = "check" \/ (pc = "chain" /\ plugin <= 10) \/ (pc = "deeds" /\ plugin < 10) =>
       machine.flags = {}
  /\ pc = "deeds" /\ plugin = 9 =>
       \A deed \in ToSet(todo) : deed.op = "write" => deed.path = EnvFile(stage)
  /\ pc = "check" => plugin = 1
  /\ pc = "done" => plugin = 13

\* The plugins of the chain are different ones,
LEMMA ChainPlaces ==
  ASSUME NEW i \in 1 .. 12
  PROVE  /\ Chain[i] \in {"dns", "git", "commands", "hostname", "sysctl", "modules", "timesyncd",
                          "systemctl", "environment", "systemd_firstboot", "package_pins", "packages"}
         /\ (Chain[i] = "dns") <=> (i = 1)
         /\ (Chain[i] = "git") <=> (i = 2)
         /\ (Chain[i] = "commands") <=> (i = 3)
         /\ (Chain[i] = "hostname") <=> (i = 4)
         /\ (Chain[i] = "sysctl") <=> (i = 5)
         /\ (Chain[i] = "modules") <=> (i = 6)
         /\ (Chain[i] = "timesyncd") <=> (i = 7)
         /\ (Chain[i] = "systemctl") <=> (i = 8)
         /\ (Chain[i] = "environment") <=> (i = 9)
         /\ (Chain[i] = "systemd_firstboot") <=> (i = 10)
         /\ (Chain[i] = "package_pins") <=> (i = 11)
         /\ (Chain[i] = "packages") <=> (i = 12)
BY DEF Chain

\* and only dns and environment share files.
LEMMA ChainOrder ==
  \A i, k \in 1 .. 12 : i < k =>
    /\ Chain[i] # Chain[k]
    /\ Chain[i] \in {"dns", "environment"} /\ Chain[k] \in {"dns", "environment"} =>
         Chain[i] = "dns" /\ k = 9
<1> SUFFICES ASSUME NEW i \in 1 .. 12, NEW k \in 1 .. 12, i < k
             PROVE  /\ Chain[i] # Chain[k]
                    /\ Chain[i] \in {"dns", "environment"} /\ Chain[k] \in {"dns", "environment"} =>
                         Chain[i] = "dns" /\ k = 9
  OBVIOUS
<1>1. i # k
  OBVIOUS
<1>2. Chain[i] # Chain[k]
  BY <1>1, ChainPlaces
<1>3. Chain[i] \in {"dns", "environment"} => i \in {1, 9}
  BY ChainPlaces
<1>4. Chain[k] \in {"dns", "environment"} => k \in {1, 9}
  BY ChainPlaces
<1> QED BY <1>2, <1>3, <1>4, ChainPlaces

\* Of two different places one comes first.
LEMMA PlacesOrdered ==
  /\ \A i, k \in 1 .. 12 : /\ i # k => i < k \/ k < i
                           /\ i < k => i # k /\ i # 12
  /\ \A k \in 1 .. 12 : (k < 3 => k # 3) /\ (k < 10 => k # 10)
  /\ 3 \in 1 .. 12 /\ 10 \in 1 .. 12
OBVIOUS

OthersIn(f, p, g) == \A path \in DOMAIN f : path # p => path \in DOMAIN g /\ g[path] = f[path]

\* A write leaves the other files.
LEMMA PutKeeps == \A f, p, c : OthersIn(f, p, Put(f, p, c))
BY DEF Put, Over, OthersIn

\* A deed leaves what other plugins have made.
LEMMA OthersLeft ==
  ASSUME ChainInv, AppliedInv, pc = "deeds", todo # <<>>, NEW g, NEW next,
         g = files \/ (Head(todo).op = "write" /\ \E c : g = Put(files, Head(todo).path, c)),
         \/ next = machine
         \/ Head(todo).op \in {"run", "run if written"} /\ next \in After(Head(todo).command)
  PROVE  /\ \A i \in 1 .. 12 : i < plugin => FilesSame(Chain[i], stage, files, g)
         /\ \A i \in 1 .. 12 : i # plugin => FieldsSame(Chain[i], machine, next)
         /\ DOMAIN next.repo = RepoFields
<1> DEFINE name == Chain[plugin]
           head == Head(todo)
<1>1. plugin \in 1 .. 12 /\ Fine(name, todo) /\ DOMAIN machine = Fields
  BY DEF ChainInv
<1>2. Proper(name, head) /\ Listed(todo)
  BY <1>1, FineTail DEF Fine
<1>3. ASSUME NEW i \in 1 .. 12, i < plugin
      PROVE  FilesSame(Chain[i], stage, files, g)
  <2>1. CASE g = files
    BY <2>1 DEF FilesSame
  <2>2. CASE head.op = "write" /\ \E c : g = Put(files, head.path, c)
    <3>1. PICK c : g = Put(files, head.path, c)
      BY <2>2
    <3>2. Owns(name, head.path)
      BY <1>2, <2>2 DEF Proper
    <3>3. plugin = 9 => head.path = EnvFile(stage)
      <4>1. head \in ToSet(todo)
        BY <1>2, ListElements
      <4> QED BY <2>2, <4>1 DEF AppliedInv
    <3>4. ASSUME NEW path, Uses(Chain[i], stage, path)
          PROVE  path # head.path
      <4>1. SUFFICES ASSUME path = head.path
                     PROVE  FALSE
        OBVIOUS
      <4>2. Owns(Chain[i], path) /\ Owns(name, path) /\ Chain[i] # name
        BY <1>1, <1>3, <3>2, <3>4, <4>1, ChainOrder DEF Uses
      <4>3. Chain[i] \in {"dns", "environment"} /\ name \in {"dns", "environment"}
        BY <4>2, OwnersDiffer
      <4>4. Chain[i] = "dns" /\ plugin = 9
        BY <1>1, <1>3, <4>3, ChainOrder
      <4> QED BY <3>3, <3>4, <4>1, <4>4 DEF Uses
    <3>5. OthersIn(files, head.path, g)
      BY <3>1, PutKeeps
    <3> HIDE DEF head
    <3> QED BY <3>4, <3>5 DEF FilesSame, OthersIn
  <2> QED BY <2>1, <2>2
<1>4. ASSUME NEW i \in 1 .. 12, i # plugin
      PROVE  FieldsSame(Chain[i], machine, next)
  <2>1. CASE next = machine
    BY <2>1 DEF FieldsSame
  <2>2. CASE head.op \in {"run", "run if written"} /\ next \in After(head.command)
    <3>1. <<name, head.command[1]>> \in Commands \/ (name = "systemctl" /\ head.command = <<"daemon-reload">>)
      BY <1>2, <2>2 DEF Proper
    <3>2. Chain[i] # name
      <4>1. i < plugin \/ plugin < i
        BY <1>1, <1>4, PlacesOrdered
      <4> QED BY <1>1, <4>1, ChainOrder
    <3>3. next \in After(head.command)
      BY <2>2
    <3> HIDE DEF name, head
    <3> QED BY <3>1, <3>2, <3>3, FieldsLeft
  <2> QED BY <2>1, <2>2
<1>5. DOMAIN next.repo = RepoFields
  <2>1. DOMAIN machine.repo = RepoFields
    BY DEF AppliedInv
  <2>2. CASE next = machine
    BY <2>1, <2>2
  <2>3. CASE head.op \in {"run", "run if written"} /\ next \in After(head.command)
    <3>1. <<"daemon-reload">>[1] = "daemon-reload"
      OBVIOUS
    <3>2. <<name, head.command[1]>> \in Commands \/ head.command[1] = "daemon-reload"
      BY <1>2, <2>3, <3>1 DEF Proper
    <3>3. "repo" \in DOMAIN machine
      BY <1>1 DEF Fields
    <3>4. CASE head.command[1] \notin GitVerbs
      BY <2>1, <2>3, <3>2, <3>3, <3>4, AfterFields
    <3>5. CASE head.command[1] \in GitVerbs
      <4>1. PICK repo \in AfterGit(head.command, machine.repo, scenario.tips[run]) :
              next = [machine EXCEPT !.repo = repo]
        BY <2>3, <3>2, <3>3, <3>5, AfterFields
      <4>2. StateKept(head.command[1], machine.repo, repo)
        BY <2>1, <3>5, <4>1, StateLeft DEF Whole
      <4>3. DOMAIN repo = RepoFields
        BY <4>2 DEF StateKept, Whole
      <4> QED BY <3>3, <4>1, <4>3
    <3> QED BY <3>4, <3>5
  <2> QED BY <2>2, <2>3
<1> QED BY <1>3, <1>4, <1>5

\* The invariant, of files, a machine and what is left to do after a deed.
AppliedAfter(f, m, done, failed, deeds) ==
  LET pins == "package_pins" \notin failed
      made(i) == Made(Chain[i], stage, scenario.backend, match_id(scenario.os), pins, f, m)
  IN  /\ DOMAIN m.repo = RepoFields
      /\ \A i \in 1 .. 12 : i < plugin /\ Chain[i] \notin failed => made(i)
      /\ Chain[plugin] \notin failed =>
           Coming(Chain[plugin], stage, scenario.backend, match_id(scenario.os), pins, f, m, done, deeds)
      /\ plugin < 3 => m.shell = <<>>
      /\ plugin < 10 => m.flags = {}
      /\ plugin = 9 => \A deed \in ToSet(deeds) : deed.op = "write" => deed.path = EnvFile(stage)

\* Only packages asks whether there is an error of package_pins.
LEMMA PinnedApart ==
  ASSUME NEW name, name # "packages", NEW s, NEW backend, NEW pm, NEW pinned, NEW other, NEW f, NEW m,
         Made(name, s, backend, pm, pinned, f, m)
  PROVE  Made(name, s, backend, pm, other, f, m)
BY DEF Made

\* What is made stays, and what of the list is left is still for its files.
LEMMA RestLeft ==
  ASSUME ChainInv, AppliedInv, pc = "deeds", todo # <<>>, NEW g, NEW next, NEW failed,
         failed \in {errs, errs \cup {Chain[plugin]}},
         g = files \/ (Head(todo).op = "write" /\ \E c : g = Put(files, Head(todo).path, c)),
         \/ next = machine
         \/ Head(todo).op \in {"run", "run if written"} /\ next \in After(Head(todo).command)
  PROVE  /\ DOMAIN next.repo = RepoFields
         /\ \A i \in 1 .. 12 : i < plugin /\ Chain[i] \notin failed =>
              Made(Chain[i], stage, scenario.backend, match_id(scenario.os), "package_pins" \notin failed, g, next)
         /\ plugin < 3 => next.shell = <<>>
         /\ plugin < 10 => next.flags = {}
<1>1. plugin \in 1 .. 12 /\ Stage(stage)
  BY ChainAssumption, StageNow DEF ChainInv, stage
<1>2. /\ \A i \in 1 .. 12 : i < plugin => FilesSame(Chain[i], stage, files, g)
      /\ \A i \in 1 .. 12 : i # plugin => FieldsSame(Chain[i], machine, next)
      /\ DOMAIN next.repo = RepoFields
  BY OthersLeft
<1>3. ASSUME NEW i \in 1 .. 12, i < plugin, Chain[i] \notin failed
      PROVE  Made(Chain[i], stage, scenario.backend, match_id(scenario.os), "package_pins" \notin failed, g, next)
  <2>1. MadeNow(i)
    BY <1>3 DEF AppliedInv
  <2>2. FilesSame(Chain[i], stage, files, g) /\ FieldsSame(Chain[i], machine, next)
    <3>1. i # plugin
      BY <1>1, <1>3, PlacesOrdered
    <3> QED BY <1>2, <1>3, <3>1
  <2>3. Made(Chain[i], stage, scenario.backend, match_id(scenario.os), Pinned, g, next)
    BY <1>1, <2>1, <2>2, MadeStays DEF MadeNow
  <2>4. Chain[i] # "packages"
    <3>1. i # 12
      BY <1>1, <1>3, PlacesOrdered
    <3> QED BY <3>1, ChainPlaces
  <2> QED BY <2>3, <2>4, PinnedApart
<1>4. plugin < 3 => next.shell = <<>>
  <2>1. ASSUME plugin < 3
        PROVE  FieldsSame("commands", machine, next)
    <3>1. 3 \in 1 .. 12 /\ 3 # plugin
      BY <1>1, <2>1, PlacesOrdered
    <3>2. Chain[3] = "commands"
      BY <3>1, ChainPlaces
    <3> QED BY <1>2, <3>1, <3>2
  <2> QED BY <2>1 DEF AppliedInv, FieldsSame
<1>5. plugin < 10 => next.flags = {}
  <2>1. ASSUME plugin < 10
        PROVE  FieldsSame("systemd_firstboot", machine, next)
    <3>1. 10 \in 1 .. 12 /\ 10 # plugin
      BY <1>1, <2>1, PlacesOrdered
    <3>2. Chain[10] = "systemd_firstboot"
      BY <3>1, ChainPlaces
    <3> QED BY <1>2, <3>1, <3>2
  <2> QED BY <2>1 DEF AppliedInv, FieldsSame
<1> QED BY <1>2, <1>3, <1>4, <1>5

\* A list's tails have its elements.
LEMMA TailElements ==
  ASSUME NEW deeds, Listed(deeds), deeds # <<>>
  PROVE  ToSet(Tail(deeds)) \subseteq ToSet(deeds)
BY ListElements

\* A deed that works,
LEMMA DeedWorks ==
  ASSUME ChainInv, AppliedInv, pc = "deeds", todo # <<>>, NEW g, NEW next, NEW done,
         Worked(Head(todo), g, next, done)
  PROVE  AppliedAfter(g, next, done, errs, Tail(todo))
<1> DEFINE name == Chain[plugin]
           pm == match_id(scenario.os)
<1>1. /\ plugin \in 1 .. 12 /\ Fine(name, todo) /\ DOMAIN machine = Fields /\ Stage(stage)
      /\ DOMAIN machine.repo = RepoFields
  BY ChainAssumption, StageNow DEF ChainInv, AppliedInv, stage
<1>2. Proper(name, Head(todo)) /\ Listed(todo)
  BY <1>1, FineTail DEF Fine
<1>3. /\ g = files \/ (Head(todo).op = "write" /\ \E c : g = Put(files, Head(todo).path, c))
      /\ \/ next = machine
         \/ Head(todo).op \in {"run", "run if written"} /\ next \in After(Head(todo).command)
  BY DEF Worked
<1>4. /\ DOMAIN next.repo = RepoFields
      /\ \A i \in 1 .. 12 : i < plugin /\ Chain[i] \notin errs =>
           Made(Chain[i], stage, scenario.backend, pm, "package_pins" \notin errs, g, next)
      /\ plugin < 3 => next.shell = <<>>
      /\ plugin < 10 => next.flags = {}
  BY <1>3, RestLeft
<1>5. ASSUME name \notin errs
      PROVE  Coming(name, stage, scenario.backend, pm, Pinned, g, next, done, Tail(todo))
  <2>1. Coming(name, stage, scenario.backend, pm, Pinned, files, machine, written, todo)
    BY <1>5 DEF AppliedInv
  <2>2. name = "packages" /\ Pinned => PinsSet(stage, pm, files)
    <3>1. ASSUME name = "packages", Pinned
          PROVE  PinsSet(stage, pm, files)
      <4>1. plugin = 12
        BY <1>1, <3>1, ChainPlaces
      <4>2. 11 \in 1 .. 12 /\ 11 < plugin /\ Chain[11] = "package_pins"
        BY <4>1, ChainPlaces
      <4>3. MadeNow(11)
        BY <3>1, <4>2 DEF AppliedInv, Pinned
      <4> QED BY <4>2, <4>3 DEF MadeNow, Made
    <3> QED BY <3>1
  <2> HIDE DEF name, pm
  <2> QED BY <1>1, <1>2, <2>1, <2>2, ComingOn
<1>6. plugin = 9 => \A deed \in ToSet(Tail(todo)) : deed.op = "write" => deed.path = EnvFile(stage)
  BY <1>2, TailElements DEF AppliedInv
<1> QED BY <1>4, <1>5, <1>6 DEF AppliedAfter, Pinned

\* one whose failure is ignored, and one that fails.
LEMMA DeedFails ==
  ASSUME ChainInv, AppliedInv, pc = "deeds", todo # <<>>, Failed, NEW g, NEW done,
         \/ g = files
         \/ Head(todo).op = "write" /\ \E c : g = Put(files, Head(todo).path, c),
         done = written
  PROVE  AppliedAfter(g, machine, done, errs', todo')
<1> DEFINE name == Chain[plugin]
           head == Head(todo)
           rest == Tail(todo)
           pm == match_id(scenario.os)
<1>1. plugin \in 1 .. 12 /\ Fine(name, todo)
  BY DEF ChainInv
<1>2. Proper(name, head) /\ Listed(todo) /\ Listed(rest) /\ (head.fail = "skip" => rest # <<>>)
  BY <1>1, FineTail, ListParts DEF Fine
<1>3. head.fail = "ignore" =>
        errs' = errs /\ todo' = rest /\ name = "hostname" /\ head.op = "run" /\ g = files
  BY <1>2 DEF Failed, Proper
<1>4. head.fail # "ignore" => errs' = errs \cup {name}
  BY DEF Failed
<1>5. ToSet(todo') \subseteq ToSet(todo)
  <2>1. head.fail \in {"next", "skip", "return", "ignore"}
    BY <1>2 DEF Proper, Policies
  <2>2. todo' = rest \/ (todo' = Tail(rest) /\ rest # <<>>) \/ todo' = <<>>
    BY <1>2, <2>1 DEF Failed
  <2>3. ToSet(rest) \subseteq ToSet(todo)
    BY <1>2, TailElements
  <2>4. rest # <<>> => ToSet(Tail(rest)) \subseteq ToSet(rest)
    BY <1>2, TailElements
  <2> HIDE DEF rest
  <2> QED BY <2>2, <2>3, <2>4, NothingLeft
<1>6. errs' \in {errs, errs \cup {name}}
  BY <1>3, <1>4
<1>7. /\ DOMAIN machine.repo = RepoFields
      /\ \A i \in 1 .. 12 : i < plugin /\ Chain[i] \notin errs' =>
           Made(Chain[i], stage, scenario.backend, pm, "package_pins" \notin errs', g, machine)
      /\ plugin < 3 => machine.shell = <<>>
      /\ plugin < 10 => machine.flags = {}
  BY <1>6, RestLeft
<1>8. ASSUME name \notin errs'
      PROVE  Coming(name, stage, scenario.backend, pm, "package_pins" \notin errs', g, machine, done, todo')
  <2>1. /\ errs' = errs /\ todo' = rest /\ name = "hostname" /\ head.op = "run" /\ g = files
        /\ name \notin errs
    BY <1>3, <1>4, <1>8
  <2>2. NameComing(stage, files, todo)
    BY <2>1 DEF AppliedInv, Coming
  <2>3. \A path, content : Comes(files, todo, path, content) => Comes(g, rest, path, content)
    BY <1>2, <2>1, ComesOn
  <2>4. NameComing(stage, g, rest)
    <3> HIDE DEF rest
    <3> QED BY <2>2, <2>3 DEF NameComing
  <2> HIDE DEF name, rest, pm
  <2> QED BY <2>1, <2>4 DEF Coming
<1>9. plugin = 9 => \A deed \in ToSet(todo') : deed.op = "write" => deed.path = EnvFile(stage)
  BY <1>5 DEF AppliedInv
<1> QED BY <1>7, <1>8, <1>9 DEF AppliedAfter

\* At the start nothing has been asked for yet.
LEMMA AppliedStart == Init => AppliedInv
<1> SUFFICES ASSUME Init
             PROVE  AppliedInv
  OBVIOUS
<1> DEFINE new == [hostname |-> <<>>, modules |-> {}, started |-> {}, enabled |-> {},
                   masked |-> {}, loaded |-> {}, flags |-> {}, shell |-> <<>>,
                   installed |-> scenario.installed, repo |-> NoRepo, key |-> FALSE]
<1>1. machine = Booted(new, scenario.files) /\ plugin = 1 /\ pc = "check"
  BY DEF Init
<1>2. DOMAIN new = Fields /\ new.repo = NoRepo
  BY DEF Fields
<1>3. DOMAIN NoRepo = RepoFields
  BY DEF NoRepo, RepoFields
<1> HIDE DEF new
<1>4. machine.repo = NoRepo /\ machine.shell = <<>> /\ machine.flags = {}
  BY <1>1, <1>2 DEF Booted, Fields
<1> QED BY <1>1, <1>3, <1>4 DEF AppliedInv

\* A deed leaves the invariant.
LEMMA AfterDeed ==
  ASSUME pc' = "deeds", UNCHANGED <<scenario, run, plugin>>,
         AppliedAfter(files', machine', written', errs', todo')
  PROVE  AppliedInv'
<1>1. stage' = stage /\ scenario' = scenario /\ plugin' = plugin
  BY DEF stage
<1>2. /\ DOMAIN machine'.repo = RepoFields
      /\ \A i \in 1 .. 12 : i < plugin' /\ Chain[i] \notin errs' => MadeNow(i)'
  BY <1>1 DEF AppliedAfter, MadeNow, Pinned
<1>3. Chain[plugin'] \notin errs' =>
        Coming(Chain[plugin'], stage', scenario'.backend, match_id(scenario'.os), Pinned', files', machine',
               written', todo')
  BY <1>1 DEF AppliedAfter, Pinned
<1>4. /\ plugin' < 3 => machine'.shell = <<>>
      /\ plugin' < 10 => machine'.flags = {}
      /\ plugin' = 9 => \A deed \in ToSet(todo') : deed.op = "write" => deed.path = EnvFile(stage)'
  BY <1>1 DEF AppliedAfter
<1> QED BY <1>2, <1>3, <1>4 DEF AppliedInv

\* A call that returns has made what it was asked for, and takes the key file with it.
LEMMA ReturnMakes ==
  ASSUME ChainInv, AppliedInv, Return
  PROVE  AppliedInv'
<1>1. /\ pc = "deeds" /\ todo = <<>> /\ machine' = [machine EXCEPT !.key = FALSE]
      /\ plugin' = plugin + 1 /\ pc' = "chain"
      /\ UNCHANGED <<scenario, files, run, errs>>
  BY DEF Return
<1>2. plugin \in 1 .. 12 /\ Stage(stage) /\ DOMAIN machine = Fields
  BY <1>1, ChainAssumption, StageNow DEF ChainInv, stage
<1>3. stage' = stage /\ scenario' = scenario /\ files' = files /\ errs' = errs
  BY <1>1 DEF stage
<1>4. /\ machine'.repo = machine.repo /\ machine'.shell = machine.shell
      /\ machine'.flags = machine.flags /\ \A name : FieldsSame(name, machine, machine')
  BY <1>1, <1>2 DEF Fields, FieldsSame
<1>5. \A name : FilesSame(name, stage, files, files)
  BY DEF FilesSame
<1>6. ASSUME NEW i \in 1 .. 12, i < plugin', Chain[i] \notin errs'
      PROVE  MadeNow(i)'
  <2>1. MadeNow(i)
    <3>1. CASE i < plugin
      BY <1>1, <1>3, <1>6, <3>1 DEF AppliedInv
    <3>2. CASE i = plugin
      <4>1. Coming(Chain[plugin], stage, scenario.backend, match_id(scenario.os), Pinned, files, machine, written, <<>>)
        BY <1>1, <1>3, <1>6, <3>2 DEF AppliedInv
      <4> QED BY <1>2, <3>2, <4>1, ComingMade DEF MadeNow
    <3>3. i < plugin \/ i = plugin
      BY <1>1, <1>2, <1>6
    <3> QED BY <3>1, <3>2, <3>3
  <2>2. Made(Chain[i], stage, scenario.backend, match_id(scenario.os), Pinned, files, machine')
    BY <1>2, <1>4, <1>5, <2>1, MadeStays DEF MadeNow
  <2> QED BY <1>3, <2>2 DEF MadeNow, Pinned
<1>7. /\ plugin' <= 3 => plugin < 3
      /\ plugin' <= 10 => plugin < 10
  BY <1>1, <1>2
<1> QED BY <1>1, <1>4, <1>6, <1>7 DEF AppliedInv

\* Every step keeps it.
LEMMA AppliedStep ==
  ASSUME ChainInv, AppliedInv, [Next]_vars
  PROVE  AppliedInv'
<1>1. CASE check_conditionals
  <2>1. /\ pc = "check" /\ pc' \in {"chain", "skipped"}
        /\ UNCHANGED <<scenario, files, machine, run, plugin, todo, written, errs>>
    BY <1>1 DEF check_conditionals
  <2>2. plugin' = 1 /\ machine'.shell = <<>> /\ machine'.flags = {} /\ DOMAIN machine'.repo = RepoFields
    BY <2>1 DEF AppliedInv
  <2>3. \A i \in 1 .. 12 : ~ (i < 1)
    OBVIOUS
  <2> QED BY <2>1, <2>2, <2>3 DEF AppliedInv
<1>2. CASE Call
  <2>1. /\ pc = "chain" /\ pc' = "deeds" /\ plugin \in 1 .. 12 /\ written' = FALSE
        /\ UNCHANGED <<scenario, files, machine, run, plugin, errs>>
    BY <1>2, ChainLength DEF Call, ChainInv
  <2>2. PICK readable : todo' = Deeds(Chain[plugin], readable)
    BY <1>2 DEF Call
  <2>3. stage' = stage
    BY <2>1 DEF stage
  <2>4. Coming(Chain[plugin], stage, scenario.backend, match_id(scenario.os), Pinned, files, machine, FALSE, todo')
    <3>1. plugin = 3 => machine.shell = <<>>
      BY <2>1 DEF AppliedInv
    <3>2. plugin = 10 => machine.flags = {}
      BY <2>1 DEF AppliedInv
    <3> QED BY <2>1, <2>2, <3>1, <3>2, CalledComing
  <2>5. ASSUME plugin = 9
        PROVE  \A deed \in ToSet(todo') : deed.op = "write" => deed.path = EnvFile(stage)
    <3>1. todo' = environment(stage, files, readable)
      BY <2>2, <2>5 DEF Deeds, Chain
    <3>2. todo' = <<>> \/ \E content : todo' = <<Write(EnvFile(stage), content, "return")>>
      BY <3>1 DEF environment
    <3>3. \A content : Write(EnvFile(stage), content, "return").path = EnvFile(stage)
      BY DEF Write
    <3> QED BY <3>2, <3>3, NothingLeft, Single
  <2>6. AppliedAfter(files', machine', written', errs', todo')
    <3>1. /\ plugin < 3 => plugin <= 3
          /\ plugin < 10 => plugin <= 10
      BY <2>1
    <3> QED BY <2>1, <2>4, <2>5, <3>1 DEF AppliedInv, AppliedAfter, MadeNow, Pinned
  <2> QED BY <2>1, <2>6, AfterDeed
<1>3. CASE DoWrite
  <2>1. /\ pc = "deeds" /\ todo # <<>> /\ pc' = "deeds" /\ Head(todo).op = "write"
        /\ UNCHANGED <<scenario, machine, run, plugin>>
    BY <1>3 DEF DoWrite, Deed
  <2>2. \/ /\ files' = Put(files, Head(todo).path, Head(todo).content) /\ written' = TRUE /\ Done
        \/ /\ files' = files \/ \E c : files' = Put(files, Head(todo).path, c)
           /\ written' = written /\ Failed
    BY <1>3 DEF DoWrite
  <2>3. AppliedAfter(files', machine', written', errs', todo')
    <3>1. CASE files' = Put(files, Head(todo).path, Head(todo).content) /\ written' = TRUE /\ Done
      <4>1. Worked(Head(todo), files', machine', written')
        BY <2>1, <3>1 DEF Worked
      <4> QED BY <2>1, <3>1, <4>1, DeedWorks DEF Done
    <3>2. CASE /\ files' = files \/ \E c : files' = Put(files, Head(todo).path, c)
               /\ written' = written /\ Failed
      BY <2>1, <3>2, DeedFails
    <3> QED BY <2>2, <3>1, <3>2
  <2> QED BY <2>1, <2>3, AfterDeed
<1>4. CASE DoMkdir \/ DoRefuse
  <2>1. /\ pc = "deeds" /\ todo # <<>> /\ pc' = "deeds" /\ Head(todo).op \in {"mkdir", "refuse"}
        /\ UNCHANGED <<scenario, files, machine, run, plugin, written>>
        /\ Failed \/ (Done /\ Head(todo).op = "mkdir")
    BY <1>4 DEF DoMkdir, DoRefuse, Deed
  <2>2. AppliedAfter(files', machine', written', errs', todo')
    <3>1. CASE Done /\ Head(todo).op = "mkdir"
      <4>1. Worked(Head(todo), files', machine', written')
        BY <2>1, <3>1 DEF Worked
      <4> QED BY <2>1, <3>1, <4>1, DeedWorks DEF Done
    <3>2. CASE Failed
      BY <2>1, <3>2, DeedFails
    <3> QED BY <2>1, <3>1, <3>2
  <2> QED BY <2>1, <2>2, AfterDeed
<1>5. CASE DoRun \/ DoRunIfWritten
  <2>1. /\ pc = "deeds" /\ todo # <<>> /\ pc' = "deeds" /\ Head(todo).op \in {"run", "run if written"}
        /\ UNCHANGED <<scenario, files, run, plugin, written>>
    BY <1>5 DEF DoRun, DoRunIfWritten, Deed
  <2>2. \/ /\ Done
           /\ Head(todo).op = "run" \/ written => machine' \in After(Head(todo).command)
           /\ Head(todo).op = "run if written" /\ ~ written => machine' = machine
        \/ Failed /\ machine' = machine
    BY <1>5 DEF DoRun, DoRunIfWritten, Deed
  <2>3. AppliedAfter(files', machine', written', errs', todo')
    <3>1. CASE /\ Done
               /\ Head(todo).op = "run" \/ written => machine' \in After(Head(todo).command)
               /\ Head(todo).op = "run if written" /\ ~ written => machine' = machine
      <4>1. Worked(Head(todo), files', machine', written')
        BY <2>1, <3>1 DEF Worked
      <4> QED BY <2>1, <3>1, <4>1, DeedWorks DEF Done
    <3>2. CASE Failed /\ machine' = machine
      BY <2>1, <3>2, DeedFails
    <3> QED BY <2>2, <3>1, <3>2
  <2> QED BY <2>1, <2>3, AfterDeed
<1>6. CASE Return
  BY <1>6, ReturnMakes
<1>7. CASE Finish
  <2>1. /\ pc = "chain" /\ pc' = "done" /\ plugin > 12
        /\ UNCHANGED <<scenario, files, machine, run, plugin, errs>>
    BY <1>7, ChainLength DEF Finish
  <2>2. stage' = stage /\ plugin' = 13
    BY <2>1 DEF stage, ChainInv
  <2> QED BY <2>1, <2>2 DEF AppliedInv, MadeNow, Pinned
<1>8. CASE Crash
  <2>1. pc' = "down"
    BY <1>8 DEF Crash
  <2>2. \E repo, f : /\ repo = machine.repo \/ repo = [NoRepo EXCEPT !.state = "part"]
                     /\ machine' = Booted([machine EXCEPT !.repo = repo], f)
    BY <1>8 DEF Crash
  <2>3. PICK repo, f : /\ repo = machine.repo \/ repo = [NoRepo EXCEPT !.state = "part"]
                       /\ machine' = Booted([machine EXCEPT !.repo = repo], f)
    BY <2>2
  <2>4. "repo" \in DOMAIN machine
    BY DEF ChainInv, Fields
  <2>5. machine'.repo = repo
    <3> DEFINE old == [machine EXCEPT !.repo = repo]
    <3>1. old.repo = repo /\ "repo" \in DOMAIN old
      BY <2>4
    <3> HIDE DEF old
    <3>2. Booted(old, f).repo = old.repo
      BY <3>1, BootedRepo
    <3>3. machine' = Booted(old, f)
      BY <2>3 DEF old
    <3> QED BY <3>1, <3>2, <3>3
  <2>6. DOMAIN [NoRepo EXCEPT !.state = "part"] = RepoFields
    BY DEF NoRepo, RepoFields
  <2>7. DOMAIN machine'.repo = RepoFields
    BY <2>3, <2>5, <2>6 DEF AppliedInv
  <2> QED BY <2>1, <2>7 DEF AppliedInv
<1>9. CASE NextStage
  <2>1. /\ pc' = "check" /\ plugin' = 1
        /\ machine' = [machine EXCEPT !.shell = <<>>, !.flags = {}]
    BY <1>9 DEF NextStage
  <2>2. DOMAIN machine = Fields
    BY DEF ChainInv
  <2>3. machine'.shell = <<>> /\ machine'.flags = {} /\ machine'.repo = machine.repo
    BY <2>1, <2>2 DEF Fields
  <2> QED BY <2>1, <2>3 DEF AppliedInv
<1>10. CASE UNCHANGED vars
  <2>1. /\ UNCHANGED <<scenario, files, machine, run, plugin, todo, written, errs, pc>>
        /\ stage' = stage
    BY <1>10 DEF vars, stage
  <2> QED BY <2>1 DEF AppliedInv, MadeNow, Pinned
<1> QED BY <1>1, <1>2, <1>3, <1>4, <1>5, <1>6, <1>7, <1>8, <1>9, <1>10 DEF Next

\* At the end of a call all plugins are before the next.
LEMMA AppliedAtEnd == AppliedInv => AppliedOrReported
<1> SUFFICES ASSUME AppliedInv, pc = "done", NEW name \in ToSet(Chain) \ errs
             PROVE  Applied(name)
  BY DEF AppliedOrReported
<1>1. PICK k \in 1 .. 12 : Chain[k] = name
  BY ChainLength DEF ToSet
<1>2. k < plugin
  BY DEF AppliedInv
<1>3. MadeNow(k)
  BY <1>1, <1>2 DEF AppliedInv
<1> QED BY <1>1, <1>3, MadeIsApplied DEF MadeNow, Pinned

\* After a call that ends, what its stage asks of each plugin is there, or the
\* plugin has returned an error: for any stages, any machine and whatever has
\* failed in other plugins or earlier calls, broken off ones included.  Left out
\* is what the code returns Ok for without doing it: `git` in the built-in
\* backend, pins with zypper or no known manager, pins without a version, and
\* with dnf the versions of pins.
THEOREM CallsApplyOrReport == Spec => []AppliedOrReported
<1>1. Init => ChainInv /\ AppliedInv
  BY ChainStart, AppliedStart
<1>2. ChainInv /\ AppliedInv /\ [Next]_vars => ChainInv' /\ AppliedInv'
  BY ChainStep, AppliedStep
<1>3. AppliedInv => AppliedOrReported
  BY AppliedAtEnd
<1> QED BY <1>1, <1>2, <1>3, PTL DEF Spec

=============================================================================
