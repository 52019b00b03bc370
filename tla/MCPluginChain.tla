--------------------------- MODULE MCPluginChain ---------------------------
(* Stages and machines for TLC: one plugin's part of a stage in each        *)
(* variant, two or three stages in turn, and a stage with something for     *)
(* every plugin; with and without faults.                                   *)
EXTENDS PluginChain

NoDns == [nameservers |-> <<>>, search |-> <<>>, options |-> <<>>, path |-> ""]
NoGit == [url |-> "", path |-> "", branch |-> "", branch_only |-> FALSE, key |-> FALSE, fits |-> TRUE]
NoUnits == [enable |-> <<>>, disable |-> <<>>, mask |-> <<>>, start |-> <<>>, overrides |-> <<>>]
NoPackages == [install |-> <<>>, remove |-> <<>>, refresh |-> FALSE, upgrade |-> FALSE]

Nothing == [dns |-> NoDns, git |-> NoGit, commands |-> <<>>, hostname |-> <<>>, sysctl |-> <<>>,
            modules |-> <<>>, timesyncd |-> <<>>, systemctl |-> NoUnits, environment |-> <<>>,
            environment_file |-> "", systemd_firstboot |-> <<>>, package_pins |-> <<>>,
            packages |-> NoPackages, node |-> NoFilter, if |-> "", only_if_os |-> NoFilter,
            only_if_os_version |-> NoFilter, only_if_arch |-> NoFilter,
            only_if_service_manager |-> NoFilter, if_files |-> <<>>]

MCSysctlOrder == <<<<"net", "", "fwd">>, <<"net", "fwd">>, <<"vm", "swap">>>>
MCPackageOrder == <<"bar", "foo">>

Tips(n) == <<"git://a", "main">> :> n @@ <<"git://a", "dev">> :> n + 10
           @@ <<"git://a", "master">> :> 20

Machine(id, like, disk, backend, faults, stages) ==
  [stages |-> stages, files |-> disk, installed |-> "old" :> "1",
   keys |-> {<<"proc", "sys", "net", "fwd">>}, known |-> {"echo", "true", "loop", "sshd", "foo", "bar", "old"},
   os |-> [id |-> id, like |-> like, name |-> IF id = <<>> THEN "" ELSE Head(id), version |-> "1"],
   host |-> [env |-> "", arch |-> "x86_64", comm |-> "init"],
   tips |-> [i \in DOMAIN stages |-> Tips(i)],
   backend |-> backend, faults |-> faults]

All == {"write", "mkdir", "run", "read", "crash"}

Dns == {[NoDns EXCEPT !.nameservers = ns, !.search = s, !.options = o, !.path = p] :
          ns \in {<<>>, <<"1", "2">>}, s \in {<<>>, <<".">>, <<"a", ".">>},
          o \in {<<>>, <<"", "">>, <<"rotate", "">>}, p \in {"", "resolv"}}

Settings ==
  {[Nothing EXCEPT !.dns = d] : d \in Dns}
  \cup {[Nothing EXCEPT !.hostname = <<"h">>], [Nothing EXCEPT !.modules = <<"gone", "loop">>],
        [Nothing EXCEPT !.commands = <<"echo", "exit 1", "true">>],
        [Nothing EXCEPT !.timesyncd = "NTP" :> "a" @@ "Fallback" :> "b"],
        [Nothing EXCEPT !.systemd_firstboot = "locale" :> "C" @@ "force" :> "true"]}
  \cup {[Nothing EXCEPT !.sysctl = [k \in keys |-> Head(k)]] : keys \in SUBSET ToSet(MCSysctlOrder)}

Units ==
  {[Nothing EXCEPT !.systemctl =
      [enable |-> e, disable |-> <<"sshd">>, mask |-> m, start |-> <<"gone", "sshd">>, overrides |-> o]] :
     e \in {<<>>, <<"sshd">>}, m \in {<<>>, <<"sshd">>},
     o \in {<<>>, <<[service |-> "sshd", content |-> <<>>, name |-> ""]>>,
            <<[service |-> "sshd", content |-> <<"x">>, name |-> ""],
              [service |-> "", content |-> <<"y">>, name |-> ""],
              [service |-> "sshd", content |-> <<"z">>, name |-> "override-yip"]>>}}

Vars(names, text) == [v \in names |-> Value(text)]

Environments ==
  {<<[Nothing EXCEPT !.environment = Vars({"A"}, text), !.environment_file = f],
     [Nothing EXCEPT !.environment = Vars({"B"}, "plain")],
     [Nothing EXCEPT !.environment = Vars({"B"}, "spaced"), !.environment_file = f]>> :
     text \in {"plain", "quotes", "lines"}, f \in {"", "env"}}

Pins == {[Nothing EXCEPT !.package_pins = pins,
                         !.packages = [NoPackages EXCEPT !.install = i, !.remove = r, !.refresh = b]] :
           pins \in {<<>>, "foo" :> "2", "foo" :> "" @@ "bar" :> "3"},
           i \in {<<>>, <<"foo">>, <<"foo", "bar">>, <<"gone">>},
           r \in {<<>>, <<"old">>, <<"bar">>}, b \in BOOLEAN}

Systems == {<<<<"ubuntu">>, {}>>, <<<<"mint">>, {"debian", "rhel"}>>, <<<<"fedora">>, {}>>,
            <<<<"alpine">>, {}>>, <<<<"opensuse", "leap">>, {}>>, <<<<"sle", "micro">>, {}>>, <<<<>>, {}>>}

Installed == WorldPath :> {<<"foo", "">>, <<"old", "">>, <<"foo@edge", "">>}
             @@ DnfConf :> {"[main]", "gpgcheck"}
             @@ DefaultEnvFile :> (Vars({"A", "P"}, "plain") @@ "Q" :> Value("quotes"))

Git(branch, only, key) ==
  [Nothing EXCEPT !.git = [url |-> "git://a", path |-> "/w", branch |-> branch,
                           branch_only |-> only, key |-> key, fits |-> TRUE]]

Gits ==
  {<<Git(a, x, TRUE), Git(b, y, FALSE), Git(a, z, FALSE)>> :
     a \in {"main", ""}, b \in {"main", "dev", "gone"}, x \in BOOLEAN, y \in BOOLEAN, z \in BOOLEAN}
  \cup {<<[Git("main", FALSE, key) EXCEPT !.git.fits = FALSE]>> : key \in BOOLEAN}

\* Something for every plugin.
Full ==
  [Git("main", FALSE, TRUE) EXCEPT
     !.dns.nameservers = <<"1">>, !.commands = <<"echo">>, !.hostname = <<"h">>,
     !.sysctl = <<"net", "fwd">> :> "1", !.modules = <<"loop">>, !.timesyncd = "NTP" :> "a",
     !.systemctl.start = <<"sshd">>,
     !.systemctl.overrides = <<[service |-> "sshd", content |-> <<"x">>, name |-> ""]>>,
     !.environment = Vars({"A"}, "spaced"), !.systemd_firstboot = "locale" :> "C",
     !.package_pins = "foo" :> "2", !.packages.install = <<"foo">>]

\* Filters, and a stage that names the host, on hosts that differ.
Only(texts) == [given |-> TRUE, valid |-> TRUE, matches |-> texts]
Bad == [given |-> TRUE, valid |-> FALSE, matches |-> {}]

Named == [Nothing EXCEPT !.hostname = <<"h">>]

Filtered ==
  {[Named EXCEPT !.node = f] : f \in {Only({"h"}), Bad}}
  \cup {[Named EXCEPT !.if = c] : c \in {"true", "exit 1"}}
  \cup {[Named EXCEPT !.only_if_os = Only({"ubuntu"}), !.only_if_os_version = f,
                      !.only_if_arch = g, !.only_if_service_manager = h] :
           f \in {Only({"1"}), Bad}, g \in {Only({"amd64"}), Only({"x86_64"}), Only({"arm64"})},
           h \in {Only({"openrc"}), Only({"unknown"})}}

Guarded ==
  {[Named EXCEPT !.if_files = guard] :
     guard \in {"none" :> <<MachineIdPath>>, "none" :> <<<<"marker">>, MachineIdPath>>,
                "none" :> <<MachineIdPath, <<"marker">>>> @@ "any" :> <<HostnamePath>>,
                "all" :> <<>> @@ "none" :> <<MachineIdPath>>}}

Hosts ==
  {[Machine(id, {}, disk, "shell", faults, stages) EXCEPT !.host.env = env] :
     id \in {<<"ubuntu">>, <<>>}, disk \in {<<>>, HostnamePath :> <<"h">> @@ OpenrcRun :> <<>>},
     faults \in {{}, {"crash", "write"}}, env \in {"", "old"},
     stages \in {<<s, s>> : s \in Filtered} \cup {<<s, s, s>> : s \in Guarded}}

MCScenarios ==
  {Machine(<<"ubuntu">>, {}, <<>>, "shell", faults, <<s, s>>) :
     s \in Settings \cup Units, faults \in {{}, All}}
  \cup {Machine(<<"alpine">>, {}, Installed, "shell", faults, stages) :
          stages \in Environments, faults \in {{}, {"run"}, All}}
  \cup {Machine(os[1], os[2], disk, "shell", faults, <<s>>) :
          os \in Systems, disk \in {<<>>, Installed}, faults \in {{}, {"write", "mkdir"}}, s \in Pins}
  \cup {Machine(<<"alpine">>, {}, <<>>, backend, faults, stages) :
          backend \in {"shell", "gix"}, faults \in {{}, {"run", "crash"}}, stages \in Gits}
  \cup {Machine(<<"ubuntu">>, {}, Installed, "shell", faults, <<Full, Full>>) :
          faults \in {{}, {"write"}, {"crash"}}}
  \cup Hosts
=============================================================================
