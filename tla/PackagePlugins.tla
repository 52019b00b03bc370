--------------------------- MODULE PackagePlugins ---------------------------
(***************************************************************************)
(* The plugins `package_pins` and `packages`: which package manager is     *)
(* there, the files that pin versions, and the commands.                   *)
(***************************************************************************)
EXTENDS PluginDeeds

CONSTANT PackageOrder \* the names of packages, in order

\* An os-release as its ID, in its parts between dashes, and the names in its
\* ID_LIKE, lowercase; the ID of a file that is missing is empty.
OsRelease == [id : Seq(STRING), like : SUBSET STRING]

\* A rule: a package manager, the IDs it goes with, those with any further part
\* behind, and the names in ID_LIKE.
Rules == <<
  [pm |-> "apt", ids |-> {<<"ubuntu">>, <<"debian">>}, under |-> {}, like |-> {"debian"}],
  [pm |-> "dnf", ids |-> {<<"fedora">>, <<"rhel">>, <<"centos">>, <<"rocky">>, <<"alma">>,
                          <<"almalinux">>, <<"oracle">>, <<"ol">>},
   under |-> {}, like |-> {"rhel", "fedora"}],
  [pm |-> "apk", ids |-> {<<"alpine">>}, under |-> {}, like |-> {}],
  [pm |-> "zypper", ids |-> {<<"sles">>, <<"sle", "micro">>, <<"suse">>, <<"opensuse">>},
   under |-> {"opensuse"}, like |-> {"suse"}]>>

Fits(rule, os) ==
  \/ os.id \in rule.ids
  \/ Len(os.id) > 1 /\ os.id[1] \in rule.under
  \/ rule.like \cap os.like # {}

\* The first rule that fits decides.
match_id(os) ==
  LET fits == Those(Rules, LAMBDA rule : Fits(rule, os))
  IN  IF fits = <<>> THEN "none" ELSE Head(fits).pm

-----------------------------------------------------------------------------

\* The parts are tried one after the other, and all of them.
packages(stage, os) ==
  LET asked == stage.packages
      pm == match_id(os)
      part(wanted, command) == IF wanted THEN <<Run(command, "next")>> ELSE <<>>
      parts == part(asked.refresh, <<"refresh", pm>>)
               \o part(asked.upgrade, <<"upgrade", pm>>)
               \o part(asked.install # <<>>, <<"install", pm, asked.install>>)
               \o part(asked.remove # <<>>, <<"remove", pm, asked.remove>>)
  IN  IF pm = "none" /\ parts # <<>> THEN <<Refuse>> ELSE parts

-----------------------------------------------------------------------------

PrefPath(name) == <<"preferences.d", name>>
ProtectedPath(name) == <<"protected.d", name>>
DnfConf == <<"dnf", "dnf.conf">>
WorldPath == <<"apk", "world">>

\* A pin without a version is passed over.
Versioned(pins) == Those(Sorted(pins, PackageOrder), LAMBDA name : pins[name] # "")

apply_apt(pins) ==
  <<MkdirAll("return")>>
  \o ForEach(Versioned(pins), LAMBDA name : Write(PrefPath(name), <<pins[name]>>, "next"))

\* The file as a set of lines; one that cannot be read counts as empty.
update_dnf_conf_versionlock(files, readable) ==
  LET existing == IF Exists(DnfConf, files) /\ readable THEN files[DnfConf] ELSE {}
  IN  IF "versionlock" \in existing THEN <<MkdirAll("return")>>
      ELSE <<MkdirAll("return"),
             Write(DnfConf, {"versionlock"} \cup IF existing = {} THEN {"[main]"} ELSE existing,
                   "next")>>

\* Only the names are written, not the versions.
apply_dnf(pins, files, readable) ==
  <<MkdirAll("return")>>
  \o ForEach(Versioned(pins), LAMBDA name : Write(ProtectedPath(name), <<name>>, "next"))
  \o update_dnf_conf_versionlock(files, readable)

\* Wrong: the world is made anew from the pins.
WorldOnly(pins, existing) ==
  {<<name, pins[name]>> : name \in {p \in DOMAIN pins : pins[p] # ""}}

\* An entry of the world is a name, up to the first of = < > ~, and what
\* follows.  All entries of a package with a pin go, also without a version.
WorldWith(pins, existing) ==
  {entry \in existing : entry[1] \notin DOMAIN pins}
  \cup {<<name, pins[name]>> : name \in {p \in DOMAIN pins : pins[p] # ""}}

apply_apk(pins, files, readable) ==
  LET existing == IF Exists(WorldPath, files) /\ readable THEN files[WorldPath] ELSE {}
  IN  <<MkdirAll("return"), Write(WorldPath, WorldWith(pins, existing), "next")>>

\* Where there is no way to pin, nothing is done, and this is no error.
package_pins(stage, os, files, readable) ==
  LET pins == stage.package_pins
      pm == match_id(os)
  IN  IF DOMAIN pins = {} THEN <<>>
      ELSE CASE pm = "apt" -> apply_apt(pins)
             [] pm = "dnf" -> apply_dnf(pins, files, readable)
             [] pm = "apk" -> apply_apk(pins, files, readable)
             [] pm \in {"zypper", "none"} -> <<>>

=============================================================================
