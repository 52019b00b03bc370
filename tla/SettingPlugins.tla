--------------------------- MODULE SettingPlugins ---------------------------
(***************************************************************************)
(* The plugins that write a file of settings or run a list of commands:    *)
(* the deeds of a call, from the stage and what is on the disk.            *)
(***************************************************************************)
EXTENDS PluginDeeds

CONSTANT SysctlOrder \* the keys of sysctl settings, in order

\* Where the files are; `path` and `environment_file` may name another.
HostnamePath == <<"etc", "hostname">>
MachineIdPath == <<"etc", "machine-id">>
TimesyncdPath == <<"timesyncd.conf.d", "10-yip.conf">>
DefaultResolvConf == <<"etc", "resolv.conf">>
DefaultEnvFile == <<"etc", "environment">>

\* The id is made anew in each call; sethostname may fail silently.
hostname(stage, id) ==
  IF stage.hostname = <<>> THEN <<>>
  ELSE <<Write(HostnamePath, stage.hostname, "return"),
         Write(MachineIdPath, id, "return"),
         Run(<<"sethostname", stage.hostname>>, "ignore")>>

\* A key is a sequence of segments; empty ones have no directory.
sysctl_path(key) == <<"proc", "sys">> \o Those(key, LAMBDA segment : segment # "")

sysctl(stage) ==
  ForEach(Sorted(stage.sysctl, SysctlOrder),
          LAMBDA key : Write(sysctl_path(key), stage.sysctl[key], "next"))

\* What was there is overwritten, not merged.
timesyncd(stage) ==
  IF DOMAIN stage.timesyncd = {} THEN <<>>
  ELSE <<MkdirAll("return"), Write(TimesyncdPath, stage.timesyncd, "return")>>

\* The lines in this order; a search of "." alone and blank options are none.
render_resolv_conf(dns) ==
  (IF dns.search \in {<<>>, <<".">>} THEN <<>> ELSE <<<<"search", dns.search>>>>)
  \o [i \in DOMAIN dns.nameservers |-> <<"nameserver", <<dns.nameservers[i]>>>>]
  \o (IF \A i \in DOMAIN dns.options : dns.options[i] = "" THEN <<>>
      ELSE <<<<"options", dns.options>>>>)

ResolvConf(stage) == IF stage.dns.path = "" THEN DefaultResolvConf ELSE <<stage.dns.path>>

\* Without a nameserver nothing is written.
dns(stage) ==
  IF stage.dns.nameservers = <<>> THEN <<>>
  ELSE <<Write(ResolvConf(stage), render_resolv_conf(stage.dns), "return")>>

-----------------------------------------------------------------------------

\* A value is a text and how often its quotes and backslashes are escaped.
\* A "plain" or "spaced" text has none, a "quotes" or "cut" one does, and
\* "lines" has a line break as well.
Value(text) == [text |-> text, escapes |-> 0]

\* What is read back of a value that was written: escapes are not undone, and
\* of several lines only the first is, with its opening quote.
unquote(value) ==
  CASE value.text \in {"plain", "spaced"} -> value
    [] value.text = "lines" -> Value("cut")
    [] OTHER -> [value EXCEPT !.escapes = @ + 1]

\* The variables in a file that yip wrote.
parse_dotenv(env) == [name \in DOMAIN env |-> unquote(env[name])]

EnvFile(stage) ==
  IF stage.environment_file = "" THEN DefaultEnvFile ELSE <<stage.environment_file>>

\* The stage's variables win; a file that cannot be read counts as empty.
environment(stage, files, readable) ==
  LET path == EnvFile(stage)
      existing == IF Exists(path, files) /\ readable THEN parse_dotenv(files[path]) ELSE <<>>
  IN  IF DOMAIN stage.environment = {} THEN <<>>
      ELSE <<Write(path, Over(stage.environment, existing), "return")>>

-----------------------------------------------------------------------------

\* One call with all flags; "true" is a flag without a value.
systemd_firstboot(stage) ==
  LET flag(key) == IF stage.systemd_firstboot[key] = "true" THEN <<key>>
                   ELSE <<key, stage.systemd_firstboot[key]>>
  IN  IF DOMAIN stage.systemd_firstboot = {} THEN <<>>
      ELSE <<Run(<<"firstboot", {flag(key) : key \in DOMAIN stage.systemd_firstboot}>>, "return")>>

modules(stage) == ForEach(stage.modules, LAMBDA name : Run(<<"modprobe", name>>, "next"))

\* A command that cannot be rendered is run as it stands.
commands(stage) == ForEach(stage.commands, LAMBDA line : Run(<<"shell", line>>, "next"))

\* An override without a service or content is passed over.  The name gets its
\* extension, and so does the service.
Dropin(override) ==
  <<"systemd", override.service,
    IF override.name = "" THEN "override-yip" ELSE override.name>>

Overrides(stage) ==
  Those(stage.systemctl.overrides, LAMBDA o : o.service # "" /\ o.content # <<>>)

run_list(units, verb) == ForEach(units, LAMBDA unit : Run(<<verb, unit>>, "next"))

\* Each override after its directory.
write_overrides(overrides) ==
  [k \in 1 .. 2 * Len(overrides) |->
     LET o == overrides[(k + 1) \div 2]
     IN  IF k % 2 = 1 THEN MkdirAll("skip") ELSE Write(Dropin(o), o.content, "next")]

\* Wrong: the reload comes before the overrides.
systemctlEarly(stage) ==
  run_list(stage.systemctl.enable, "enable") \o run_list(stage.systemctl.disable, "disable")
  \o run_list(stage.systemctl.mask, "mask") \o run_list(stage.systemctl.start, "start")
  \o <<Run(<<"daemon-reload">>, "next")>>
  \o write_overrides(Overrides(stage))

\* The units first, then the overrides, then one reload.
systemctl(stage) ==
  run_list(stage.systemctl.enable, "enable") \o run_list(stage.systemctl.disable, "disable")
  \o run_list(stage.systemctl.mask, "mask") \o run_list(stage.systemctl.start, "start")
  \o write_overrides(Overrides(stage))
  \o <<RunIfWritten(<<"daemon-reload">>)>>

=============================================================================
