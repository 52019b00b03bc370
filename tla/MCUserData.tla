----------------------------- MODULE MCUserData -----------------------------
(* Machines for TLC: each provider with every answer it can give, with and  *)
(* without another before or after it; and runs on machines whose answers   *)
(* change, with faults and crashes.                                         *)
EXTENDS UserData

Nothing == [hostname |-> "unreachable", aws |-> "unreachable", azure |-> "missing",
            gcp |-> "missing", tools |-> FALSE, guest |-> "none", decodes |-> TRUE,
            cdrom |-> <<"none", "none", "none">>, drive |-> <<"none", "none">>,
            seed |-> [user |-> "none", meta |-> "none"], file |-> "none"]

States == {"none", "unreadable", "config"}
Replies == {"unreachable", "missing", "refused", "garbled", "", "script"}

\* A provider and what the machine has for it.
Offers ==
  {<<"aws", [Nothing EXCEPT !.hostname = h, !.aws = u]>> :
     h \in {"missing", "script"}, u \in {"refused", "config"}}
  \cup {<<"azure", [Nothing EXCEPT !.azure = r]>> : r \in Replies}
  \cup {<<"gcp", [Nothing EXCEPT !.gcp = r]>> : r \in Replies}
  \cup {<<"vmware", [Nothing EXCEPT !.tools = t, !.guest = g, !.decodes = d]>> :
          t \in BOOLEAN, g \in {"none", "", "config"}, d \in BOOLEAN}
  \cup {<<"cdrom", [Nothing EXCEPT !.cdrom = <<a, "none", b>>]>> : a \in States, b \in States}
  \cup {<<"config-drive", [Nothing EXCEPT !.drive = <<a, b>>]>> : a \in States, b \in States}
  \cup {<<"file", [Nothing EXCEPT !.file = a]>> : a \in States}
  \cup {<<"nocloud", [Nothing EXCEPT !.seed = [user |-> a, meta |-> b]]>> : a \in States, b \in States}
  \cup {<<"gce", Nothing>>}

stage(providers, path, name, there, machines, faults) ==
  [providers |-> providers, path |-> path, userdata_name |-> name, at |-> there,
   machines |-> machines, faults |-> faults]

\* One provider, also twice with one between that is not known.
Each ==
  UNION {{stage(providers, path, "", there, {offer[2]}, {}) :
            providers \in {<<offer[1]>>, <<offer[1], "scaleway", offer[1]>>, <<>>},
            path \in {"", "/data", "gcp"}, there \in {"none", "dir", "script"}} :
           offer \in Offers}

Pairs ==
  UNION {{stage(providers, path, "other", there, {[offer[2] EXCEPT !.gcp = reply]}, {}) :
            providers \in {<<offer[1], "gcp">>, <<"gcp", offer[1]>>, <<"gcp", "gcp", offer[1]>>},
            reply \in {"missing", "refused", "config"},
            path \in {"", "/data"}, there \in {"none", "script"}} :
           offer \in {o \in Offers : o[1] # "gcp"}}

\* The answers change from run to run.
Changing ==
  {stage(<<"nocloud", "file", "gcp">>, path, name, "none",
         {[Nothing EXCEPT !.seed = [user |-> "unreadable", meta |-> "script"], !.gcp = "config"],
          [Nothing EXCEPT !.seed = [user |-> "script", meta |-> "config"]],
          [Nothing EXCEPT !.seed = [user |-> "config", meta |-> "none"]],
          [Nothing EXCEPT !.gcp = ""], Nothing}, faults) :
     path \in {"", "/data"}, name \in {"", "userdata", "meta-data"},
     faults \in {{}, {"crash"}, {"write", "chmod", "mkdir"}}}

MCScenarios == Each \cup Pairs \cup Changing
=============================================================================
