----------------------------- MODULE CloudConfig -----------------------------
(***************************************************************************)
(* load_from_cloud_config: a `#cloud-config` document made into stages.    *)
(* `Config` maps the names of stages to lists of stages.  A list of the    *)
(* document that is no sequence, and a key of it that a merge key brings,  *)
(* count as not there: they are left out of the documents.                 *)
(***************************************************************************)
EXTENDS SequencesExt, FiniteSetsExt, TLC

\* How a mode may be written: the digits, in quotes, and after a 0 or a 0o.
Spelling(digits, prefix, quoted) == [digits |-> digits, prefix |-> prefix, quoted |-> quoted]

Number(digits, base) == FoldLeft(LAMBDA n, digit : n * base + digit, 0, digits)

Hundreds(n) == <<n \div 100, (n \div 10) % 10, n % 10>>

\* The text that the loader sees for it: serde_yaml takes a number with a 0 in
\* front for a text and 0o for octal, which it gives back in decimal.
PermissionText(mode) ==
  IF mode.prefix = "0o" /\ ~ mode.quoted THEN Hundreds(Number(mode.digits, 8)) ELSE mode.digits

Octal(digits) == \A i \in DOMAIN digits : digits[i] < 8

\* 0 for the empty text; a quoted 0o is not a number.
parse_octal(mode) ==
  IF (mode.prefix = "0o" /\ mode.quoted) \/ ~ Octal(PermissionText(mode)) THEN [ok |-> FALSE]
  ELSE [ok |-> TRUE, mode |-> Number(PermissionText(mode), 8)]

-----------------------------------------------------------------------------

\* What an entry of a list can be: a text, or anything else (a number, a list
\* of words, a mapping).
Text(text) == [string |-> TRUE, text |-> text]
Other == [string |-> FALSE]

\* The texts among them; the others are dropped without an error.
Strings(entries) ==
  LET texts == SelectSeq(entries, LAMBDA entry : entry.string)
  IN  [i \in DOMAIN texts |-> texts[i].text]

\* The text, or the empty one for anything else.
StringOf(entry) == IF entry.string THEN entry.text ELSE ""

\* The users, by name, a later one instead of an earlier one of its name; the
\* sudo lines of all of them, and whether any of them has keys of its own.
Users(doc) ==
  FoldLeft(LAMBDA acc, user :
             IF user.name = "" THEN acc
             ELSE LET keys == Strings(user.ssh_authorized_keys)
                      sudo == StringOf(user.sudo)
                  IN  [users |-> (user.name :> [keys |-> keys]) @@ acc.users,
                       sudo |-> IF sudo = "" THEN acc.sudo
                                ELSE Append(acc.sudo, [sudo |-> sudo, of |-> user.name]),
                       has_user_keys |-> acc.has_user_keys \/ keys # <<>>],
           [users |-> <<>>, sudo |-> <<>>, has_user_keys |-> FALSE], doc.users)

\* A file without permissions has mode 0.
Files(doc) ==
  [i \in DOMAIN doc.write_files |->
     LET file == doc.write_files[i]
     IN  [path |-> file.path,
          mode |-> IF file.permissions = <<>> THEN 0 ELSE parse_octal(Head(file.permissions)).mode]]

\* One that cannot be read fails the document.
BadPermissions(doc) ==
  \E i \in DOMAIN doc.write_files :
    LET permissions == doc.write_files[i].permissions
    IN  permissions # <<>> /\ ~ parse_octal(Head(permissions)).ok

Stage(hostname, users, files, commands, install, ssh_keys) ==
  [hostname |-> hostname, users |-> users, files |-> files, commands |-> commands,
   install |-> install, ssh_keys |-> ssh_keys]

\* A stage with commands only.
Commands(commands) == Stage("", <<>>, <<>>, commands, <<>>, <<>>)

\* Keys beside `users` are root's if no user has keys.
RootKeys(doc) ==
  IF Users(doc).has_user_keys THEN <<>> ELSE Strings(doc.ssh_authorized_keys)

Message(doc) == IF doc.final_message = "" THEN <<>> ELSE <<doc.final_message>>

Boot(doc) ==
  Stage(doc.hostname, Users(doc).users, Files(doc),
        Strings(doc.runcmd) \o Users(doc).sudo \o Message(doc), Strings(doc.packages),
        RootKeys(doc))

Lists(stages, key) == IF key \in DOMAIN stages THEN stages[key] ELSE <<>>

\* Wrong: a list of the document's own `stages` takes the place of the one
\* made from the other keys.
Replaced(stages, native) == native @@ stages

\* The stages of the document's own `stages` come behind.
Extended(stages, native) ==
  [key \in DOMAIN stages \cup DOMAIN native |-> Lists(stages, key) \o Lists(native, key)]

\* `stages` counts if the document reads as a config of its own.
load_from_cloud_config(doc) ==
  LET boot == "boot" :> <<Boot(doc)>>
      bootcmd == Strings(doc.bootcmd)
      before == IF bootcmd = <<>> THEN <<>> ELSE "boot.before" :> <<Commands(bootcmd)>>
  IN  IF ~ doc.mapping \/ BadPermissions(doc) THEN [ok |-> FALSE, stages |-> <<>>]
      ELSE [ok |-> TRUE,
            stages |-> Extended(boot @@ before, IF doc.native THEN doc.stages ELSE <<>>)]
=============================================================================
