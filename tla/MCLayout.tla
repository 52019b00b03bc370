------------------------------ MODULE MCLayout ------------------------------
(* Stages and disks for TLC: numbers with and without gaps, parts that are  *)
(* there and parts that are not, one that takes the rest before others,     *)
(* disks to initialise, stages to refuse, and runs that break off.          *)
EXTENDS Layout

Plain == [given |-> TRUE, path |-> "path", label |-> FALSE, init |-> FALSE]

entry(name, from, to, fs) ==
  [name |-> name, from |-> from, to |-> to, fs |-> fs, made |-> <<0, 0>>, full |-> TRUE]

part(name, size, fs) == [name |-> name, size |-> size, fs |-> fs, longLabel |-> FALSE]

Efi == (1 :> entry("efi", 1, 3, "fat"))

Base == [stage |-> [device |-> Plain, parts |-> <<>>, expand |-> NoExpand],
         table |-> Efi, backend |-> "parted", faults |-> {}]

\* A part that is there, and three to append.
Append3 ==
  [Base EXCEPT !.stage.parts = <<part("efi", 2, "fat"), part("root", 2, "ext"),
                                 part("", 1, "swap"), part("data", 0, "xfs")>>,
               !.faults = {"add", "mkfs", "crash"}]

\* Numbers 1 and 3 are free, and there is room before and between the others.
Holed == (2 :> entry("efi", 3, 5, "btrfs")) @@ (4 :> entry("data", 6, 8, "ext"))

Gap == [Base EXCEPT !.table = Holed,
                    !.stage.parts = <<part("root", 2, "ext"), part("data", 1, "xfs"),
                                      part("", 1, "fat")>>,
                    !.stage.expand = 0, !.faults = {"add", "mkfs", "grow", "crash"}]

\* Everything anew each time; two parts behind one that takes the rest.
Anew == [Base EXCEPT !.stage.device = [Plain EXCEPT !.path = "script", !.init = TRUE],
                     !.stage.parts = <<part("root", 0, "ext"), part("data", 1, "ext"),
                                       part("efi", 2, "fat")>>,
                     !.faults = {"resolve", "init", "crash"}]

\* A part that takes the rest of a disk with room in two places.
Rest == [Base EXCEPT !.table = (1 :> entry("efi", 4, 6, "fat")),
                     !.stage.parts = <<part("root", 0, "btrfs"), part("data", 2, "ext")>>]

\* Only growing: the disk is found by a label; reads and probes fail.
Grown(disk, target) ==
  [Base EXCEPT !.stage.device = [Plain EXCEPT !.path = "", !.label = TRUE],
               !.stage.expand = target, !.table = disk,
               !.faults = {"resolve", "read", "probe", "grow", "crash"}]

Growing == {Grown(Efi, 6), Grown(Holed, 9), Grown(Holed, 7), Grown(<<>>, 0),
            Grown((1 :> entry("root", 1, 4, "ext")), 0),
            [Grown((1 :> entry("root", 1, 4, "ext")), 8) EXCEPT !.faults = {"grow", "crash"}]}

\* A table that is not read: its parts look missing.
Unread == [Append3 EXCEPT !.faults = {"read"}]

Refused ==
  {[Base EXCEPT !.stage.device.given = FALSE],
   [Base EXCEPT !.stage.device = [given |-> TRUE, path |-> "", label |-> FALSE, init |-> FALSE]],
   [Base EXCEPT !.stage.device = [given |-> TRUE, path |-> "", label |-> FALSE, init |-> TRUE]],
   [Base EXCEPT !.stage.device = [given |-> TRUE, path |-> "path", label |-> TRUE, init |-> TRUE]],
   [Base EXCEPT !.stage.parts = <<[part("root", 1, "xfs") EXCEPT !.longLabel = TRUE]>>],
   [Base EXCEPT !.stage.parts = <<part("root", 1, "ext"), part("data", 1, "other")>>]}

MCScenarios ==
  {[s EXCEPT !.backend = b] :
     s \in {Append3, Gap, Anew, Rest, Unread} \cup Growing \cup Refused, b \in {"gpt", "parted"}}
=============================================================================
