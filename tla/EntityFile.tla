----------------------------- MODULE EntityFile -----------------------------
(***************************************************************************)
(* The contents of a passwd-style file and the two edits that the plugins  *)
(* ensure_entities and delete_entities make.  A line is the identifier     *)
(* before its first colon, made of names of which none is the tail of      *)
(* another, and the rest.                                                  *)
(***************************************************************************)
EXTENDS SequencesExt

CONSTANTS Names, \* user and group names
          Rests, \* what follows the name on a line
          NoRest \* nothing does, not even the newline

Line == [id : Seq(Names), rest : Rests \cup {NoRest}]

\* An entry of a stage.  Its body may not parse, or have no identifier.
Edit == [kind : {"ensure", "delete"}, parses : BOOLEAN,
         line : [id : Seq(Names), rest : Rests]]

\* Only ensure objects to an empty identifier (validate_for_apply).
Valid(edit) == edit.parses /\ (edit.kind = "delete" \/ edit.line.id # <<>>)

\* The first line of that identifier is replaced, or the line is appended.
merge_line(lines, line) ==
  LET places == {i \in DOMAIN lines : lines[i].id = line.id}
  IN  IF places = {} THEN Append(lines, line)
      ELSE [lines EXCEPT ![Min(places)] = line]

\* The first place in the file where the line and its newline stand is cut
\* out.  That place may begin inside a line: what stands before it on that
\* line is then joined with the next line.
remove_line(lines, line) ==
  LET places == {i \in DOMAIN lines : /\ lines[i].rest = line.rest
                                      /\ IsSuffix(line.id, lines[i].id)}
      i == Min(places)
      before == SubSeq(lines[i].id, 1, Len(lines[i].id) - Len(line.id))
  IN  CASE places = {} -> lines
        [] places # {} /\ before = <<>> -> RemoveAt(lines, i)
        [] places # {} /\ before # <<>> /\ i = Len(lines) ->
             [lines EXCEPT ![i] = [id |-> before, rest |-> NoRest]]
        [] OTHER -> RemoveAt([lines EXCEPT ![i + 1].id = before \o @], i)

Edited(lines, edit) ==
  IF edit.kind = "ensure" THEN merge_line(lines, edit.line)
                          ELSE remove_line(lines, edit.line)
=============================================================================
