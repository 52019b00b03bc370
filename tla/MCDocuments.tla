----------------------------- MODULE MCDocuments -----------------------------
(***************************************************************************)
(* Every template of up to TagLimit tags, every command line of up to four *)
(* tokens, and documents and calls in which every rule meets every other.  *)
(***************************************************************************)
EXTENDS Documents

MCTags ==
  [kind : {"output", "if", "range"}, names : {<<>>, <<"A">>}, var : {""}]
    \cup {Tag("call", <<>>), Tag("else if", <<>>), Bare("else"), Bare("end"), Bare("with")}

MCLoops == <<"__it1", "__it2", "__it3", "__it4", "__it5">>

Tokens ==
  LET paths == {<<Yaml!Key("a")>>, <<Yaml!Key("b")>>, <<Yaml!Key("a"), Yaml!Key("b")>>,
                <<Yaml!Key("a"), Yaml!Index(0)>>, <<Yaml!Key("a"), Yaml!Index(2)>>,
                <<Yaml!Key("a"), Yaml!Index(0), Yaml!Key("b")>>,
                <<Yaml!Key("a"), Yaml!Index(0), Yaml!Key("c")>>}
      b == <<Yaml!Key("b")>>
  IN  {Yaml!Token(TRUE, path, TRUE, TRUE, "x") : path \in paths}
        \cup {Yaml!Token(TRUE, b, TRUE, TRUE, "y"), Yaml!Token(TRUE, b, TRUE, TRUE, ""),
              Yaml!Token(TRUE, b, TRUE, FALSE, ""), Yaml!Token(TRUE, b, FALSE, TRUE, "x"),
              Yaml!Token(FALSE, <<>>, TRUE, TRUE, "x")}

\* The token whose index does not fit has b for a path, which nothing reads.
MCLines ==
  [tokens : UNION {[1 .. n -> Tokens] : n \in 0 .. 4}, closed : {TRUE}]
    \cup [tokens : {<<token>> : token \in Tokens}, closed : {FALSE}]

-----------------------------------------------------------------------------

Fields(keys, values) == UNION {[some -> values] : some \in SUBSET keys}

Flat == {Yaml!Mapping(fields) : fields \in Fields({"a", "b"}, {Yaml!Scalar("1"), Yaml!Scalar("2")})}

With(nodes, merged) ==
  {Yaml!Mapping(("<<" :> source) @@ node.fields) : node \in nodes, source \in merged}

Inner == Flat \cup With(Flat, Flat)

Several ==
  LET some == {node \in Inner : "b" \notin DOMAIN node.fields}
  IN  {Yaml!Sequence(<<x, y>>) : x \in some, y \in some \cup {Yaml!Scalar("1")}}

MCNodes ==
  With(Flat, Inner \cup Several \cup {Yaml!Scalar("1"), Yaml!Null})
    \cup {Yaml!Sequence(<<x>>) : x \in Inner}
    \cup {Yaml!Mapping("c" :> x) : x \in With(Flat, Inner)}

-----------------------------------------------------------------------------

User(name, keys, sudo) == [name |-> name, ssh_authorized_keys |-> keys, sudo |-> sudo]

Said(text) == Cloud!Text(text)

MCUsers ==
  {User(name, keys, sudo) : name \in {"", "u", "v"}, keys \in {<<>>, <<Said("k")>>},
                            sudo \in {Said(""), Said("s")}}
    \cup {User("u", <<Cloud!Other>>, Said("s")),
          User("u", <<Cloud!Other, Said("k")>>, Cloud!Other)}

UserLists == {<<>>} \cup {<<x>> : x \in MCUsers} \cup {<<x, y>> : x \in MCUsers, y \in MCUsers}

FileWith(permissions) == [path |-> "p", permissions |-> permissions]

FileLists ==
  {<<>>, <<FileWith(<<>>)>>}
    \cup {<<FileWith(<<Cloud!Spelling(digits, prefix, quoted)>>)>> :
            digits \in {<<6, 4, 4>>, <<7, 5, 0>>, <<6, 8, 0>>}, prefix \in {"", "0", "0o"},
            quoted \in BOOLEAN}

Doc(users, keys, files, run, message, boot, native) ==
  [mapping |-> TRUE, hostname |-> "h", users |-> users, ssh_authorized_keys |-> keys,
   write_files |-> files, runcmd |-> run, final_message |-> message, bootcmd |-> boot,
   packages |-> <<Cloud!Other, Said("p")>>, native |-> native # <<>>, stages |-> native]

Natives ==
  LET stage == Cloud!Commands(<<"n">>)
  IN  {<<>>, "boot" :> <<stage>>,
       ("boot.before" :> <<stage, stage>>) @@ ("network" :> <<stage>>)}

MCClouds ==
  {Doc(users, keys, <<>>, run, message, boot, native) :
     users \in UserLists, keys \in {<<>>, <<Cloud!Other, Said("g")>>},
     run \in {<<>>, <<Said("r"), Cloud!Other, Said("q")>>}, message \in {"", "m"},
     boot \in {<<Cloud!Other>>, <<Cloud!Other, Said("b")>>}, native \in Natives}
    \cup {Doc(<<>>, <<>>, files, <<>>, "", <<>>, <<>>) : files \in FileLists}
    \cup {[Doc(<<>>, <<>>, <<>>, <<>>, "", <<>>, <<>>) EXCEPT !.mapping = FALSE]}

-----------------------------------------------------------------------------

Leaves == {Scalar("1"), Scalar("2")}
Shallow == {Map(fields) : fields \in Fields({"a", "b"}, {Scalar("1")})}
Maps == {Map(fields) : fields \in Fields({"a", "b"}, Leaves \cup Shallow)}
Few == {Map(fields) : fields \in Fields({"a"}, {Scalar("2")} \cup Shallow)}

Merges ==
  [fn : {"merge", "mergeOverwrite"},
   args : {<<x>> : x \in Maps} \cup {<<x, y>> : x \in Maps, y \in Maps}
            \cup {<<x, y, z>> : x \in Few, y \in Few, z \in Few}]

Word(n) == [number |-> FALSE, rank |-> n]
Num(n) == [number |-> TRUE, rank |-> n]

Versions ==
  [major : 0 .. 2, minor : 0 .. 2, patch : 0 .. 1,
   pre : {<<>>, <<Word(1)>>, <<Word(1), Num(2)>>}]

Ops == {"==", "!=", ">", "<", ">=", "<=", "^", "~"}

Compares ==
  [fn : {"semverCompare"}, version : Versions,
   clauses : {<<[op |-> op, target |-> target]>> : op \in Ops, target \in Versions}
               \cup {<<[op |-> ">=", target |-> Release(0, 1, 0)], [op |-> "<", target |-> target]>> :
                       target \in Versions}]

Lists ==
  LET items == {Scalar("1"), Scalar(""), Null}
  IN  {List(s) : s \in UNION {[1 .. n -> items] : n \in 0 .. 3}}

OnLists ==
  {[fn |-> fn, args |-> <<list>>] : fn \in {"concat", "uniq", "coalesce"}, list \in Lists}
    \cup {[fn |-> fn, args |-> <<x, y, Null>>] :
            fn \in {"concat", "coalesce"}, x \in Lists \cup Leaves, y \in Lists}
    \cup [fn : {"append", "prepend", "default"}, args : {<<x>> : x \in Lists}, def : Leaves]
    \cup [fn : {"set"}, args : {<<x>> : x \in Maps}, key : {"a", "c"}, def : Leaves]
    \cup {[fn |-> "pluck", args |-> <<List(<<x, y>>)>>, key |-> "a"] :
            x \in Maps, y \in Few \cup Leaves}
    \cup {[fn |-> "pick", args |-> <<map>>, keys |-> keys] :
            map \in Maps, keys \in SUBSET {"a", "b", "c"}}
    \cup {[fn |-> "dig", args |-> <<map>>, keys |-> keys, def |-> Scalar("none")] :
            map \in Maps, keys \in {<<"a">>, <<"a", "b">>, <<"a", "b", "a">>}}

OnNumbers ==
  {[fn |-> fn, ns |-> <<a, b>>] :
     fn \in {"add", "mul", "sub", "div", "mod"}, a \in IntMin .. IntMax, b \in IntMin .. IntMax}
    \cup {[fn |-> fn, ns |-> <<a, b, c>>] :
            fn \in {"add", "mul"}, a \in {IntMin, 3, IntMax}, b \in {-1, 2, IntMax}, c \in {-1, 0, 5}}

MCCalls == Merges \cup Compares \cup OnLists \cup OnNumbers
=============================================================================
