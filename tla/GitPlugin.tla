------------------------------ MODULE GitPlugin ------------------------------
(***************************************************************************)
(* The `git` plugin with both of its backends, and what the git commands   *)
(* do to a repository.                                                     *)
(***************************************************************************)
EXTENDS PluginDeeds

\* A repository: what there is at its path, where it was cloned from, the one
\* branch it follows ("" for all), the remote's branches as last fetched, its
\* own branches, the one it is on, and the commit in its work tree.
NoRepo == [state |-> "none", url |-> "", only |-> "", origin |-> <<>>, heads |-> <<>>,
           head |-> "", tree |-> "none"]

effective_branch(git) == IF git.branch = "" THEN "master" ELSE git.branch

\* A key is in a file, and named in the environment, while the plugin runs.
\* Without one, a user and a password go into the URL, which may not take them.
build_auth(git) ==
  IF git.key THEN <<Run(<<"ssh key">>, "return")>>
  ELSE IF git.fits THEN <<>> ELSE <<Refuse>>

\* Wrong: the work tree stays as it is.
update_fetched(git, branch) ==
  <<Run(<<"fetch", branch>>, "return")>>
  \o (IF git.branch_only THEN <<Run(<<"checkout", branch>>, "return")>> ELSE <<>>)

update_existing(git, branch) ==
  <<Run(<<"fetch", branch>>, "return"), Run(<<"reset", branch>>, "return")>>
  \o (IF git.branch_only THEN <<Run(<<"checkout", branch>>, "return")>> ELSE <<>>)

clone_fresh(git, branch) ==
  <<Run(<<"clone", git.url, branch, IF git.branch_only THEN branch ELSE "">>, "return")>>

\* The built-in backend has no work tree, and says so only for `branch_only`.
update_existing_gix(git, branch) ==
  <<Run(<<"fetch gix", git.url, branch>>, "return")>>
  \o (IF git.branch_only THEN <<Refuse>> ELSE <<>>)

clone_fresh_gix(git, branch) == <<Run(<<"fetch only", git.url, branch>>, "return")>>

clone_or_pull(git, repo, backend) ==
  LET branch == effective_branch(git)
  IN  build_auth(git) \o
      CASE repo.state = "none" /\ backend = "shell" -> clone_fresh(git, branch)
        [] repo.state = "none" /\ backend = "gix" -> clone_fresh_gix(git, branch)
        [] repo.state # "none" /\ backend = "shell" -> update_existing(git, branch)
        [] repo.state # "none" /\ backend = "gix" -> update_existing_gix(git, branch)

git(stage, repo, backend) ==
  IF stage.git.url = "" THEN <<>>
  ELSE IF stage.git.path = "" THEN <<Refuse>>
  ELSE <<MkdirAll("return")>> \o clone_or_pull(stage.git, repo, backend)

-----------------------------------------------------------------------------

\* The remote's branches, `tips` having a commit for each URL and branch.
Branches(tips, url) == [b \in {p[2] : p \in {q \in DOMAIN tips : q[1] = url}} |-> tips[<<url, b>>]]

\* The repositories a command may leave; none if it fails.
AfterGit(command, repo, tips) ==
  LET on(branch, commit) ==
        [repo EXCEPT !.head = branch, !.tree = commit, !.heads = Put(@, branch, commit)]
  IN  CASE command[1] \in {"clone", "fetch only"} ->
             LET url == command[2] branch == command[3]
                 only == IF command[1] = "clone" THEN command[4] ELSE ""
                 there == Branches(tips, url)
             IN  IF branch \notin DOMAIN there THEN {}
                 ELSE {[state |-> "whole", url |-> url, only |-> only,
                        origin |-> [b \in IF only = "" THEN DOMAIN there ELSE {only} |-> there[b]],
                        heads |-> Put(<<>>, branch, there[branch]), head |-> branch,
                        tree |-> IF command[1] = "clone" THEN there[branch] ELSE "none"]}
        [] command[1] = "fetch" ->
             LET there == Branches(tips, repo.url)
                 asked == IF command[2] = "" THEN DOMAIN there ELSE {command[2]}
                 followed == IF repo.only = "" THEN asked ELSE asked \cap {repo.only}
             IN  IF repo.state # "whole" \/ ~ asked \subseteq DOMAIN there THEN {}
                 ELSE {[repo EXCEPT !.origin = Over([b \in followed |-> there[b]], @)]}
        \* Of all branches; without a remote in the repository, which a clone
        \* that broke off may have left out, of one branch from the stage's URL.
        [] command[1] = "fetch gix" ->
             LET url == IF repo.state = "whole" THEN repo.url ELSE command[2]
                 there == Branches(tips, url)
                 one == IF repo.state = "whole" THEN {} ELSE {{command[3]} \cap DOMAIN there} \ {{}}
             IN  {[repo EXCEPT !.origin = Over([b \in bs |-> there[b]], @)] :
                    bs \in {DOMAIN there} \cup one}
        [] command[1] = "reset" ->
             IF command[2] \notin DOMAIN repo.origin THEN {}
             ELSE {on(repo.head, repo.origin[command[2]])}
        [] command[1] = "checkout" ->
             IF command[2] \in DOMAIN repo.heads THEN {on(command[2], repo.heads[command[2]])}
             ELSE IF command[2] \in DOMAIN repo.origin THEN {on(command[2], repo.origin[command[2]])}
             ELSE {}

=============================================================================
