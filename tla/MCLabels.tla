------------------------------ MODULE MCLabels ------------------------------
(***************************************************************************)
(* Four heads of one pull request: one that changes nothing, one that      *)
(* rebuilds some packages and the stdenv of Linux, one that adds a package *)
(* and removes another; and one that conflicts.                             *)
(***************************************************************************)
EXTENDS Labels, TLC

CONSTANTS e1, e2

Package(arch, n) == <<<<"pkg", ToString(n), arch>>, <<"out1">>>>
Many == [n \in 1..11 |-> Package("x86_64-linux", n)]
Few == <<Package("x86_64-linux", 0), Package("x86_64-darwin", 0), Package("aarch64-linux", 0)>>

Rebuilding(list) == [i \in DOMAIN list |-> <<list[i][1], <<"out2">>>>]

Stdenv(l, d) == [system \in StdenvSystems |-> IF system = "x86_64-linux" THEN l ELSE d]

\* The second list ends as one that is cut off, and has a line without an architecture.
Base == Few \o Many \o <<<<<<"lonely">>, <<"out1">>>>, <<<<"warning:", "x86_64-linux">>>>>>

Mass == Few \o Rebuilding(Many)
New == Tail(Few) \o <<Package("x86_64-darwin", 1), <<<<"lonely">>, <<"out2">>>>>>

MCContent == [
    same |-> [paths |-> {}, before |-> Base, after |-> Base, conflict |-> FALSE,
              stdenvBefore |-> Stdenv("s1", "none"), stdenvAfter |-> Stdenv("s1", "none"),
              impact |-> <<>>],
    mass |-> [paths |-> {"ruby/default.nix", "doc.md"}, before |-> Base,
              after |-> Mass, conflict |-> FALSE,
              stdenvBefore |-> Stdenv("s1", "none"), stdenvAfter |-> Stdenv("s2", "none"),
              impact |-> [m \in {"alice", "bob"} |-> IF m = "alice" THEN {"pkg.1"} ELSE {"pkg.1", "pkg.2"}]],
    new |-> [paths |-> {"python/new.nix"}, before |-> Few,
             after |-> New, conflict |-> FALSE,
             stdenvBefore |-> Stdenv("s1", "d1"), stdenvAfter |-> Stdenv("s1", "none"),
             impact |-> [m \in {"alice"} |-> {"pkg.1"}]],
    clash |-> [paths |-> {"python/new.nix"}, before |-> Base, after |-> <<>>, conflict |-> TRUE,
               stdenvBefore |-> Stdenv("s1", "none"), stdenvAfter |-> Stdenv("s1", "none"),
               impact |-> <<>>]]

MCTagPaths == ("6.topic: ruby" :> {"ruby/default.nix"}) @@ ("6.topic: python" :> {"python/new.nix"})

Person == <<"2.status: work-in-progress", "">>
Zero == <<"10.rebuild-linux", "0">>

\* A person meddles with a count, and says that it is work in progress.
MCPeoplesLabels == {Person, Zero}

MCSites ==
    {[team |-> {e1}, heads |-> {"same", "mass", "new", "clash"}, peoples |-> {},
      pushes |-> 3, edits |-> 1, crashes |-> 1],
     [team |-> {e1, e2}, heads |-> {"mass"}, peoples |-> MCPeoplesLabels,
      pushes |-> 2, edits |-> 1, crashes |-> 1],
     \* Evaluators of two heads at a time, and after them one alone.
     [team |-> {e1, e2}, heads |-> {"same", "mass"}, peoples |-> {},
      pushes |-> 3, edits |-> 0, crashes |-> 0]}

MCInitialLabels == {Person, MergeConflict, <<"10.rebuild-linux", "501+">>, <<"10.rebuild-linux", "1001-2500">>}
=============================================================================
