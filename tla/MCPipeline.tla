----------------------------- MODULE MCPipeline -----------------------------
(* A few users in several spellings, and the comments they write.            *)
EXTENDS Pipeline

MCSpellings == {"nixos/nixpkgs", "NixOS/nixpkgs", "grahamc", "known", "trusted", "Trusted", "stranger", "trusted/nixpkgs"}
MCLower == [s \in MCSpellings |->
    CASE s = "NixOS/nixpkgs" -> "nixos/nixpkgs"
      [] s = "Trusted" -> "trusted"
      [] OTHER -> s]
MCTrusted == {"Trusted"}
MCKnown == {"known", "trusted"}
MCRepos == {"nixos/nixpkgs"}

Comment(user, body) ==
    [user |-> user, repo |-> "NixOS/nixpkgs", action |-> "created", body |-> body]

BuildHello == <<"@ofborg", "build", "hello">>
TestHello == <<"@ofborg", "test", "hello">>
EvalAgain == <<"@grahamcofborg", "eval">>

\* The same attribute is asked for twice.
MCTwice == <<Comment("known", <<BuildHello>>), Comment("known", <<BuildHello>>)>>

\* Two attributes at once, each of which may not evaluate.
BuildBoth == <<"@ofborg", "build", "hello", "git">>
MCBoth == <<Comment("known", <<BuildBoth>>)>>

\* A user who is known and trusted has a test and a build made, where possible.
MCTrustedComment == <<Comment("trusted", <<TestHello \o EvalAgain, BuildHello>>)>>

\* The comments of a day: one that is deleted again, one of a user nobody
\* knows, one in a fork, one without a command, an undecodable one, and one behind it.
MCBlocked ==
    <<Comment("known", <<EvalAgain>>),
      [Comment("known", <<EvalAgain>>) EXCEPT !.action = "deleted"],
      Comment("stranger", <<EvalAgain>>),
      [Comment("trusted", <<BuildHello>>) EXCEPT !.repo = "trusted/nixpkgs"],
      Comment("trusted", <<TestHello, <<"hello">>>>),
      Comment("known", <<Garbage>>),
      Comment("trusted", <<EvalAgain>>)>>

MCDays ==
    {[comments |-> MCTwice, online |-> {"x86_64-linux"}, crashes |-> 1, refusals |-> 0],
     [comments |-> MCTwice, online |-> {"x86_64-linux"}, crashes |-> 0, refusals |-> 1],
     [comments |-> MCBoth, online |-> {"x86_64-linux"}, crashes |-> 1, refusals |-> 0],
     [comments |-> MCTrustedComment, online |-> {"x86_64-darwin"}, crashes |-> 1, refusals |-> 0],
     [comments |-> MCBlocked, online |-> {}, crashes |-> 2, refusals |-> 0]}
=============================================================================
