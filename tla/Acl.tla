-------------------------------- MODULE Acl --------------------------------
(***************************************************************************)
(* ofborg/src/acl.rs and systems.rs: who may have what built where.         *)
(***************************************************************************)

CONSTANTS
    Spellings,          \* logins and full names of repositories, as they are spelt
    lower,          \* lower[name]: the same name without capitals
    trusted_users,
    known_users,
    repos

ASSUME NamesAssumption ==
    /\ lower \in [Spellings -> Spellings]
    /\ \A name \in Spellings : lower[lower[name]] = lower[name]
    /\ {"nixos/nixpkgs", "grahamc"} \cup trusted_users \cup known_users \cup repos \subseteq Spellings

Linux == {"x86_64-linux", "aarch64-linux"}
Systems == Linux \cup {"x86_64-darwin"}

CanRunNixosTests(system) == system \in Linux

\* Mutant: the lists are compared as they are written in the configuration.
Lowered_AsIs(users) == users

\* ACL::new
Lowered(users) == {lower[user] : user \in users}

IsRepoEligible(name) == lower[name] \in repos

CanBuildRestricted(user, repo) ==
    lower[repo] = "nixos/nixpkgs" /\ lower[user] \in Lowered(known_users)

\* Outside nixpkgs the login is compared as it is spelt.
CanBuildUnrestricted(user, repo) ==
    IF lower[repo] = "nixos/nixpkgs"
    THEN lower[user] \in Lowered(trusted_users)
    ELSE user = "grahamc"

\* build_job_architectures_for_user_repo
Architectures(user, repo) ==
    IF CanBuildUnrestricted(user, repo) THEN Systems
    ELSE IF CanBuildRestricted(user, repo) THEN Linux
    ELSE {}
=============================================================================
