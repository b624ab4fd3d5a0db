SPECIFICATION Spec
CONSTANTS
    NoSystem = NoSystem
    linux = linux
    darwin = darwin
    Systems = {linux, darwin}
    Nixpkgs <- Pkgs
    Sites <- MCSites
INVARIANTS
    QueuesInOrder
PROPERTIES
    DropsExplained
    ComesUp
\* Everything has been dealt with.
CHECK_DEADLOCK FALSE
