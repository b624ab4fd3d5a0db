SPECIFICATION PartsSpec
CONSTANTS
    Merges <- MCMerges
    Texts = {"", "x"}
    Blank = ""
    MaxLine = 4
    Spellings <- MCSpellings
    lower <- MCLower
    trusted_users = {}
    known_users = {}
    repos = {"nixos/nixpkgs"}
    Repository = "NixOS/nixpkgs"
    Bases = {"master", "staging"}
    MaxEvents = 5
    MaxFilterCrashes = 1
    Clients = {"poster", "evaluator"}
    Repos = {"r1", "r2"}
    Deliveries <- MCDeliveries
    MaxInstalls = 2
    MaxRemovals = 1
    MaxErrors = 1
    MaxClientCrashes = 1
    Reporters = {"e1"}
    Scrapers = {"s1", "s2"}
    MaxJobs = 1
    MaxIncidents = 2
INVARIANTS
    CountsTellTheTruth
    AlgorithmsRight
    ServicesRight
PROPERTIES
    NoNeedlessEvaluation
    ServicesSettle
\* Each part comes to rest.
CHECK_DEADLOCK FALSE
