SPECIFICATION Spec
CONSTANTS
    Names = {"hello", "git"}
    Spellings <- MCSpellings
    lower <- MCLower
    trusted_users <- MCTrusted
    known_users <- MCKnown
    repos <- MCRepos
    Days <- MCDays
    Statuses = {"Success"}
INVARIANTS
    ChecksAreTrue
    StuckChecksExplained
    RightSystems
PROPERTIES
    CommentsHandledInOrder
\* The system comes to rest when every comment is handled.
CHECK_DEADLOCK FALSE
