SPECIFICATION Spec
CONSTANTS
    local = local
    remote = remote
    edit = edit
    None = None
    Command <- MCCommand
    RoleOf <- MCRoleOf
    KindOf <- MCKindOf
    MaxCache = 2
    MaxRevision = 5
    FaultyRevision = 4
    FaultyCommand <- MCFaultyCommand
INVARIANTS
    TypeOK
    AppliedMeansSaved
    AtMostOnce
    StorageKeepsOrder
    AppliedToSeenContent
    LocalCommandWins
PROPERTIES
    ImplementsCommandLog
