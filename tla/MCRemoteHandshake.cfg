SPECIFICATION Spec
CONSTANTS
    MaxConnection = 2
    MaxHello = 2
    MaxSequence = 3
    MaxAction = 1
    MaxSession = 2
    MaxGrant = 4
INVARIANTS
    TypeOK
    ConfirmedWereExecuted
    GrantsAgree
    InStep
CHECK_DEADLOCK FALSE
