CONSTANTS
    u1 = u1
    u2 = u2
    Users <- MCUsers
    Expires <- MCExpires
    Never = Never
    Handlers = {h1, h2}
    MaxTime = 2
    Missing = Missing
    Damaged = Damaged
    None = None
SPECIFICATION FairSpec
INVARIANTS
    TypeOK
    FileAgreesWithMemory
PROPERTIES
    RevocationIsFinal
    OnlyDeletedUsersLeaveTheFile
    RefusedStaysRefused
    ImplementsDurableRoster
    EveryRequestReturns
