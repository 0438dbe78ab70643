SPECIFICATION Spec
CONSTANTS
    Requests = {r1, r2}
    Limit = 1
    Longest = 3
    RequireToken = TRUE
    None = None
SYMMETRY Symmetry
INVARIANTS TypeOK NothingForbiddenIsFetched HeadersTellTheTruth WholeBodiesLeaveWhole OneOutcomeEach
CHECK_DEADLOCK FALSE
