SPECIFICATION FairRunSpec
INVARIANTS NothingLeftBehind DrainsInOrder
PROPERTY RunReturns
CHECK_DEADLOCK FALSE
