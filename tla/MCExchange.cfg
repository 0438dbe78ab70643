SPECIFICATION Spec
CONSTANTS
    Nonce = "ours"
    Target <- MCTarget
    Exchanges <- MCExchanges
INVARIANTS IdentityIsCoherent NothingLost MarkupIsUnderstood
    RuntimeIsMarkup RuntimeIsAllowed PolicySurvives
CHECK_DEADLOCK FALSE
