SPECIFICATION Spec
CONSTANTS
    Nonce = "ours"
    Target <- MCTarget
    Exchanges <- MCFetches
INVARIANT OriginIsCoherent
CHECK_DEADLOCK FALSE
