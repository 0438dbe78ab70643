SPECIFICATION Spec
CONSTANTS
    Nonce = "ours"
    Target <- MCTarget
    Exchanges <- MCExchanges
INVARIANT InlineDecisionsSurvive
CHECK_DEADLOCK FALSE
