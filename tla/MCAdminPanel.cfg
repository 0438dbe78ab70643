SPECIFICATION Spec
CONSTANTS
    Clients = {c1, c2}
    Proxy = proxy
    Tokens = {t1, t2}
    Handlers = {h1, h2}
    Limit = 2
    Window = 0
    TTL = 0
    MaxTime = 1
    None = None
SYMMETRY Symmetry
INVARIANTS GuessesAreLimited OnlyGoodSessionsAct
PROPERTY OneClientLocksNoOther
