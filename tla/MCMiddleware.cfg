SPECIFICATION Spec
CONSTANTS
    Methods = {get}
    Codes <- MCCodes
    Buckets = 2
    Scrapers = {s1}
    None = None
    Requests = {r1, r2}
    MaxWrites = 1
SYMMETRY Symmetry
INVARIANTS TypeOK MetricsTellTheTruth ScrapesAreCoherent LogTellsTheTruth
PROPERTY PanicsAreTold
CHECK_DEADLOCK FALSE
