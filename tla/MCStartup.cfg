CONSTANTS
    Modules = {"generic", "youtube"}
    Generic = "generic"
    Unknown = "bogus"
    Handlers = {h1, h2}
    Boot = boot
    Requests <- MCRequests
    Missing = Missing
    Damaged = Damaged
    None = None
    Envs <- MCEnvs
SPECIFICATION FairSystemSpec
INVARIANTS
    TypeOK
    FileAgreesWithSettings
    ControlsHold
PROPERTIES
    BootRestoresFile
    EveryChangeReturns
