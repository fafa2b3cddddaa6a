SPECIFICATION Spec
CONSTANTS
    old = old
    new = new
    other = other
    Config <- MCConfig
    Installed = old
    Version <- MCVersion
    Isolating <- MCIsolating
    Id = {u1}
    NoId = NoId
    NoFile = NoFile
    Torn = Torn
    MaxFaults = 0
INVARIANTS StateUnlocks
CHECK_DEADLOCK FALSE
