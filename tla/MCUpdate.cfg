SPECIFICATION FairSpec
CONSTANTS
    old = old
    new = new
    other = other
    Config <- MCConfig
    Installed = old
    Version <- MCVersion
    Isolating <- MCIsolating
    Id = {u1, u2}
    NoId = NoId
    NoFile = NoFile
    Torn = Torn
    MaxFaults = 1
INVARIANTS TypeOK  
PROPERTIES CommitsMarked  ConfirmedWhenIsolating  
CHECK_DEADLOCK FALSE
