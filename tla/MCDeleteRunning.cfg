SPECIFICATION Spec
CONSTANTS
    VM = {v1}
    Pid = {p1, p2}
    NoVm = NoVm
    NoPid = NoPid
    NoFile = NoFile
    Torn = Torn
    AutoRestart = TRUE
    MaxCrashes = 1
PROPERTIES NotUnderRunning
CHECK_DEADLOCK FALSE
