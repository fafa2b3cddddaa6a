SPECIFICATION Spec
CONSTANTS
    VM = {v1, v2}
    Pid = {p1, p2}
    NoVm = NoVm
    NoPid = NoPid
    NoFile = NoFile
    Torn = Torn
    AutoRestart = TRUE
    MaxCrashes = 2
SYMMETRY Symmetry
INVARIANTS TypeOK DiskKept OneHypervisor KeepsTrack
PROPERTIES RestartsAcked
CHECK_DEADLOCK FALSE
