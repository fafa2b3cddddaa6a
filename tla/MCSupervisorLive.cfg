SPECIFICATION FairSpec
CONSTANTS
    net = net
    api = api
    Service <- MCService
    Dep <- MCDep
    Pid = {p1, p2}
    NoPid = NoPid
    NoService = NoService
    Kind = {"READY", "WATCHDOG"}
    Report = {}
    Reporter = {}
    Healthy = {}
    NoReport = NoReport
    MaxRestartAttempts = 2
    CountMax = 2
    SocketCapacity = 1
PROPERTIES StartedWhenPossible CrashLoopEnds
