SPECIFICATION Spec
CONSTANTS
    net = net
    api = api
    Service <- MCService
    Dep <- MCDep
    Pid = {p1, p2, p3}
    NoPid = NoPid
    NoService = NoService
    Kind = {"READY", "STATUS", "STOPPING"}
    Report = {good, bad}
    Healthy = {good}
    Reporter = {net}
    NoReport = NoReport
    MaxRestartAttempts = 1
    CountMax = 1
    SocketCapacity = 1
SYMMETRY PidSymmetry
INVARIANTS TypeOK OneLifeline PidsAgree PublishedIsCurrent StartOrder DegradedIsReported GateSeesAll
PROPERTIES ImplementsLifecycle
