SPECIFICATION Spec
CONSTANTS
    net = net
    api = api
    Service = {net}
    Dep <- MCDep
    Pid = {p1}
    NoPid = NoPid
    NoService = NoService
    Kind = {"READY"}
    Report = {}
    Reporter = {}
    Healthy = {}
    NoReport = NoReport
    MaxRestartAttempts = 1
    CountMax = 1
    SocketCapacity = 1
PROPERTIES FailedIsPermanent
