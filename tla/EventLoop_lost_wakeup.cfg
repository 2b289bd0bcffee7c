SPECIFICATION FairSpec
CONSTANTS
    f1 = f1  f2 = f2  f3 = f3  v4 = v4  v6 = v6
    Fds = {f1}
    ListenFd <- OneListener
    num_listeners = 1
    NULL = NULL
    INITIAL_SIZE = 1
    INIT_CAP = 1
    MAX_REQUEST_SIZE = 1
    TEMP_BUFFER = 1
    Results <- OneResult
    StaleFclose = {"ebadf"}
    PeerActs = {"send", "rst"}
    RcvBuf = 1
    SndBuf = 1
    MaxBacklog = 1
    MaxScripts = 0
    MaxSignals = 1
    MaxFaults = 0
PROPERTY ShutdownCompletes
