SPECIFICATION FairSpec
CONSTANTS
    f1 = f1  f2 = f2  f3 = f3  v4 = v4  v6 = v6
    Fds = {f1, f2}
    ListenFd <- TwoListeners
    num_listeners = 2
    NULL = NULL
    INITIAL_SIZE = 2
    INIT_CAP = 1
    MAX_REQUEST_SIZE = 1
    TEMP_BUFFER = 2
    Results <- FileResults
    StaleFclose = {"ebadf"}
    PeerActs = {"send", "rst"}
    RcvBuf = 1
    SndBuf = 1
    MaxBacklog = 1
    MaxScripts = 0
    MaxSignals = 1
    MaxFaults = 0
INVARIANTS TypeOK TableInv ScanExact CleanExit
PROPERTIES RequestServed BacklogDrained SignalStops
