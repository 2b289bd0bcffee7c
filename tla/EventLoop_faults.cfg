SPECIFICATION Spec
CONSTANTS
    f1 = f1  f2 = f2  f3 = f3  v4 = v4  v6 = v6
    Fds = {f1, f2}
    ListenFd <- OneListener
    num_listeners = 1
    NULL = NULL
    INITIAL_SIZE = 1
    INIT_CAP = 1
    MAX_REQUEST_SIZE = 2
    TEMP_BUFFER = 1
    Results <- AllResults
    StaleFclose = {"ebadf", "reuse", "abort"}
    PeerActs = {"send", "fin", "rst", "ack"}
    RcvBuf = 1
    SndBuf = 1
    MaxBacklog = 1
    MaxScripts = 1
    MaxSignals = 1
    MaxFaults = 1
SYMMETRY FdSymmetry
INVARIANTS 
    OpenExact ScanExact HeapExact WaitsForItsEvent BufferBounds CleanExit
PROPERTY ImplementsLifecycle
