SPECIFICATION Spec
CONSTANTS
    PATH_MAX = 16
    MAX_REQUEST_SIZE = 8192
    AddrLengths = {2, 45}
    IntLengths = {1, 11}
    Lines <- GoodLines
    CGI_CAPACITY = 1
    PipeSize = 2
    MaxOutput = 3
    MaxSize = 1
    MaxFaults = 0
INVARIANT ClosedOnce
