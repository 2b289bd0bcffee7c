SPECIFICATION FairSpec
CONSTANTS
    PATH_MAX = 16
    MAX_REQUEST_SIZE = 8192
    AddrLengths = {2, 45}
    IntLengths = {1, 11}
    Lines <- AllLines
    CGI_CAPACITY = 1
    PipeSize = 2
    MaxOutput = 3
    MaxSize = 2
    MaxFaults = 2
INVARIANTS
    TypeOK  StagedOnce ResponseComplete LogTruthful LogFits
    CgiOutputWhole ReleasedExact ChildReaped
PROPERTIES ImplementsAnswer RequestFinishes
