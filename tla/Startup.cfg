SPECIFICATION FairSpec
CONSTANTS
    Words <- AllWords
    Dashed <- DashedWords
    Directories <- Dirs
    Inet4 = {"1.2.3.4", "0.0.0.0"}
    Inet6 = {"::1"}
    Writable = {"a.log", "b.log"}
    Number <- Numbers
    CommandLines <- ManyLines
    INT_MODULUS = 1048576
    LONG_MAX = 1073741823
    PORT_MODULUS = 65536
    PRIVILEGED = 1024
    DEFAULT_PORT = 8080
    MaxSignals = 1
    MaxFaults = 1
INVARIANTS
    TypeOK SettingsAsAsked OneLog ListenersAsAsked SilentFailureHasCause
    CleanStop
PROPERTY EarlySignalStops
