\* Two mods, retries, failures, a restart, and runs that overlap.
SPECIFICATION FairSpec
CONSTANTS
    Mods = 2
    Expected <- OneUnknown
    Size <- Short
    Entries = 2
    Jobs <- Some
    MaxRuns = 2
    MaxFaults = 1
    MaxCrash = 1
INVARIANTS TypeOK DoneIsInstalled ArchiveIsWhole PartIsInHand CancelIsQuiet
PROPERTIES BarNeverBack CancelledEnds
\* The user may leave it at that.
CHECK_DEADLOCK FALSE
