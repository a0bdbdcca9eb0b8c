\* A dialog is closed and opened again while the first run goes on.
SPECIFICATION Spec
CONSTANTS
    Mods = 1
    Expected <- OneMod
    Size <- OneMod
    Entries = 2
    Jobs <- Only
    MaxRuns = 2
    MaxFaults = 0
    MaxCrash = 0
INVARIANTS DoneIsAlwaysInstalled
\* The user may leave it at that.
CHECK_DEADLOCK FALSE
