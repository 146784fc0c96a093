\* A second of three milliseconds, and a few of them.
SPECIFICATION ClockSpec
CONSTANTS
    PerSecond = 3
    MaxUptime = 6
    MaxSets = 1
INVARIANT ClockNeverBack
CHECK_DEADLOCK FALSE
