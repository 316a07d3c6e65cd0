\* Fair scheduling; idle handlers and after scripts, loops that accept timers.
CONSTANTS
    a1 = a1  a2 = a2  p1 = p1
    USEC = 2
    Delays = {1}
    After = {a1}
    Plain = {p1}
    FlagSets = {{"timer", "idle"}}
    IntRange = 64
    FirstId = 0
    MaxTimers = 2
    MaxIdle = 2
    MaxSec = 1
    MaxDepth = 2
    None = None
SPECIFICATION FairSpec
CHECK_DEADLOCK FALSE
INVARIANTS AfterListedIffPending
PROPERTIES PassSkipsNew TimerFires
