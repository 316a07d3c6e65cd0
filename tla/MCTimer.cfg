\* Three timers, nested loops; the creation count stays below the largest int.
CONSTANTS
    a1 = a1  a2 = a2  p1 = p1
    USEC = 2
    Delays = {0, 1, 2}
    After = {a1}
    Plain = {p1}
    FlagSets = {{"timer"}, {"idle"}}
    IntRange = 8
    FirstId = 0
    MaxTimers = 3
    MaxIdle = 0
    MaxSec = 2
    MaxDepth = 2
    None = None
SPECIFICATION Spec
CHECK_DEADLOCK FALSE
INVARIANTS PendingIsQueued PassServesExpired NoOversleep
