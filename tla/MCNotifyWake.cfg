\* Fair scheduling, loops that accept every type; the thread may be finalised and set its mode.
CONSTANTS
    t1 = t1  p1 = p1  e1 = e1  e2 = e2  e3 = e3
    Thread = {t1}
    Poster = {p1}
    Event = {e1, e2}
    Type = {"file", "timer"}
    TypeOf <- Types
    Flags = {{}}
    Exiting = {t1}
    Positions = {"tail", "mark"}
    Modes = {"all"}
    MaxDepth = 2
    None = None
SPECIFICATION FairSpec
CHECK_DEADLOCK FALSE
INVARIANTS PostedEventWakes
PROPERTIES QueuedEventServed
