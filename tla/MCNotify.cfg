\* Three events at every position, nested loops that leave a type to Tcl_ServiceAll.
CONSTANTS
    t1 = t1  p1 = p1  e1 = e1  e2 = e2  e3 = e3
    Thread = {t1}
    Poster = {p1}
    Event = {e1, e2, e3}
    Type = {"file", "timer"}
    TypeOf <- Types
    Flags = {{"file"}}
    Exiting = {}
    Positions = {"tail", "head", "mark"}
    Modes = {}
    MaxDepth = 2
    None = None
SPECIFICATION Spec
INVARIANTS QueueShape DeliveryOrder CountBalanced LoopsNest
SYMMETRY EventSymmetry
