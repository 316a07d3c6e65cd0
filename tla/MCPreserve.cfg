\* Three blocks and a handle with three holders, who release; the array grows twice.
CONSTANTS
    b1 = b1  b2 = b2  b3 = b3  h1 = h1  h2 = h2  h3 = h3  x1 = x1
    Block = {b1, b2, b3}
    Holder = {h1, h2, h3}
    Handle = {x1}
    InitialSize = 1
    None = None
SPECIFICATION FairSpec
INVARIANTS ArrayExact FreedOnceUnused HandleExact
PROPERTIES FreedWhenUnused EventuallyFreed
