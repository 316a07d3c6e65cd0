\* Two owners; channels of two interpreters of one thread, a transformation
\* of another thread; either may exit at any moment.
CONSTANTS
    s1 = s1  s2 = s2  h1 = h1  h2 = h2  i1 = i1  i2 = i2  i3 = i3
    c1 = c1  c2 = c2  c3 = c3
    Source = {s1, s2}
    Handler = {h1, h2}
    Transform = {h2}
    Interp = {i1, i2, i3}
    Chan = {c1, c2, c3}
    ThreadOf <- Threads
    HomeOf <- Homes
    OwnerOf <- Owners
    Posting = {c1}
    Killed = {h1, h2}
    MaxPosts = 1
    None = None
SPECIFICATION Spec
CHECK_DEADLOCK FALSE
CONSTRAINT Defined
INVARIANTS WaiterHasEvent CallerIsQuiescent PostsReachOpenChannels
PROPERTIES ImplementsRemoteCall
