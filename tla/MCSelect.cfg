\* Two threads wait, poll, exit and fork, with spurious wakeups.
SPECIFICATION Spec
CONSTANTS
    Thread = {t1, t2}
    Fd <- OneFd
    Condition = {"readable"}
    Kinds = {"poll", "timed"}
    Spurious = TRUE
    Forks = TRUE
    ForkAtStart = FALSE
    MaxEvents = 1
    None = None
SYMMETRY Symmetry
INVARIANTS NoWaiterDropped WaitersHaveNotifier SelectIsCurrent FileHandlersExact
