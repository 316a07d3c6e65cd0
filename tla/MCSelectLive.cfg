\* Two threads wait for a file, exit and fork, under fair scheduling.
SPECIFICATION FairSpec
CONSTANTS
    Thread = {t1, t2}
    Fd <- OneFd
    Condition = {"readable"}
    Kinds = {"forever"}
    Spurious = FALSE
    Forks = TRUE
    ForkAtStart = FALSE
    MaxEvents = 1
    None = None
PROPERTY WaiterServed
PROPERTY FinalizeEnds
