\* Two threads, both of which may exit, under fair scheduling; marks from both and from signals.
CONSTANTS
    t1 = t1  t2 = t2  h1 = h1  h2 = h2
    Thread = {t1, t2}
    Handler = {h1, h2}
    Notifier = Notifier
    None = None
    SignalHandler = {h1}
    Exiting = {t1, t2}
    MaxMarks = 3
SPECIFICATION FairSpec
INVARIANTS NoLostMark NoLostWakeup ListedOwnersAlive NoMarkOutlivesNotifier
PROPERTIES MarkedHandlerRuns
CHECK_DEADLOCK FALSE
