\* Every thread may exit, and signals are marked.
CONSTANTS
    t1 = t1  t2 = t2  h1 = h1  h2 = h2
    Thread = {t1, t2}
    Handler = {h1, h2}
    Notifier = Notifier
    None = None
    SignalHandler = {h1}
    Exiting = {t1, t2}
    MaxMarks = 1
SPECIFICATION FairSpec
PROPERTIES NotifierShutsDown
CHECK_DEADLOCK FALSE
