SPECIFICATION Spec
CONSTANTS
    t1 = t1
    Thread = {t1}
    Reader = Reader
    RECONNECT_NUM = 2
    NoThread = NoThread
INVARIANT
    StateKnown
