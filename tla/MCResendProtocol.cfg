SPECIFICATION Spec
CONSTANTS
    d1 = d1
    invite1 = invite1
    info1 = info1
    bye1 = bye1
    CallID = {d1}
    Msg = {invite1, info1, bye1}
    CallOf <- MCCallOf
    NoEntry = NoEntry
    Base = 2
    MinScan = 2
    MaxScan = 3
    MaxAge = 27
INVARIANTS
    AtMostFourCopies
    AnswersAwaited
    MapDrains
PROPERTY
    AnsweredIsQuiet
