SPECIFICATION FairSpec
CONSTANTS
    sup1 = sup1
    sup2 = sup2
    Superior <- MCSuperior
    NeedsAuth <- MCNeedsAuth
    Refresh = 2
    NoAnswers = 1
    NoOne = NoOne
    MaxReboot = 1
    MaxLoss = 1
INVARIANTS
    SuperiorTypeOK
    SilenceNoticed
    RefreshInTime
PROPERTIES
    KeptRegistered
    RebootEnds
