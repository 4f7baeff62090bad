SPECIFICATION FairSpec
CONSTANTS
    s1 = s1
    cam1 = cam1
    sdk1 = sdk1
    c1 = c1
    c2 = c2
    c3 = c3
    e1 = e1
    e2 = e2
    Server <- OneServer
    FileServer = {}
    Camera = {cam1, sdk1}
    Call <- ThreeCalls
    Entry <- TwoEntries
    NoCam = NoCam
    CamOf <- SdkLast
    TypeOf <- Live1
    Monitor = {}
    SdkCamera = {sdk1}
    FaultSets <- HangUps
    MaxInvite = 2
CHECK_DEADLOCK FALSE
INVARIANTS
    SharedStreamKept
    NothingLeftOpen
PROPERTIES
    NoAnswerAfterEnd
    CallConcludes
    LeaverReleased
