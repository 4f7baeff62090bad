SPECIFICATION Spec
CONSTANTS
    s1 = s1
    cam1 = cam1
    sdk1 = sdk1
    c1 = c1
    c2 = c2
    c3 = c3
    e1 = e1
    e2 = e2
    Server <- OneServer
    FileServer = {}
    Camera = {cam1}
    Call <- TwoCalls
    Entry <- TwoEntries
    NoCam = NoCam
    CamOf <- OneCamera
    TypeOf <- Live1
    Monitor = {c2}
    SdkCamera = {}
    FaultSets <- BesideOrBehind
    MaxInvite = 2
SYMMETRY Symmetry
CHECK_DEADLOCK FALSE
INVARIANTS
    FlowTypeOK
    OkMeansOwnStream
    OneCameraSession
    EveryEndTold
    ChainUnbroken
    SilentServerEmptied
