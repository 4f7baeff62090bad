SPECIFICATION Spec
CONSTANTS
    s1 = s1
    cam1 = cam1
    sdk1 = sdk1
    c1 = c1
    c2 = c2
    c3 = c3
    e1 = e1
    e2 = e2
    Server <- OneServer
    FileServer = {}
    Camera = {cam1}
    Call <- TwoCalls
    Entry <- TwoEntries
    NoCam = NoCam
    CamOf <- OneCamera
    TypeOf <- Live1
    Monitor = {}
    SdkCamera = {}
    FaultSets = {{}}
    MaxInvite = 2
CHECK_DEADLOCK FALSE
INVARIANT
    Invite4MeansCameraAnswered
