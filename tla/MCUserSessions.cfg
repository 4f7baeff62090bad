SPECIFICATION FairSpec
CONSTANTS
    s1 = s1
    cam1 = cam1
    c1 = c1
    c2 = c2
    c3 = c3
    e1 = e1
    e2 = e2
    u1 = u1
    u2 = u2
    Server <- MCServer
    FileServer <- MCFileServer
    Camera <- MCCamera
    Call <- MCCall
    Entry <- MCEntry
    NoCam = NoCam
    User <- MCUser
    UserOf <- MCUserOf
    Level <- MCLevel
    NoOne = NoOne
INVARIANTS
    LogoutClears
PROPERTIES
    LogoutSparesOthers
    ControlByRight
    LogoutEnds
