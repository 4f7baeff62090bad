SPECIFICATION TableSpec
CONSTANTS
    s1 = s1
    s2 = s2
    fs = fs
    cam1 = cam1
    cam2 = cam2
    c1 = c1
    c2 = c2
    c3 = c3
    e1 = e1
    e2 = e2
    e3 = e3
    Server <- MCServer
    FileServer <- MCFileServer
    Camera <- MCCamera
    Call <- MCCall
    Entry <- MCEntry
    NoCam = NoCam
    NoPlace = NoPlace
SYMMETRY Symmetry
INVARIANTS
    CountersExact
    OneLegPerCall
    OneLiveStreamPerServer
PROPERTY
    ImplementsPlacement
