SPECIFICATION FairSpec
CONSTANTS
    rec = rec
    rec2 = rec2
    info = info
    status = status
    guard = guard
    guard2 = guard2
    alarm = alarm
    alarm2 = alarm2
    Alarm = {alarm, alarm2}
    AlarmSn <- MCAlarmSn
    cat = cat
    beat = beat
    sup1 = sup1
    sup2 = sup2
    cam1 = cam1
    cam2 = cam2
    Request = {rec, rec2, info, status, guard, guard2, cat, beat}
    KindOf <- MCKindOf
    SnOf <- MCSnOf
    SumOf <- MCSumOf
    Superior = {sup1, sup2}
    Sn <- MCSn
    FirstSn = 2
    Life = 1
    Period = 1
    MaxWait = 1
    MaxRepeat = 1
    Unserved = TRUE
    Together <- MCTogether
    NoSession = NoSession
    Camera = {cam1, cam2}
    Lists <- MCLists
    WriteDB = TRUE
    DbFails = TRUE
    Known = {cam1, cam2}
    Notified = {cam1}
CHECK_DEADLOCK FALSE
INVARIANTS
    RelayTypeOK
    SerialsApart
    AnswersReachAsker
    SessionsExpire
PROPERTIES
    GuardsTold
    ListedCamerasKept
    SuperiorServed
