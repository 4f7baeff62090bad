SPECIFICATION Spec
CONSTANTS
    dev = dev
    usr = usr
    Device <- MCDevice
    User <- MCUser
    Timeout = 1
    MinScan = 1
    MaxScan = 2
    MinReload = 2
    MaxReload = 3
    MaxClock = 8
INVARIANTS
    RegistryTypeOK
    HeardStaysOn
    SilentIsOff
PROPERTY
    AskedOnce
