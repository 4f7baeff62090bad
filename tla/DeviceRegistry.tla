--------------------------- MODULE DeviceRegistry ---------------------------
(***************************************************************************)
(* m_mapDevice: which devices, lower platforms and users are registered    *)
(* (bReg), when each was last stamped (tRegistTime), and when a device is   *)
(* asked for its catalog (bSendCatalog).  IO threads handle REGISTER and    *)
(* keepalives, one thread looks for silent entries, and one reads the      *)
(* database again; all of them hold m_vLock, so each is one step.          *)
(*                                                                         *)
(* Time is discrete; the two periodic threads may be late, not stopped.    *)
(* What users hold when they leave is modelled in UserSessions.            *)
(***************************************************************************)
EXTENDS Integers

CONSTANTS
    Device,     \* devices and lower platforms of the database
    User,       \* users, known once they register
    Timeout,    \* nTimeOut, 200 s
    MinScan,    \* time between two looks for silent entries, 300 s
    MaxScan,    \* and how late one may be
    MinReload,  \* time between two reads of the database, 1200 s
    MaxReload,
    MaxClock    \* bound of the clocks

ASSUME RegistryAssumption ==
    /\ Device \cap User = {}
    /\ Timeout \in Nat
    /\ MinScan \in Nat /\ MaxScan \in Nat /\ MinScan <= MaxScan
    /\ MinReload \in Nat /\ MaxReload \in Nat /\ MinReload <= MaxReload
    /\ MaxClock \in Nat
    /\ MaxClock > MaxReload + Timeout + MaxScan + 1

VARIABLES
    auth,         \* m_bAuth of the configuration
    search,       \* m_nSearchDevice and m_nSearchPlat
    known,        \* entries of m_mapDevice
    reg,          \* those with bReg
    ask,          \* those with bSendCatalog
    quiet,        \* time since tRegistTime
    asked,        \* devices with a catalog session
    changed,      \* devices whose cameras were stored since the last reload
    scanClock,    \* time since CheckDeviceStatus last looked
    reloadClock,  \* time since ReadDBAction last read
    heard,        \* time since the last REGISTER or keepalive of an entry
    stored,       \* time since a part of a device's catalog was stored
    left,         \* users that have logged out since they last registered
    queried      \* devices asked since they were last off or read again

config == <<auth, search>>
clocks == <<scanClock, reloadClock>>
vars == <<auth, search, known, reg, ask, quiet, asked, changed,
          scanClock, reloadClock, heard, stored, left, queried>>

Name == Device \cup User

\* The clocks stop at MaxClock.
Later(t) == IF t < MaxClock THEN t + 1 ELSE t

\* Mutant: the stamp of a registration is forgotten.
StampUnset(x) == quiet

\* An entry stamped with the current time.
Stamp(x) == [quiet EXCEPT ![x] = 0]

\* Mutant: bSendCatalog stays.
AskedKept(d) == ask

\* bSendCatalog is reset by the query.
Asked(d) == ask \ {d}

\* A registering device is asked for its catalog after it was read from the
\* database, or when it was off.
MustAsk(d) == d \in ask \/ (search /\ d \notin reg)

(***************************************************************************)
(* Operations.                                                             *)
(***************************************************************************)
\* The entries of the database are registered and stamped as they are read.
Init ==
    /\ auth \in BOOLEAN
    /\ search \in BOOLEAN
    /\ known \in SUBSET Device
    /\ reg = known
    /\ ask = IF search THEN known ELSE {}
    /\ quiet = [x \in Name |-> 0]
    /\ asked = {}
    /\ changed = {}
    /\ scanClock = MinScan
    /\ reloadClock = 0
    /\ heard = [x \in Name |-> 0]
    /\ stored = [d \in Device |-> MaxClock]
    /\ left = {}
    /\ queried = {}

\* DeviceRegAnswer without authentication: any name is entered.  An entry it
\* makes has tRegistTime 0; it stamps none.
RegisterOpen(x) ==
    /\ ~ auth
    /\ known' = known \cup {x}
    /\ reg' = reg \cup {x}
    /\ quiet' = IF x \in known THEN quiet ELSE [quiet EXCEPT ![x] = MaxClock]
    /\ heard' = [heard EXCEPT ![x] = 0]
    /\ left' = left \ {x}
    /\ UNCHANGED <<config, clocks, ask, asked, changed, stored, queried>>

\* DeviceRegAnswer of an entry, with the right password: first the catalog
\* query, then the stamp.
RegisterKnown(x) ==
    /\ auth
    /\ x \in known
    /\ IF x \in Device /\ MustAsk(x)
         THEN /\ ask' = Asked(x)
              /\ asked' = asked \cup {x}
              /\ queried' = queried \cup {x}
         ELSE UNCHANGED <<ask, asked, queried>>
    /\ reg' = reg \cup {x}
    /\ quiet' = Stamp(x)
    /\ heard' = [heard EXCEPT ![x] = 0]
    /\ left' = left \ {x}
    /\ UNCHANGED <<config, clocks, known, changed, stored>>

\* A user that is not known yet; devices must be in the database.
RegisterUser(u) ==
    /\ auth
    /\ u \in User \ known
    /\ known' = known \cup {u}
    /\ reg' = reg \cup {u}
    /\ quiet' = Stamp(u)
    /\ heard' = [heard EXCEPT ![u] = 0]
    /\ left' = left \ {u}
    /\ UNCHANGED <<config, clocks, ask, asked, changed, stored, queried>>

\* REGISTER with Expires 0.  With authentication only users are taken off.
Unregister(x) ==
    /\ x \in known
    /\ x \in User \/ ~ auth
    /\ reg' = reg \ {x}
    /\ left' = left \cup {x}
    /\ queried' = queried \ {x}
    /\ UNCHANGED <<config, clocks, known, ask, quiet, asked, changed, heard, stored>>

\* Mutant: the keepalive of a name that is not in the map.
DeviceKeepaliveRecvAny(x) ==
    /\ reg' = reg \cup {x}
    /\ quiet' = Stamp(x)
    /\ heard' = [heard EXCEPT ![x] = 0]
    /\ left' = left \ {x}
    /\ UNCHANGED <<config, clocks, known, ask, asked, changed, stored, queried>>

\* DeviceKeepaliveRecv registers an entry that was off, and does not ask it.
DeviceKeepaliveRecv(x) ==
    /\ x \in known
    /\ reg' = reg \cup {x}
    /\ quiet' = Stamp(x)
    /\ heard' = [heard EXCEPT ![x] = 0]
    /\ left' = left \ {x}
    /\ UNCHANGED <<config, clocks, known, ask, asked, changed, stored, queried>>

\* A part of the catalog of a device that was asked is stored in the
\* database, with the time of the storing.
SaveCatalogToDB(d) ==
    /\ d \in asked
    /\ changed' = changed \cup {d}
    /\ stored' = [stored EXCEPT ![d] = 0]
    /\ UNCHANGED <<config, clocks, known, reg, ask, quiet, asked, heard, left, queried>>

\* The operator's command M asks a registered device as well.
StartRun(d) ==
    /\ d \in reg \cap Device
    /\ asked' = asked \cup {d}
    /\ UNCHANGED <<config, clocks, known, reg, ask, quiet, changed, heard, stored,
                   left, queried>>

\* The catalog is complete, or CheckTimeAction finds the session too old.
CloseSession(d) ==
    /\ d \in asked
    /\ asked' = asked \ {d}
    /\ UNCHANGED <<config, clocks, known, reg, ask, quiet, changed, heard, stored,
                   left, queried>>

\* The entries that CheckDeviceStatus takes off.
Silent == {x \in reg : quiet[x] > Timeout}

\* Mutant: every device is read again.
AllRead == known \cap Device

\* The known devices whose cameras have a newer time than m_sUpdateTime.
Updated == changed \cap known

CheckDeviceStatus ==
    /\ scanClock >= MinScan
    /\ reg' = reg \ Silent
    /\ queried' = queried \ Silent
    /\ scanClock' = 0
    /\ UNCHANGED <<config, known, ask, quiet, asked, changed, reloadClock, heard, stored,
                   left>>

\* ReadDBAction: devices with cameras that changed, and devices that were
\* added to the database, are registered as if they had been heard of.
ReadDBAction ==
    /\ reloadClock >= MinReload
    /\ \E added \in SUBSET (Device \ known) :
          LET read == added \cup Updated
          IN /\ known' = known \cup added
             /\ reg' = reg \cup read
             /\ ask' = IF search THEN ask \cup read ELSE ask
             /\ quiet' = [x \in Name |-> IF x \in read THEN 0 ELSE quiet[x]]
             /\ heard' = [x \in Name |-> IF x \in added THEN 0 ELSE heard[x]]
             /\ left' = left \ read
             /\ queried' = queried \ read
    /\ changed' = {}
    /\ reloadClock' = 0
    /\ UNCHANGED <<config, asked, stored, scanClock>>

Tick ==
    /\ scanClock < MaxScan
    /\ reloadClock < MaxReload
    /\ scanClock' = scanClock + 1
    /\ reloadClock' = reloadClock + 1
    /\ quiet' = [x \in Name |-> Later(quiet[x])]
    /\ heard' = [x \in Name |-> Later(heard[x])]
    /\ stored' = [d \in Device |-> Later(stored[d])]
    /\ UNCHANGED <<config, known, reg, ask, asked, changed, left, queried>>

Next ==
    \/ \E x \in Name : RegisterOpen(x)
    \/ \E x \in Name : RegisterKnown(x)
    \/ \E u \in User : RegisterUser(u)
    \/ \E x \in Name : Unregister(x)
    \/ \E x \in Name : DeviceKeepaliveRecv(x)
    \/ \E d \in Device : SaveCatalogToDB(d)
    \/ \E d \in Device : StartRun(d)
    \/ \E d \in Device : CloseSession(d)
    \/ CheckDeviceStatus
    \/ ReadDBAction
    \/ Tick

Spec == Init /\ [][Next]_vars

(***************************************************************************)
(* Correctness.                                                            *)
(***************************************************************************)
RegistryTypeOK ==
    /\ auth \in BOOLEAN /\ search \in BOOLEAN
    /\ known \subseteq Name
    /\ reg \subseteq known
    /\ left \subseteq known \ reg
    /\ ask \subseteq known \cap Device
    /\ asked \subseteq known \cap Device
    /\ changed \subseteq known \cap Device
    /\ queried \subseteq reg \cap Device
    /\ quiet \in [Name -> 0 .. MaxClock]
    /\ heard \in [Name -> 0 .. MaxClock]
    /\ stored \in [Device -> 0 .. MaxClock]
    /\ scanClock \in 0 .. MaxScan
    /\ reloadClock \in 0 .. MaxReload

\* The longest an entry stays registered without a sign of life.
LongestSilence == MaxReload + Timeout + MaxScan

\* With authentication, an entry that was heard of within the time-out is
\* registered, unless it logged out, wherever the looks of CheckDeviceStatus
\* fall between its messages.
HeardStaysOn ==
    auth => \A x \in known \ reg : x \in left \/ heard[x] > Timeout

\* No entry stays registered for ever: it was heard of, or its cameras were
\* stored, within one reload, the time-out and one look.  The reload stamps
\* entries that are silent, but only once per storing.
SilentIsOff ==
    \A x \in reg : \/ heard[x] <= LongestSilence
                   \/ x \in Device /\ stored[x] <= LongestSilence

\* bSendCatalog is for one query: a device that was asked is only asked again
\* by the operator, after it was off or after it was read from the database
\* again, however often it registers.
AskedOnce ==
    [][\A d \in Device :
          d \in asked' \ asked => d \notin queried \/ StartRun(d)]_vars
==============================================================================
