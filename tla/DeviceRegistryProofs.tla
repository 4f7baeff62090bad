------------------------ MODULE DeviceRegistryProofs ------------------------
(***************************************************************************)
(* Proofs about DeviceRegistry, for any devices and users and any times.   *)
(***************************************************************************)
EXTENDS DeviceRegistry, TLAPS

\* A stamp that no message set was set by a reload, soon after a storing.
StampExplained(x) ==
    \/ heard[x] <= quiet[x] + MaxReload
    \/ x \in Device /\ stored[x] <= quiet[x] + MaxReload

\* What CheckDeviceStatus left on at its last look, or came since.
Looked(x) == quiet[x] <= Timeout + scanClock \/ heard[x] <= scanClock

RegistryInv ==
    /\ RegistryTypeOK
    /\ \A x \in Name : StampExplained(x)
    /\ \A x \in reg : Looked(x)
    /\ \A d \in changed : stored[d] <= reloadClock
    /\ auth => \A x \in Name : quiet[x] <= heard[x]
    /\ HeardStaysOn
    /\ queried \cap ask = {}

(***************************************************************************)
(* Clocks.                                                                 *)
(***************************************************************************)
LEMMA LaterFacts ==
    /\ \A t \in 0 .. MaxClock : Later(t) \in 0 .. MaxClock /\ Later(t) <= t + 1
    /\ \A t, u \in 0 .. MaxClock : t <= u => Later(t) <= Later(u)
    /\ \A t, u \in 0 .. MaxClock : t <= u + MaxReload => Later(t) <= Later(u) + MaxReload
    /\ \A t \in 0 .. MaxClock : t > Timeout => Later(t) > Timeout
BY RegistryAssumption, SMT DEF Later

LEMMA Bounds ==
    /\ 0 \in 0 .. MaxClock /\ MaxClock \in 0 .. MaxClock
    /\ 0 \in 0 .. MaxScan /\ MinScan \in 0 .. MaxScan /\ 0 \in 0 .. MaxReload
BY RegistryAssumption

(***************************************************************************)
(* Types.                                                                  *)
(***************************************************************************)
LEMMA TypesOfInit == Init => RegistryTypeOK
BY Bounds DEF Init, RegistryTypeOK, Name

LEMMA TypesOfStep ==
    ASSUME RegistryTypeOK, [Next]_vars
    PROVE  RegistryTypeOK'
<1> USE DEF RegistryTypeOK, config, clocks
<1>1. ASSUME NEW x \in Name, RegisterOpen(x) PROVE RegistryTypeOK'
  BY <1>1, Bounds DEF RegisterOpen
<1>2. ASSUME NEW x \in Name, RegisterKnown(x) PROVE RegistryTypeOK'
  BY <1>2, Bounds DEF RegisterKnown, Stamp, Asked
<1>3. ASSUME NEW u \in User, RegisterUser(u) PROVE RegistryTypeOK'
  BY <1>3, Bounds DEF RegisterUser, Stamp, Name
<1>4. ASSUME NEW x \in Name, Unregister(x) PROVE RegistryTypeOK'
  BY <1>4 DEF Unregister
<1>5. ASSUME NEW x \in Name, DeviceKeepaliveRecv(x) PROVE RegistryTypeOK'
  BY <1>5, Bounds DEF DeviceKeepaliveRecv, Stamp
<1>6. ASSUME NEW d \in Device, SaveCatalogToDB(d) PROVE RegistryTypeOK'
  BY <1>6, Bounds DEF SaveCatalogToDB
<1>7. ASSUME NEW d \in Device, StartRun(d) PROVE RegistryTypeOK'
  BY <1>7 DEF StartRun
<1>8. ASSUME NEW d \in Device, CloseSession(d) PROVE RegistryTypeOK'
  BY <1>8 DEF CloseSession
<1>9. ASSUME CheckDeviceStatus PROVE RegistryTypeOK'
  BY <1>9, Bounds DEF CheckDeviceStatus, Silent
<1>10. ASSUME ReadDBAction PROVE RegistryTypeOK'
  <2>1. PICK added \in SUBSET (Device \ known) :
          /\ known' = known \cup added
          /\ reg' = reg \cup (added \cup Updated)
          /\ ask' = IF search THEN ask \cup (added \cup Updated) ELSE ask
          /\ quiet' = [x \in Name |-> IF x \in added \cup Updated THEN 0 ELSE quiet[x]]
          /\ heard' = [x \in Name |-> IF x \in added THEN 0 ELSE heard[x]]
          /\ left' = left \ (added \cup Updated)
          /\ queried' = queried \ (added \cup Updated)
    BY <1>10 DEF ReadDBAction
  <2>2. Updated \subseteq known \cap Device /\ added \subseteq Device
    BY DEF Updated
  <2>3. /\ changed' = {} /\ reloadClock' = 0
        /\ UNCHANGED <<auth, search, asked, stored, scanClock>>
    BY <1>10 DEF ReadDBAction
  <2>4. quiet' \in [Name -> 0 .. MaxClock] /\ heard' \in [Name -> 0 .. MaxClock]
    BY <2>1, Bounds
  <2>5. /\ known' \subseteq Name /\ reg' \subseteq known' /\ left' \subseteq known' \ reg'
        /\ ask' \subseteq known' \cap Device /\ asked' \subseteq known' \cap Device
        /\ queried' \subseteq reg' \cap Device
    BY <2>1, <2>2, <2>3 DEF Name
  <2> QED
    BY <2>3, <2>4, <2>5, Bounds
<1>11. ASSUME Tick PROVE RegistryTypeOK'
  <2>1. scanClock' \in 0 .. MaxScan /\ reloadClock' \in 0 .. MaxReload
    BY <1>11, RegistryAssumption DEF Tick
  <2>2. quiet' \in [Name -> 0 .. MaxClock] /\ heard' \in [Name -> 0 .. MaxClock]
        /\ stored' \in [Device -> 0 .. MaxClock]
    BY <1>11, LaterFacts DEF Tick
  <2> QED
    BY <1>11, <2>1, <2>2 DEF Tick
<1>12. CASE UNCHANGED vars
  BY <1>12 DEF vars
<1> QED
  BY <1>1, <1>2, <1>3, <1>4, <1>5, <1>6, <1>7, <1>8, <1>9, <1>10, <1>11, <1>12 DEF Next
(***************************************************************************)
(* The invariant, one step per action.                                     *)
(***************************************************************************)
LEMMA InvOfInit == Init => RegistryInv
<1> SUFFICES ASSUME Init PROVE RegistryInv
  OBVIOUS
<1>1. RegistryTypeOK
  BY TypesOfInit
<1>2. \A x \in Name : StampExplained(x) /\ Looked(x) /\ quiet[x] <= heard[x]
  BY RegistryAssumption DEF Init, StampExplained, Looked
<1>3. reg \subseteq Name
  BY DEF Init, Name
<1> QED
  BY <1>1, <1>2, <1>3 DEF Init, RegistryInv, HeardStaysOn

\* The parts of the invariant besides the types, as a step must keep them.
LEMMA InvParts ==
    ASSUME RegistryInv, RegistryTypeOK',
           \A x \in Name : StampExplained(x)',
           \A x \in reg' : Looked(x)',
           \A d \in changed' : stored'[d] <= reloadClock',
           auth' => \A x \in Name : quiet'[x] <= heard'[x],
           HeardStaysOn',
           queried' \cap ask' = {}
    PROVE  RegistryInv'
BY DEF RegistryInv

\* Any message of x that registers it, with or without a stamp.
LEMMA MessageKeeps ==
    ASSUME RegistryInv, RegistryTypeOK', NEW x \in Name,
           UNCHANGED <<config, clocks, changed, stored>>,
           heard' = [heard EXCEPT ![x] = 0],
           reg' = reg \cup {x},
           left' = left \ {x},
           known' = known \cup {x},
           \A y \in Name : y # x => quiet'[y] = quiet[y],
           auth => quiet'[x] = 0,
           queried' \cap ask' = {}
    PROVE  RegistryInv'
<1> USE DEF RegistryTypeOK, config, clocks
<1>1. ASSUME NEW y \in Name
      PROVE  StampExplained(y)' /\ (y \in reg' => Looked(y)')
             /\ (auth' => quiet'[y] <= heard'[y])
  <2>1. CASE y = x
    <3>1. heard'[y] = 0 /\ quiet'[y] \in 0 .. MaxClock
      BY <2>1 DEF RegistryInv
    <3> QED
      BY <2>1, <3>1, RegistryAssumption DEF RegistryInv, StampExplained, Looked
  <2>2. CASE y # x
    <3>1. heard'[y] = heard[y] /\ quiet'[y] = quiet[y] /\ (y \in reg' => y \in reg)
      BY <2>2 DEF RegistryInv
    <3> QED
      BY <3>1 DEF RegistryInv, StampExplained, Looked
  <2> QED
    BY <2>1, <2>2
<1>2. HeardStaysOn'
  <2>1. ASSUME NEW y \in known' \ reg' PROVE y \in known \ reg /\ y # x
    BY <2>1
  <2>2. ASSUME NEW y \in known' \ reg'
        PROVE  heard'[y] = heard[y] /\ (y \in left => y \in left')
    BY <2>1 DEF RegistryInv
  <2> QED
    BY <2>1, <2>2 DEF RegistryInv, HeardStaysOn
<1>3. reg' \subseteq Name
  OBVIOUS
<1> QED
  BY <1>1, <1>2, <1>3, InvParts DEF RegistryInv

LEMMA ReloadKeeps ==
    ASSUME RegistryInv, RegistryTypeOK', ReadDBAction
    PROVE  RegistryInv'
<1> USE DEF RegistryTypeOK, config, clocks
<1>1. PICK added \in SUBSET (Device \ known) :
        /\ known' = known \cup added
        /\ reg' = reg \cup (added \cup Updated)
        /\ ask' = IF search THEN ask \cup (added \cup Updated) ELSE ask
        /\ quiet' = [x \in Name |-> IF x \in added \cup Updated THEN 0 ELSE quiet[x]]
        /\ heard' = [x \in Name |-> IF x \in added THEN 0 ELSE heard[x]]
        /\ left' = left \ (added \cup Updated)
        /\ queried' = queried \ (added \cup Updated)
  BY DEF ReadDBAction
<1>2. /\ changed' = {} /\ reloadClock' = 0
      /\ UNCHANGED <<auth, search, asked, stored, scanClock>>
  BY DEF ReadDBAction
<1>3. ASSUME NEW x \in Name PROVE StampExplained(x)'
  <2>1. CASE x \in added
    BY <1>1, <2>1, RegistryAssumption DEF StampExplained
  <2>2. CASE x \in Updated \ added
    <3>1. quiet'[x] = 0 /\ x \in changed /\ x \in Device
      BY <1>1, <2>2 DEF Updated, RegistryInv
    <3>2. stored'[x] <= MaxReload
      BY <1>2, <3>1, RegistryAssumption DEF RegistryInv
    <3> QED
      BY <3>1, <3>2, RegistryAssumption DEF StampExplained
  <2>3. CASE x \notin added \cup Updated
    <3>1. quiet'[x] = quiet[x] /\ heard'[x] = heard[x]
      BY <1>1, <2>3
    <3> QED
      BY <3>1, <1>2 DEF StampExplained, RegistryInv
  <2> QED
    BY <2>1, <2>2, <2>3
<1>4. ASSUME NEW x \in reg' PROVE Looked(x)'
  <2>1. CASE x \in added \cup Updated
    <3>1. quiet'[x] = 0
      BY <1>1, <2>1 DEF Updated, RegistryInv, Name
    <3> QED
      BY <3>1, <1>2, RegistryAssumption DEF Looked, RegistryInv
  <2>2. CASE x \notin added \cup Updated
    <3>1. quiet'[x] = quiet[x] /\ heard'[x] = heard[x] /\ x \in reg
      BY <1>1, <2>2 DEF RegistryInv
    <3> QED
      BY <3>1, <1>2 DEF Looked, RegistryInv
  <2> QED
    BY <2>1, <2>2
<1>5. ASSUME auth', NEW x \in Name PROVE quiet'[x] <= heard'[x]
  <2>1. quiet[x] <= heard[x] /\ quiet[x] \in 0 .. MaxClock /\ heard[x] \in 0 .. MaxClock
    BY <1>2, <1>5 DEF RegistryInv
  <2> QED
    BY <1>1, <2>1
<1>6. HeardStaysOn'
  <2>1. ASSUME auth', NEW x \in known' \ reg' PROVE x \in left' \/ heard'[x] > Timeout
    <3>1. x \in known \ reg /\ x \notin added /\ x \notin Updated
      BY <1>1, <2>1
    <3>2. heard'[x] = heard[x] /\ (x \in left => x \in left')
      BY <1>1, <3>1 DEF RegistryInv
    <3> QED
      BY <1>2, <2>1, <3>1, <3>2 DEF RegistryInv, HeardStaysOn
  <2> QED
    BY <2>1 DEF HeardStaysOn
<1>7. queried' \cap ask' = {}
  BY <1>1 DEF RegistryInv
<1> QED
  BY <1>2, <1>3, <1>4, <1>5, <1>6, <1>7, InvParts

LEMMA TickKeeps ==
    ASSUME RegistryInv, RegistryTypeOK', Tick
    PROVE  RegistryInv'
<1> USE DEF RegistryTypeOK, config, clocks
<1>1. /\ scanClock' = scanClock + 1 /\ reloadClock' = reloadClock + 1
      /\ quiet' = [x \in Name |-> Later(quiet[x])]
      /\ heard' = [x \in Name |-> Later(heard[x])]
      /\ stored' = [d \in Device |-> Later(stored[d])]
      /\ UNCHANGED <<auth, search, known, reg, ask, asked, changed, left, queried>>
  BY DEF Tick
<1>2. scanClock \in Nat /\ reloadClock \in Nat /\ Timeout \in Nat /\ MaxReload \in Nat
  BY RegistryAssumption DEF RegistryInv
<1>3. ASSUME NEW x \in Name
      PROVE  StampExplained(x)' /\ (x \in reg => Looked(x)')
             /\ (auth => quiet'[x] <= heard'[x])
             /\ (heard[x] > Timeout => heard'[x] > Timeout)
  <2> DEFINE q == quiet[x]
             h == heard[x]
  <2>1. q \in 0 .. MaxClock /\ h \in 0 .. MaxClock
        /\ quiet'[x] = Later(q) /\ heard'[x] = Later(h)
    BY <1>1 DEF RegistryInv
  <2>2. StampExplained(x)'
    <3>1. CASE h <= q + MaxReload
      <4>1. Later(h) <= Later(q) + MaxReload
        BY <2>1, <3>1, LaterFacts
      <4> QED
        BY <2>1, <4>1 DEF StampExplained
    <3>2. CASE x \in Device /\ stored[x] <= q + MaxReload
      <4>1. stored[x] \in 0 .. MaxClock /\ stored'[x] = Later(stored[x])
        BY <1>1, <3>2 DEF RegistryInv
      <4>2. Later(stored[x]) <= Later(q) + MaxReload
        BY <2>1, <3>2, <4>1, LaterFacts
      <4> QED
        BY <2>1, <3>2, <4>1, <4>2 DEF StampExplained
    <3> QED
      BY <3>1, <3>2 DEF RegistryInv, StampExplained
  <2>3. x \in reg => Looked(x)'
    <3>1. Later(q) \in Nat /\ Later(q) <= q + 1 /\ Later(h) \in Nat /\ Later(h) <= h + 1
      BY <2>1, LaterFacts
    <3>2. x \in reg => q <= Timeout + scanClock \/ h <= scanClock
      BY DEF RegistryInv, Looked
    <3> HIDE DEF q, h
    <3> QED
      BY <1>1, <1>2, <2>1, <3>1, <3>2 DEF Looked
  <2>4. auth => quiet'[x] <= heard'[x]
    BY <2>1, LaterFacts DEF RegistryInv
  <2>5. heard[x] > Timeout => heard'[x] > Timeout
    BY <2>1, LaterFacts
  <2> QED
    BY <2>2, <2>3, <2>4, <2>5
<1>4. ASSUME NEW d \in changed PROVE stored'[d] <= reloadClock'
  <2>1. d \in Device /\ stored[d] \in 0 .. MaxClock /\ stored[d] <= reloadClock
    BY DEF RegistryInv
  <2>2. Later(stored[d]) \in 0 .. MaxClock /\ Later(stored[d]) <= stored[d] + 1
    BY <2>1, LaterFacts
  <2>3. stored'[d] = Later(stored[d])
    BY <1>1, <2>1
  <2> QED
    BY <1>1, <1>2, <2>1, <2>2, <2>3
<1>5. HeardStaysOn'
  <2>1. known \subseteq Name
    BY DEF RegistryInv
  <2> QED
    BY <1>1, <1>3, <2>1 DEF RegistryInv, HeardStaysOn
<1>6. reg \subseteq Name
  BY DEF RegistryInv
<1> QED
  BY <1>1, <1>3, <1>4, <1>5, <1>6, InvParts DEF RegistryInv

LEMMA InvOfStep ==
    ASSUME RegistryInv, [Next]_vars
    PROVE  RegistryInv'
<1>t. RegistryTypeOK /\ RegistryTypeOK'
  BY TypesOfStep DEF RegistryInv
<1> USE DEF RegistryTypeOK, config, clocks
<1>1. ASSUME NEW x \in Name, RegisterOpen(x) PROVE RegistryInv'
  <2>1. \A y \in Name : y # x => quiet'[y] = quiet[y]
    BY <1>1, <1>t DEF RegisterOpen
  <2> QED
    BY <1>1, <1>t, <2>1, MessageKeeps DEF RegisterOpen, RegistryInv
<1>2. ASSUME NEW x \in Name, RegisterKnown(x) PROVE RegistryInv'
  <2>1. quiet'[x] = 0 /\ \A y \in Name : y # x => quiet'[y] = quiet[y]
    BY <1>2, <1>t DEF RegisterKnown, Stamp
  <2>2. queried' \cap ask' = {}
    BY <1>2 DEF RegisterKnown, RegistryInv, Asked
  <2>3. known' = known \cup {x}
    BY <1>2 DEF RegisterKnown
  <2> QED
    BY <1>2, <1>t, <2>1, <2>2, <2>3, MessageKeeps DEF RegisterKnown
<1>3. ASSUME NEW u \in User, RegisterUser(u) PROVE RegistryInv'
  <2>1. u \in Name /\ quiet'[u] = 0 /\ \A y \in Name : y # u => quiet'[y] = quiet[y]
    BY <1>3, <1>t DEF RegisterUser, Stamp, Name
  <2>2. queried' \cap ask' = {}
    BY <1>3 DEF RegisterUser, RegistryInv
  <2> QED
    BY <1>3, <1>t, <2>1, <2>2, MessageKeeps DEF RegisterUser
<1>4. ASSUME NEW x \in Name, Unregister(x) PROVE RegistryInv'
  <2>1. /\ UNCHANGED <<auth, scanClock, reloadClock, known, ask, quiet, changed, heard, stored>>
        /\ reg' = reg \ {x} /\ left' = left \cup {x} /\ queried' = queried \ {x}
    BY <1>4 DEF Unregister
  <2>2. HeardStaysOn'
    BY <2>1 DEF RegistryInv, HeardStaysOn
  <2>3. (\A y \in Name : StampExplained(y)') /\ (\A y \in reg' : Looked(y)')
    BY <2>1 DEF RegistryInv, StampExplained, Looked
  <2> QED
    BY <1>t, <2>1, <2>2, <2>3, InvParts DEF RegistryInv
<1>5. ASSUME NEW x \in Name, DeviceKeepaliveRecv(x) PROVE RegistryInv'
  <2>1. quiet'[x] = 0 /\ \A y \in Name : y # x => quiet'[y] = quiet[y]
    BY <1>5, <1>t DEF DeviceKeepaliveRecv, Stamp
  <2>2. queried' \cap ask' = {}
    BY <1>5 DEF DeviceKeepaliveRecv, RegistryInv
  <2>3. known' = known \cup {x}
    BY <1>5 DEF DeviceKeepaliveRecv
  <2> QED
    BY <1>5, <1>t, <2>1, <2>2, <2>3, MessageKeeps DEF DeviceKeepaliveRecv
<1>6. ASSUME NEW d \in Device, SaveCatalogToDB(d) PROVE RegistryInv'
  <2>1. /\ UNCHANGED <<auth, scanClock, reloadClock, known, reg, ask, quiet, heard, left, queried>>
        /\ changed' = changed \cup {d} /\ stored' = [stored EXCEPT ![d] = 0]
    BY <1>6 DEF SaveCatalogToDB
  <2>2. ASSUME NEW e \in Device PROVE stored'[e] = IF e = d THEN 0 ELSE stored[e]
    BY <1>t, <2>1
  <2>3. ASSUME NEW x \in Name PROVE StampExplained(x)'
    <3>1. quiet[x] \in 0 .. MaxClock
      BY <1>t
    <3> QED
      BY <2>1, <2>2, <3>1, RegistryAssumption DEF RegistryInv, StampExplained
  <2>4. \A e \in changed' : stored'[e] <= reloadClock'
    BY <1>t, <2>1, <2>2 DEF RegistryInv
  <2>5. HeardStaysOn' /\ \A x \in reg' : Looked(x)'
    BY <2>1 DEF RegistryInv, HeardStaysOn, Looked
  <2> QED
    BY <1>t, <2>1, <2>3, <2>4, <2>5, InvParts DEF RegistryInv
<1>7. ASSUME NEW d \in Device, StartRun(d) \/ CloseSession(d) PROVE RegistryInv'
  <2>1. UNCHANGED <<auth, scanClock, reloadClock, known, reg, ask, quiet, changed, heard,
                    stored, left, queried>>
    BY <1>7 DEF StartRun, CloseSession
  <2> QED
    BY <1>t, <2>1 DEF RegistryInv, HeardStaysOn, StampExplained, Looked
<1>9. ASSUME CheckDeviceStatus PROVE RegistryInv'
  <2>1. /\ UNCHANGED <<auth, reloadClock, known, ask, quiet, changed, heard, stored, left>>
        /\ reg' = reg \ Silent /\ queried' = queried \ Silent /\ scanClock' = 0
    BY <1>9 DEF CheckDeviceStatus
  <2>2. ASSUME NEW x \in reg' PROVE Looked(x)'
    <3>1. quiet[x] \in 0 .. MaxClock /\ ~ (quiet[x] > Timeout)
      BY <1>t, <2>1 DEF Silent
    <3> QED
      BY <2>1, <3>1, RegistryAssumption DEF Looked
  <2>3. HeardStaysOn'
    <3>1. ASSUME auth, NEW x \in Silent PROVE heard[x] > Timeout
      <4>1. quiet[x] > Timeout /\ quiet[x] <= heard[x]
            /\ quiet[x] \in Nat /\ heard[x] \in Nat
        BY <1>t, <3>1 DEF Silent, RegistryInv
      <4> QED
        BY <4>1, RegistryAssumption
    <3> QED
      BY <2>1, <3>1 DEF RegistryInv, HeardStaysOn
  <2>4. \A x \in Name : StampExplained(x)'
    BY <2>1 DEF RegistryInv, StampExplained
  <2> QED
    BY <1>t, <2>1, <2>2, <2>3, <2>4, InvParts DEF RegistryInv
<1>10. ASSUME ReadDBAction PROVE RegistryInv'
  BY <1>10, <1>t, ReloadKeeps
<1>11. ASSUME Tick PROVE RegistryInv'
  BY <1>11, <1>t, TickKeeps
<1>12. CASE UNCHANGED vars
  BY <1>12, <1>t DEF vars, RegistryInv, HeardStaysOn, StampExplained, Looked
<1> QED
  BY <1>1, <1>2, <1>3, <1>4, <1>5, <1>6, <1>7, <1>9, <1>10, <1>11, <1>12 DEF Next

LEMMA InvAlways == Spec => []RegistryInv
BY InvOfInit, InvOfStep, PTL DEF Spec

(***************************************************************************)
(* Theorems.                                                               *)
(***************************************************************************)

\* The map is well typed: entries that are off are not asked, and what was
\* asked or stored is in the map.
THEOREM RegistryTypes == Spec => []RegistryTypeOK
<1>1. RegistryInv => RegistryTypeOK
  BY DEF RegistryInv
<1> QED
  BY <1>1, InvAlways, PTL

\* With authentication, CheckDeviceStatus takes off no entry that registered
\* or sent a keepalive within the time-out.
THEOREM HeardIsRegistered == Spec => []HeardStaysOn
<1>1. RegistryInv => HeardStaysOn
  BY DEF RegistryInv
<1> QED
  BY <1>1, InvAlways, PTL

\* Every registered entry was heard of, or its cameras were stored, within
\* one reload, the time-out and one look.
THEOREM NoSilentEntryStays == Spec => []SilentIsOff
<1>1. RegistryInv => SilentIsOff
  <2> SUFFICES ASSUME RegistryInv, NEW x \in reg
               PROVE  \/ heard[x] <= LongestSilence
                      \/ x \in Device /\ stored[x] <= LongestSilence
    BY DEF SilentIsOff
  <2>1. x \in Name /\ quiet[x] \in Nat /\ heard[x] \in Nat /\ scanClock \in 0 .. MaxScan
        /\ (x \in Device => stored[x] \in Nat)
    BY DEF RegistryInv, RegistryTypeOK
  <2>2. Looked(x) /\ StampExplained(x)
    BY <2>1 DEF RegistryInv
  <2> QED
    BY <2>1, <2>2, RegistryAssumption DEF Looked, StampExplained, LongestSilence
<1> QED
  BY <1>1, InvAlways, PTL

\* A device is not asked twice for the catalog it has given.
THEOREM QueriedOnce == Spec => AskedOnce
<1>1. ASSUME RegistryInv, RegistryInv', [Next]_vars
      PROVE  [\A d \in Device :
                d \in asked' \ asked => d \notin queried \/ StartRun(d)]_vars
  <2> SUFFICES ASSUME NEW d \in Device, d \in asked', d \notin asked, d \in queried
               PROVE  StartRun(d)
    OBVIOUS
  <2>1. d \notin ask /\ d \in reg
    BY <1>1 DEF RegistryInv, RegistryTypeOK
  <2>2. ASSUME NEW x \in Name PROVE ~ RegisterKnown(x)
    BY <2>1 DEF RegisterKnown, MustAsk
  <2>3. ASSUME NEW e \in Device, StartRun(e) PROVE e = d
    BY <2>3 DEF StartRun
  <2>4. ~ UNCHANGED asked
    OBVIOUS
  <2>5. ASSUME NEW e \in Device PROVE ~ CloseSession(e)
    BY DEF CloseSession
  <2> QED
    BY <1>1, <2>2, <2>3, <2>4, <2>5
    DEF Next, vars, RegisterOpen, RegisterUser, Unregister, DeviceKeepaliveRecv,
        SaveCatalogToDB, CheckDeviceStatus, ReadDBAction, Tick
<1> QED
  BY <1>1, InvAlways, PTL DEF Spec, AskedOnce
==============================================================================
