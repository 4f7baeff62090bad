---------------------------- MODULE CatalogStore ----------------------------
(***************************************************************************)
(* The cameras of a device in the database, under the catalogs that        *)
(* SessionRelay receives.  SaveCatalogInfoThread takes the packets out of  *)
(* m_listCatalogInfo one by one, writes their cameras with the time, and   *)
(* at "End" deletes every camera of the device that was not written within *)
(* the last hour: what the catalog did not list any more.  A NOTIFY of the *)
(* device changes single cameras beside that.                              *)
(***************************************************************************)
EXTENDS SessionRelay

CONSTANTS
    Camera,      \* the cameras of one device
    Known,       \* those of an earlier catalog, more than an hour old
    Lists,       \* the cameras in each packet of a catalog
    WriteDB,     \* m_nWriteDB, whether catalogs are written to the database
    Notified     \* the cameras whose changes the device announces

ASSUME StoreAssumption ==
    /\ Lists \in [Answer -> SUBSET Camera]
    /\ WriteDB \in BOOLEAN
    /\ Known \subseteq Camera
    /\ Notified \subseteq Camera

VARIABLES
    db,          \* per camera: absent, written within the hour, or older
    late,        \* catalogs an hour passed under
    cleaned      \* catalogs whose "End" has been acted upon

storeVars == <<db, late, cleaned>>
vars == <<relayVars, storeVars>>

Wrote(cams) == db' = [c \in Camera |-> IF c \in cams THEN "fresh" ELSE db[c]]

\* The thread works on the first element and then unlinks it.
AtHead == catalogs # <<>> /\ ~ torn /\ ~ erasing

SaverFrame == UNCHANGED <<queryVars, sessionVars, answerVars, superiorVars, catalogs, torn>>

\* The cameras of a packet that get written: a failed statement gives up the
\* rest of the packet.
Writable(a) ==
    IF ~ WriteDB THEN {{}}
    ELSE IF DbFails THEN SUBSET Lists[a]
    ELSE {Lists[a]}

SaveCatalogToDB ==
    /\ AtHead
    /\ Head(catalogs) \in Answer
    /\ \E cams \in Writable(Head(catalogs)) :
          /\ Wrote(cams)
          /\ missed' = IF cams = Lists[Head(catalogs)]
                         THEN missed ELSE missed \cup {Head(catalogs)}
    /\ erasing' = TRUE
    /\ UNCHANGED <<late, cleaned>>
    /\ SaverFrame

\* Nothing is deleted when the query for the cameras fails.
DeleteOvertimeChannel ==
    /\ AtHead
    /\ Head(catalogs) \notin Answer
    /\ \/ /\ db' = [c \in Camera |-> IF db[c] = "old" THEN "absent" ELSE db[c]]
          /\ cleaned' = cleaned \cup {Head(catalogs)[1]}
       \/ DbFails /\ UNCHANGED <<db, cleaned>>
    /\ erasing' = TRUE
    /\ UNCHANGED <<late, missed>>
    /\ SaverFrame

\* Mutant: the thread unlinks once more.
EraseFirstTwice ==
    /\ erasing
    /\ catalogs' = Tail(catalogs)
    /\ UNCHANGED <<erasing, queryVars, sessionVars, answerVars, superiorVars, torn, missed, storeVars>>

EraseFirst ==
    /\ erasing
    /\ catalogs' = Tail(catalogs)
    /\ erasing' = FALSE
    /\ UNCHANGED <<queryVars, sessionVars, answerVars, superiorVars, torn, missed, storeVars>>

\* DeviceNotifyAnswer writes the database from its IO thread.
DeviceNotifyAnswer(c) ==
    /\ WriteDB
    /\ c \in Notified
    /\ db' \in {[db EXCEPT ![c] = "absent"], [db EXCEPT ![c] = "fresh"]}
    /\ UNCHANGED <<relayVars, late, cleaned>>

\* Catalogs that were asked for and whose "End" has not been acted upon.
Running == {r \in Request : KindOf[r] = "catalog" /\ step[r] # "new"} \ cleaned

HourPasses ==
    /\ Running # {}
    /\ \E c \in Camera : db[c] = "fresh"
    /\ db' = [c \in Camera |-> IF db[c] = "fresh" THEN "old" ELSE db[c]]
    /\ late' = late \cup Running
    /\ UNCHANGED <<relayVars, cleaned>>

InitialDb == [c \in Camera |-> IF c \in Known THEN "old" ELSE "absent"]

Init ==
    /\ RelayInit
    /\ db = InitialDb
    /\ late = {}
    /\ cleaned = {}

Next ==
    \/ RelayNext /\ UNCHANGED storeVars
    \/ SaveCatalogToDB
    \/ DeleteOvertimeChannel
    \/ EraseFirst
    \/ \E c \in Camera : DeviceNotifyAnswer(c)
    \/ HourPasses

Spec == Init /\ [][Next]_vars

(***************************************************************************)
(* Correctness.                                                            *)
(***************************************************************************)

\* The lists of the state have members of the right kind.
RelayTypeOK ==
    /\ made \subseteq Request \cup Superior \cup Alarm
    /\ dwSn \in Nat \ {0}
    /\ step \in [Request -> {"new", "numbered", "saved", "sent", "done"}]
    /\ key \in [Request -> Sn \cup {0}]
    /\ overlapped \in BOOLEAN
    /\ session \in [Sn -> Request \cup {NoSession}]
    /\ num \in [Request -> Nat]
    /\ age \in [Request -> Nat]
    /\ expired \subseteq Request
    /\ cleared \subseteq Request
    /\ waited \in 0 .. MaxWait
    /\ repeated \subseteq arrived
    /\ arrived \subseteq Answer
    /\ told \in [Alarm -> SUBSET Request]
    /\ catalogs \in Seq(Answer \cup {End(r) : r \in Request})
    /\ erasing => catalogs # <<>>
    /\ wanted \subseteq Superior
    /\ pending \in Nat
    /\ gaveUp \subseteq Superior
    /\ db \in [Camera -> {"absent", "fresh", "old"}]

\* No other query carries the same serial number.
Unique(r) ==
    /\ key[r] # 0
    /\ \A other \in Request \ {r} : key[other] # key[r]

\* A packet of the answer to r has come twice.
Doubled(r) == \E a \in repeated : a[1] = r

\* Two queries that the server numbers have different numbers, unless two
\* threads were inside m_dwSn++ at the same time.
SerialsApart ==
    ~ overlapped =>
        \A r, other \in Request :
            /\ r # other
            /\ KindOf[r] \in Numbered
            /\ KindOf[other] \in Numbered
            /\ key[r] # 0
            => key[r] # key[other]

\* Queries whose SN nobody else uses do not disturb each other: every packet
\* that comes goes to the client that asked, with the SN it knows, unless the
\* query has timed out or a packet came twice; nothing else goes there; and a
\* guard stays until its own client resets it.
AnswersReachAsker ==
    \A r \in Request : Unique(r) =>
        /\ \A f \in forwarded : f.to = r => f.answer[1] = r /\ f.sn = SnOf[r]
        /\ KindOf[r] \in Relayed /\ ~ Doubled(r) /\ r \notin expired =>
              \A a \in arrived : a[1] = r => \E f \in forwarded : f.to = r /\ f.answer = a
        /\ KindOf[r] = "guard" /\ r \notin cleared => Stored(r)

\* A client that has set a guard, with an SN nobody else uses, and not reset it
\* is told of every alarm, and only such clients are, unless a query has the SN
\* of the alarm.
GuardsTold ==
    [][\A n \in Alarm :
          told'[n] # told[n] /\ (\A r \in Request : key[r] # AlarmSn[n]) =>
              /\ \A r \in told'[n] : KindOf[r] = "guard"
              /\ \A r \in Request :
                    KindOf[r] = "guard" /\ Unique(r) /\ r \notin cleared => r \in told'[n]]_vars

\* The session of a record or catalog query whose answers are lost is gone
\* after its life and one more look of CheckTimeAction.
SessionsExpire ==
    \A r \in Request :
        KindOf[r] \in Counted /\ Stored(r) => age[r] <= Life + MaxWait

\* What the clean-up after a catalog may have been misled by: another query had
\* the SN, a packet came twice, was not stored or was lost in the list, or more
\* than an hour went by.
Excused(r) ==
    \/ ~ Unique(r)
    \/ Doubled(r)
    \/ \E a \in missed : a[1] = r
    \/ r \in late

\* The clean-up deletes no camera that the catalog has just listed.
ListedCamerasKept ==
    [][\A r \in cleaned' \ cleaned : Excused(r) \/
          \A i \in Parts(r) : \A c \in Lists[<<r, i>>] :
              db[c] # "absent" => db'[c] # "absent"]_vars

(***************************************************************************)
(* Progress.  m_sLock is only held for long by a thread that sends the     *)
(* catalog, and that thread ends.                                          *)
(***************************************************************************)
FairSpec == Spec /\ WF_vars(SuperiorStep /\ UNCHANGED storeVars)

\* Every catalog query of a superior platform is answered, also when its thread
\* finds that another has taken its session, unless a thread that held the
\* session found no cameras or one of its two statements failed.
SuperiorServed ==
    \A p \in Superior : (came[p] > 0) ~> (served[p] > 0 \/ p \in gaveUp)
=============================================================================
