---------------------------- MODULE SessionRelay ----------------------------
(***************************************************************************)
(* m_SessionMap, where SIPServer keeps who is to get the answer of a query *)
(* it passes on.  The key is the SN of the XML body, and there are two     *)
(* kinds of them: a record query and a catalog query are given the next    *)
(* value of the server's own counter m_dwSn, queries of device information *)
(* and status and guards keep the SN their client chose.  The map does not *)
(* know them apart, and neither do the handlers of the answers, which look *)
(* up the SN and hardly ever the title.                                    *)
(*                                                                         *)
(* The handlers of MESSAGE run in IO threads side by side.  Access to the  *)
(* map is under m_sLock, m_dwSn++ is not: it is a read and a later write.  *)
(* A thread that sends the catalog to superior platforms holds m_sLock     *)
(* until it has served every such session.                                 *)
(***************************************************************************)
EXTENDS Integers, Sequences, FiniteSets

CONSTANTS
    Request,     \* queries the server passes on or makes itself
    KindOf,      \* what each asks for
    SnOf,        \* the SN its client has put into it
    SumOf,       \* the SumNum the device reports in each packet of its answer
    Superior,    \* catalog queries of superior platforms
    Alarm,       \* alarms of devices
    AlarmSn,     \* the SN the device has put into each
    Sn,          \* serial numbers
    FirstSn,     \* the initial value of m_dwSn
    Life,        \* 20 minutes
    Period,      \* 5 minutes from look to look of CheckTimeAction
    MaxWait,     \* bound on that time, with what delays the thread
    MaxRepeat,   \* bound on packets, and on a superior's queries, that come again
    Unserved,    \* a device may be unknown and the table of cameras empty
    DbFails,     \* a statement may fail, or the device be missing in the database
    Together,    \* bound: the sets of queries that are made beside each other
    NoSession

Kind == {"record", "catalog", "info", "status", "guard", "beat"}

\* Kinds numbered by the server; a "beat", a keepalive or a subscription,
\* takes a number and keeps no session.
Numbered == {"record", "catalog", "beat"}

\* Kinds whose answers go on to a client, and those answered in packets.
Relayed == {"record", "info", "status"}
Counted == {"record", "catalog"}

ASSUME RelayAssumption ==
    /\ KindOf \in [Request -> Kind]
    /\ Sn \subseteq Nat \ {0}
    /\ SnOf \in [Request -> Sn]
    /\ SumOf \in [Request -> Nat]
    /\ FirstSn \in Nat \ {0}
    /\ Life \in Nat
    /\ Period \in Nat
    /\ MaxWait \in Nat
    /\ Period <= MaxWait
    /\ MaxRepeat \in Nat
    /\ Unserved \in BOOLEAN
    /\ DbFails \in BOOLEAN
    /\ AlarmSn \in [Alarm -> Sn]
    /\ Together \subseteq SUBSET (Request \cup Superior \cup Alarm)
    /\ NoSession \notin Request

VARIABLES
    made,        \* the queries and alarms there are
    dwSn,        \* m_dwSn
    step,        \* how far the handler of each query has come
    key,         \* the SN each query carries, 0 before it has one
    overlapped,  \* whether two threads ever were inside m_dwSn++ together
    session,     \* m_SessionMap: per SN the query whose SESSIONINFO it holds
    num,         \* its nNum
    age,         \* the time since its recvTime
    expired,     \* queries whose session timed out
    cleared,     \* guards their client has reset
    waited,      \* the time since the last look of CheckTimeAction
    arrived,     \* packets of answers that have come
    repeated,    \* and those that have come again
    forwarded,   \* packets sent on to clients
    told,        \* per alarm the queries whose clients it was sent on to
    catalogs,    \* m_listCatalogInfo
    erasing,     \* its first element is being unlinked by another thread
    torn,        \* its links are broken: the thread finds it empty for ever
    missed,      \* catalog packets that never reached the database whole
    wanted,      \* sessions titled CATALOGSS
    pending,     \* SuperiorCatalogThreads that wait for m_sLock
    serving,     \* one that holds it
    came,        \* how often each query of a superior has come
    served,      \* and how often it was answered
    gaveUp       \* those a thread has not answered: no cameras, or a failed statement

queryVars == <<made, dwSn, step, key, overlapped>>
mapVars == <<session, num, age>>
sessionVars == <<mapVars, expired, cleared, waited>>
answerVars == <<arrived, repeated, forwarded, told>>
listVars == <<catalogs, torn, missed>>
superiorVars == <<wanted, pending, serving, came, served, gaveUp>>
relayVars == <<queryVars, sessionVars, answerVars, listVars, erasing, superiorVars>>

\* A packet has one item; an answer without items is one packet, and so is one
\* that has no SumNum.
Parts(r) == 1 .. (IF KindOf[r] \in Counted /\ SumOf[r] # 0 THEN SumOf[r] ELSE 1)

Answer == UNION {{r} \X Parts(r) : r \in Request}

\* The entry of m_listCatalogInfo after the last packet, with the body "End".
End(r) == <<r, 0>>

(***************************************************************************)
(* m_SessionMap.                                                           *)
(***************************************************************************)
Stored(r) == key[r] # 0 /\ session[key[r]] = r

\* map::insert keeps the entry that is there.
Insert(r, k) ==
    IF session[k] = NoSession
      THEN /\ session' = [session EXCEPT ![k] = r]
           /\ num' = [num EXCEPT ![r] = 0]
           /\ age' = [age EXCEPT ![r] = 0]
      ELSE UNCHANGED mapVars

Erase(k) ==
    /\ session' = [session EXCEPT ![k] = NoSession]
    /\ UNCHANGED <<num, age>>

\* Mutant: the session ends with the packet before the last.
CountEarly(k, sum) ==
    LET n == num[session[k]] + 1
    IN  /\ num' = [num EXCEPT ![session[k]] = n]
        /\ session' = IF n + 1 >= sum THEN [session EXCEPT ![k] = NoSession] ELSE session
        /\ UNCHANGED age

\* nNum grows with each packet; the session ends when it reaches SumNum.
Count(k, sum) ==
    LET n == num[session[k]] + 1
    IN  /\ num' = [num EXCEPT ![session[k]] = n]
        /\ session' = IF n >= sum THEN [session EXCEPT ![k] = NoSession] ELSE session
        /\ UNCHANGED age

(***************************************************************************)
(* Queries.  m_dwSn++ reads the counter and writes it back later.          *)
(***************************************************************************)
Goes(r, from, to) ==
    /\ r \in made
    /\ step[r] = from
    /\ step' = [step EXCEPT ![r] = to]
    /\ UNCHANGED made

\* SendCatalogMsg is called under m_vLock, so two catalog queries do not meet.
FetchSn(r) ==
    /\ KindOf[r] \in Numbered
    /\ KindOf[r] = "catalog" =>
           \A other \in Request : KindOf[other] = "catalog" => step[other] \in {"new", "done"}
    /\ dwSn \in Sn
    /\ Goes(r, "new", "numbered")
    /\ key' = [key EXCEPT ![r] = dwSn]
    /\ overlapped' = (overlapped \/ \E other \in Request : step[other] = "numbered")
    /\ UNCHANGED <<dwSn, sessionVars, answerVars, listVars, erasing, superiorVars>>

\* Mutant: the counter is not moved on.
StoreSnKept(r) == UNCHANGED <<dwSn, key, overlapped>>

StoreSn(r) ==
    /\ dwSn' = key[r] + 1
    /\ UNCHANGED <<key, overlapped>>

QueryFrame == UNCHANGED <<expired, cleared, waited, answerVars, listVars, erasing, superiorVars>>

\* RecordInfoMsgRecv: the session is stored before the query is sent.
SaveRecord(r) ==
    /\ KindOf[r] = "record"
    /\ ~ serving
    /\ Goes(r, "numbered", "saved")
    /\ StoreSn(r)
    /\ Insert(r, key[r])
    /\ QueryFrame

\* SendCatalogMsg: the query is sent before its session is stored.
SendCatalog(r) ==
    /\ KindOf[r] = "catalog"
    /\ Goes(r, "numbered", "sent")
    /\ StoreSn(r)
    /\ UNCHANGED mapVars
    /\ QueryFrame

SaveCatalog(r) ==
    /\ KindOf[r] = "catalog"
    /\ ~ serving
    /\ Goes(r, "sent", "done")
    /\ Insert(r, key[r])
    /\ UNCHANGED <<dwSn, key, overlapped>>
    /\ QueryFrame

\* A keepalive to a superior platform, or a subscription.
SendBeat(r) ==
    /\ KindOf[r] = "beat"
    /\ Goes(r, "numbered", "done")
    /\ StoreSn(r)
    /\ UNCHANGED mapVars
    /\ QueryFrame

\* The session is stored under the SN of the client, if that is free.
SaveQuery(r) ==
    /\ ~ serving
    /\ Goes(r, "new", "saved")
    /\ key' = [key EXCEPT ![r] = SnOf[r]]
    /\ Insert(r, SnOf[r])
    /\ UNCHANGED <<dwSn, overlapped>>
    /\ QueryFrame

DeviceInfoMsgRecv(r) == KindOf[r] = "info" /\ SaveQuery(r)

DeviceStatusMsgRecv(r) == KindOf[r] = "status" /\ SaveQuery(r)

\* DeviceGuardMsgRecv for SetGuard.
SetGuard(r) == KindOf[r] = "guard" /\ SaveQuery(r)

\* The query is passed on to the device.
SendQuery(r) ==
    /\ Goes(r, "saved", "done")
    /\ UNCHANGED <<dwSn, key, overlapped, mapVars>>
    /\ QueryFrame

\* GetDeviceAddr finds nothing: the client has its 200, or is told of an error,
\* and no session is kept.
QueryDropped(r) ==
    /\ Unserved
    /\ KindOf[r] \in Relayed \cup {"guard"}
    /\ Goes(r, "new", "done")
    /\ UNCHANGED <<dwSn, key, overlapped, mapVars>>
    /\ QueryFrame

\* DeviceGuardMsgRecv for ResetGuard: whatever session has its SN is erased.
ResetGuard(r) ==
    /\ KindOf[r] = "guard"
    /\ ~ serving
    /\ step[r] = "done" /\ key[r] # 0
    /\ r \notin cleared
    /\ cleared' = cleared \cup {r}
    /\ Erase(key[r])
    /\ UNCHANGED <<queryVars, expired, waited, answerVars, listVars, erasing, superiorVars>>

(***************************************************************************)
(* Answers.  The device has the query; its packets come in any order, some *)
(* never and some twice.                                                   *)
(***************************************************************************)
Asked(r) == key[r] # 0 /\ step[r] \in {"sent", "done"}

Comes(a) ==
    /\ ~ serving
    /\ Asked(a[1])
    /\ \/ /\ a \notin arrived
          /\ arrived' = arrived \cup {a}
          /\ UNCHANGED repeated
       \/ /\ a \in arrived
          /\ Cardinality(repeated) < MaxRepeat
          /\ repeated' = repeated \cup {a}
          /\ UNCHANGED arrived

AnswerFrame == UNCHANGED <<queryVars, expired, cleared, waited, told, erasing, superiorVars>>

\* The SESSIONINFO of a record query keeps its client's SN, the others none.
OwnSn(r) == IF KindOf[r] = "record" THEN SnOf[r] ELSE 0

Forward(a, to, sn) ==
    forwarded' = forwarded \cup {[answer |-> a, to |-> to, sn |-> sn]}

\* Every packet goes on, with the SN the client knows.
RecordInfoAnswerRecv(a) ==
    /\ KindOf[a[1]] = "record"
    /\ Comes(a)
    /\ LET k == key[a[1]]
           to == session[k]
       IN  IF to = NoSession
             THEN UNCHANGED <<mapVars, forwarded>>
             ELSE /\ Forward(a, to, OwnSn(to))
                  /\ IF SumOf[a[1]] = 0 THEN UNCHANGED mapVars ELSE Count(k, SumOf[a[1]])
    /\ UNCHANGED listVars
    /\ AnswerFrame

\* The first answer goes on and ends the session.
RelayOnce(a) ==
    /\ Comes(a)
    /\ LET k == key[a[1]]
           to == session[k]
       IN  IF to = NoSession
             THEN UNCHANGED <<mapVars, forwarded>>
             ELSE Forward(a, to, k) /\ Erase(k)
    /\ UNCHANGED listVars
    /\ AnswerFrame

DeviceInfoAnswerRecv(a) == KindOf[a[1]] = "info" /\ RelayOnce(a)

DeviceStatusAnswerRecv(a) == KindOf[a[1]] = "status" /\ RelayOnce(a)

Elements(s) == {s[i] : i \in DOMAIN s}

\* What is left of one or two elements.
Remains(s) == {<<>>, s} \cup {<<x>> : x \in Elements(s)}

\* push_back does not hold off the thread that empties the list: while that
\* thread unlinks the only element, the new ones may be lost, and the list with
\* them.
Push(new) ==
    \/ /\ ~ torn
       /\ catalogs' = catalogs \o new
       /\ UNCHANGED <<torn, missed>>
    \/ /\ erasing /\ Len(catalogs) = 1
       /\ \E kept \in Remains(new) :
             /\ catalogs' = catalogs \o kept
             /\ missed' = missed \cup (Elements(new) \ Elements(kept))
             /\ torn' \in {torn, kept = <<>>}
    \/ /\ torn
       /\ missed' = missed \cup Elements(new)
       /\ UNCHANGED <<catalogs, torn>>

\* Mutant: "End" goes before the packet that completes the catalog.
TakenLast(a) == <<End(a[1]), a>>

Taken(a) == <<a, End(a[1])>>

\* The packet is queued for the database, the last one followed by "End".
DeviceCatalogAnswer(a) ==
    /\ KindOf[a[1]] = "catalog"
    /\ Comes(a)
    /\ LET r == a[1]
           k == key[r]
           to == session[k]
       IN  IF to = NoSession \/ KindOf[to] # "catalog"
             THEN UNCHANGED <<mapVars, listVars>>
             ELSE IF SumOf[r] = 0
               THEN Push(<<a>>) /\ UNCHANGED mapVars
               ELSE /\ Count(k, SumOf[r])
                    /\ Push(IF num[to] + 1 >= SumOf[r] THEN Taken(a) ELSE <<a>>)
    /\ UNCHANGED forwarded
    /\ AnswerFrame

(***************************************************************************)
(* Alarms.  A session with the SN of the alarm is taken for the one it is  *)
(* for; otherwise every guard is told.                                     *)
(***************************************************************************)
Guards == {r \in Request : KindOf[r] = "guard" /\ Stored(r)}

\* Mutant: the search ends with the first guard.
FirstTold(k) ==
    IF session[k] # NoSession THEN {session[k]}
    ELSE IF Guards = {} THEN {} ELSE {CHOOSE r \in Guards : TRUE}

Told(k) == IF session[k] # NoSession THEN {session[k]} ELSE Guards

DeviceAlarmMsgRecv(n) ==
    /\ n \in made
    /\ ~ serving
    /\ told' = [told EXCEPT ![n] = Told(AlarmSn[n])]
    /\ UNCHANGED <<queryVars, sessionVars, arrived, repeated, forwarded, listVars, erasing,
                   superiorVars>>

(***************************************************************************)
(* CheckTimeAction, every five minutes: sessions of record and catalog     *)
(* queries do not outlive twenty minutes.                                  *)
(***************************************************************************)
\* Mutant: only record queries are looked for.
OverdueRecords == {r \in Request : KindOf[r] = "record" /\ Stored(r) /\ age[r] > Life}

Overdue == {r \in Request : KindOf[r] \in Counted /\ Stored(r) /\ age[r] > Life}

CheckTimeAction ==
    /\ ~ serving
    /\ waited >= Period
    /\ waited' = 0
    /\ session' = [k \in Sn |-> IF session[k] \in Overdue THEN NoSession ELSE session[k]]
    /\ expired' = expired \cup Overdue
    /\ UNCHANGED <<queryVars, num, age, cleared, answerVars, listVars, erasing, superiorVars>>

\* Five minutes pass.  Ages matter while the session is stored.
Tick ==
    /\ waited < MaxWait
    /\ waited' = waited + 1
    /\ age' = [r \in Request |-> IF KindOf[r] \in Counted /\ Stored(r)
                                   THEN age[r] + 1 ELSE age[r]]
    /\ UNCHANGED <<queryVars, session, num, expired, cleared, answerVars, listVars,
                   erasing, superiorVars>>

(***************************************************************************)
(* Superior platforms ask for the catalog.  Each query starts a thread,    *)
(* and each thread serves all the sessions it finds.                       *)
(***************************************************************************)
SuperiorFrame == UNCHANGED <<queryVars, sessionVars, answerVars, listVars, erasing>>

SuperiorCatalogAnswer(p) ==
    /\ p \in made
    /\ ~ serving
    /\ came[p] <= MaxRepeat
    /\ came' = [came EXCEPT ![p] = @ + 1]
    /\ wanted' = wanted \cup {p}
    /\ pending' = pending + 1
    /\ UNCHANGED <<serving, served, gaveUp>>
    /\ SuperiorFrame

SuperiorCatalogThread ==
    /\ ~ serving
    /\ pending > 0
    /\ pending' = pending - 1
    /\ serving' = TRUE
    /\ UNCHANGED <<wanted, came, served, gaveUp>>
    /\ SuperiorFrame

\* The cameras are sent; or the SELECT for them fails after they were counted,
\* and SuperiorCatalogThread asks for no result.
SendCameras(p) ==
    \/ served' = [served EXCEPT ![p] = @ + 1] /\ UNCHANGED gaveUp
    \/ DbFails /\ gaveUp' = gaveUp \cup {p} /\ UNCHANGED served

\* Mutant: all the sessions are erased with the one that is served.
SuperiorCatalogSendClears(p) ==
    /\ serving
    /\ p \in wanted
    /\ wanted' = {}
    /\ SendCameras(p)
    /\ UNCHANGED <<pending, serving, came>>
    /\ SuperiorFrame

\* The session is erased whether or not anything could be sent.
SuperiorCatalogSend(p) ==
    /\ serving
    /\ p \in wanted
    /\ wanted' = wanted \ {p}
    /\ SendCameras(p)
    /\ UNCHANGED <<pending, serving, came>>
    /\ SuperiorFrame

\* No session is left; or the cameras cannot be counted, or there are none, and
\* the thread gives up.  The sessions stay for a thread that comes later.
SuperiorCatalogEnd ==
    /\ serving
    /\ \/ wanted = {} /\ UNCHANGED gaveUp
       \/ wanted # {} /\ (Unserved \/ DbFails) /\ gaveUp' = gaveUp \cup wanted
    /\ serving' = FALSE
    /\ UNCHANGED <<wanted, pending, came, served>>
    /\ SuperiorFrame

(***************************************************************************)
(* The relay.                                                              *)
(***************************************************************************)
RelayInit ==
    /\ made \in Together
    /\ dwSn = FirstSn
    /\ step = [r \in Request |-> "new"]
    /\ key = [r \in Request |-> 0]
    /\ overlapped = FALSE
    /\ session = [k \in Sn |-> NoSession]
    /\ num = [r \in Request |-> 0]
    /\ age = [r \in Request |-> 0]
    /\ expired = {}
    /\ cleared = {}
    /\ waited = 0
    /\ arrived = {}
    /\ repeated = {}
    /\ forwarded = {}
    /\ told = [n \in Alarm |-> {}]
    /\ catalogs = <<>>
    /\ erasing = FALSE
    /\ torn = FALSE
    /\ missed = {}
    /\ wanted = {}
    /\ pending = 0
    /\ serving = FALSE
    /\ came = [p \in Superior |-> 0]
    /\ served = [p \in Superior |-> 0]
    /\ gaveUp = {}

SuperiorStep ==
    \/ SuperiorCatalogThread
    \/ \E p \in Superior : SuperiorCatalogSend(p)
    \/ SuperiorCatalogEnd

RelayNext ==
    \/ \E r \in Request : FetchSn(r)
    \/ \E r \in Request : SaveRecord(r)
    \/ \E r \in Request : SendCatalog(r)
    \/ \E r \in Request : SaveCatalog(r)
    \/ \E r \in Request : SendBeat(r)
    \/ \E r \in Request : DeviceInfoMsgRecv(r)
    \/ \E r \in Request : DeviceStatusMsgRecv(r)
    \/ \E r \in Request : SetGuard(r)
    \/ \E r \in Request : SendQuery(r)
    \/ \E r \in Request : QueryDropped(r)
    \/ \E r \in Request : ResetGuard(r)
    \/ \E a \in Answer : RecordInfoAnswerRecv(a)
    \/ \E a \in Answer : DeviceInfoAnswerRecv(a)
    \/ \E a \in Answer : DeviceStatusAnswerRecv(a)
    \/ \E a \in Answer : DeviceCatalogAnswer(a)
    \/ \E n \in Alarm : DeviceAlarmMsgRecv(n)
    \/ CheckTimeAction
    \/ Tick
    \/ \E p \in Superior : SuperiorCatalogAnswer(p)
    \/ SuperiorStep
=============================================================================
