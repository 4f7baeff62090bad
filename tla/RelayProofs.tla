----------------------------- MODULE RelayProofs -----------------------------
(***************************************************************************)
(* Sessions, answers and the clean-up of catalogs, for any queries, serial *)
(* numbers, packets and times: the safety properties of CatalogStore.      *)
(***************************************************************************)
EXTENDS CatalogStore, FiniteSetTheorems, SequenceTheorems, TLAPS

(***************************************************************************)
(* The inductive invariants, each relative to those before it.             *)
(***************************************************************************)
\* A session is stored under the SN of its query, when that has been passed on or
\* is about to be; a query has an SN when its handler has begun, that of its client
\* if it is of such a kind.
Keyed ==
    /\ \A k \in Sn : session[k] # NoSession =>
          key[session[k]] = k /\ step[session[k]] \in {"saved", "done"}
    /\ \A r \in Request :
          /\ step[r] = "new" => key[r] = 0
          /\ step[r] \in {"numbered", "sent"} => key[r] # 0
          /\ step[r] = "sent" => KindOf[r] = "catalog"
          /\ KindOf[r] \in {"info", "status", "guard"} /\ key[r] # 0 => key[r] = SnOf[r]

RelayInv == RelayTypeOK /\ Keyed

\* While no two threads were inside m_dwSn++, the counter is past every number
\* given, but the one that a thread is just storing.
Counter ==
    ~ overlapped => \A r \in Request :
        KindOf[r] \in Numbered =>
            /\ step[r] = "numbered" =>
                  /\ key[r] = dwSn
                  /\ \A other \in Request : step[other] = "numbered" => other = r
            /\ step[r] # "numbered" => key[r] < dwSn

\* A session is looked at before it is older than its life and the time since
\* the last look.
AgesBounded ==
    \A k \in Sn : session[k] # NoSession /\ KindOf[session[k]] \in Counted =>
        age[session[k]] <= Life + waited

\* What was sent on went to a query with the SN of the answer, and with the
\* number that session says.
ForwardedBySn ==
    \A f \in forwarded :
        /\ f.to \in Request
        /\ f.answer \in Answer
        /\ key[f.to] # 0
        /\ key[f.answer[1]] = key[f.to]
        /\ f.sn = IF KindOf[f.answer[1]] = "record" THEN OwnSn(f.to) ELSE key[f.to]
        /\ KindOf[f.answer[1]] \in Relayed

\* The packets of the answer to r that have come.
Came(r) == {a \in arrived : a[1] = r}

WholeAnswer(r) == {r} \X Parts(r)

CameAsked == \A a \in arrived : Asked(a[1])

GuardHeld ==
    \A r \in Request : KindOf[r] = "guard" /\ Unique(r) /\ r \notin cleared => Stored(r)

\* The session of a query is there until its answer has come.
AnswerAwaited ==
    \A r \in Request : KindOf[r] \in {"info", "status"} /\ Unique(r) =>
        Stored(r) \/ Came(r) = WholeAnswer(r)

RecordAwaited ==
    \A r \in Request :
        /\ KindOf[r] = "record"
        /\ Unique(r)
        /\ step[r] # "numbered"
        /\ r \notin expired
        /\ ~ Doubled(r)
        => \/ Stored(r) /\ (SumOf[r] # 0 => num[r] = Cardinality(Came(r)))
           \/ SumOf[r] # 0 /\ Came(r) = WholeAnswer(r)

AnswersForwarded ==
    \A r \in Request :
        KindOf[r] \in Relayed /\ Unique(r) /\ ~ Doubled(r) /\ r \notin expired =>
            \A a \in Came(r) : \E f \in forwarded : f.to = r /\ f.answer = a

AnswerInv ==
    /\ ForwardedBySn /\ CameAsked
    /\ GuardHeld /\ AnswerAwaited /\ RecordAwaited /\ AnswersForwarded

(***************************************************************************)
(* The queue of packets and the database, for a catalog that nothing       *)
(* excuses and whose clean-up is still to come.                            *)
(***************************************************************************)
Due(r) == KindOf[r] = "catalog" /\ r \notin cleaned /\ ~ Excused(r)

Written(a) == \A c \in Lists[a] : db[c] # "old"

Queued(a) == \E j \in DOMAIN catalogs : catalogs[j] = a

\* Only catalogs that were asked for are queued.
QueuedAsked ==
    \A i \in DOMAIN catalogs :
        KindOf[catalogs[i][1]] = "catalog" /\ key[catalogs[i][1]] # 0

\* No more packets were counted than have come; if all were, all are queued or
\* written.
CatalogCounted ==
    \A r \in Request :
        /\ key[r] = 0 => num[r] = 0
        /\ KindOf[r] = "catalog" /\ Unique(r) /\ ~ Doubled(r) =>
              num[r] <= Cardinality(Came(r))

CountedQueued ==
    \A r \in Request : Due(r) /\ num[r] = Cardinality(Came(r)) =>
        \A a \in Came(r) : Queued(a) \/ Written(a)

\* Every packet is before the "End" of its catalog, or written.
EndsLast ==
    \A r \in Request : Due(r) =>
        \A i \in DOMAIN catalogs : catalogs[i] = End(r) =>
            \A p \in Parts(r) :
                Written(<<r, p>>) \/ \E j \in 1 .. (i - 1) : catalogs[j] = <<r, p>>

\* What is being unlinked was written.
UnlinkedWritten ==
    erasing => \A r \in Request : Due(r) =>
        \A p \in Parts(r) : Head(catalogs) = <<r, p>> => Written(<<r, p>>)

StoreInv == QueuedAsked /\ CatalogCounted /\ CountedQueued /\ EndsLast /\ UnlinkedWritten

(***************************************************************************)
(* Packets.                                                                *)
(***************************************************************************)
LEMMA PartsFacts ==
    ASSUME NEW r \in Request
    PROVE  /\ Parts(r) \subseteq Nat \ {0}
           /\ KindOf[r] \in Counted /\ SumOf[r] # 0 => Parts(r) = 1 .. SumOf[r]
           /\ ~ (KindOf[r] \in Counted /\ SumOf[r] # 0) => Parts(r) = {1}
  BY RelayAssumption DEF Parts

LEMMA AnswerFacts ==
    /\ \A a \in Answer : /\ a[1] \in Request
                         /\ a[2] \in Parts(a[1])
                         /\ a = <<a[1], a[2]>>
    /\ \A r \in Request : \A p \in Parts(r) : <<r, p>> \in Answer
<1>1. Answer = UNION {WholeAnswer(r) : r \in Request}
  BY DEF Answer, WholeAnswer
<1>2. \A r \in Request : \A a \in WholeAnswer(r) :
          a[1] = r /\ a[2] \in Parts(r) /\ a = <<a[1], a[2]>>
  BY DEF WholeAnswer
<1>3. \A r \in Request : \A p \in Parts(r) : <<r, p>> \in WholeAnswer(r)
  BY DEF WholeAnswer
<1> QED
  BY <1>1, <1>2, <1>3

LEMMA EndFacts ==
    ASSUME NEW r \in Request
    PROVE  End(r) \notin Answer /\ End(r)[1] = r
<1>1. \A a \in Answer : a[2] # 0
  BY AnswerFacts, PartsFacts
<1>2. End(r)[1] = r /\ End(r)[2] = 0
  BY DEF End
<1> QED
  BY <1>1, <1>2

\* What is queued.
Element == Answer \cup {End(r) : r \in Request}

LEMMA ElementFacts ==
    ASSUME NEW x \in Element
    PROVE  x[1] \in Request /\ (x \notin Answer => x = End(x[1]))
  BY AnswerFacts, EndFacts DEF Element

LEMMA RemainsFacts ==
    ASSUME NEW new \in Seq(Element), NEW kept \in Remains(new)
    PROVE  /\ kept \in Seq(Element)
           /\ Elements(kept) \subseteq Elements(new)
           /\ Elements(new) \subseteq Element
<1>1. Elements(new) \subseteq Element
  BY DEF Elements
<1>2. CASE kept = <<>>
  BY <1>1, <1>2 DEF Elements
<1>3. ASSUME NEW x \in Elements(new), kept = <<x>>
      PROVE  kept \in Seq(Element) /\ Elements(kept) \subseteq Elements(new)
  BY <1>1, <1>3 DEF Elements
<1> QED
  BY <1>1, <1>2, <1>3 DEF Remains

(***************************************************************************)
(* Types, and the keys of sessions.                                        *)
(***************************************************************************)
QueryTypes ==
    /\ made \subseteq Request \cup Superior \cup Alarm
    /\ dwSn \in Nat \ {0}
    /\ step \in [Request -> {"new", "numbered", "saved", "sent", "done"}]
    /\ key \in [Request -> Sn \cup {0}]
    /\ overlapped \in BOOLEAN

MapTypes ==
    /\ session \in [Sn -> Request \cup {NoSession}]
    /\ num \in [Request -> Nat]
    /\ age \in [Request -> Nat]
    /\ expired \subseteq Request
    /\ cleared \subseteq Request
    /\ waited \in 0 .. MaxWait

AnswerTypes ==
    /\ repeated \subseteq arrived
    /\ arrived \subseteq Answer
    /\ told \in [Alarm -> SUBSET Request]

ListTypes ==
    /\ catalogs \in Seq(Element)
    /\ erasing => catalogs # <<>>

OtherTypes ==
    /\ wanted \subseteq Superior
    /\ pending \in Nat
    /\ gaveUp \subseteq Superior
    /\ db \in [Camera -> {"absent", "fresh", "old"}]

LEMMA TypesSplit ==
    RelayTypeOK <=> QueryTypes /\ MapTypes /\ AnswerTypes /\ ListTypes /\ OtherTypes
  BY DEF RelayTypeOK, QueryTypes, MapTypes, AnswerTypes, ListTypes, OtherTypes, Element

LEMMA InitRelay == Init => RelayInv
<1> SUFFICES ASSUME Init PROVE RelayInv
  OBVIOUS
<1> USE DEF Init, RelayInit
<1>1. QueryTypes
  BY RelayAssumption DEF QueryTypes
<1>2. MapTypes
  BY RelayAssumption DEF MapTypes
<1>3. AnswerTypes /\ ListTypes
  BY DEF AnswerTypes, ListTypes
<1>4. OtherTypes
  BY DEF OtherTypes, InitialDb
<1>5. Keyed
  BY DEF Keyed
<1> QED
  BY <1>1, <1>2, <1>3, <1>4, <1>5, TypesSplit DEF RelayInv

(***************************************************************************)
(* Steps.  Most change few of the variables.                               *)
(***************************************************************************)
\* The steps of the storing thread, of superiors and of devices that do not
\* concern sessions.
Elsewhere == UNCHANGED <<queryVars, sessionVars, arrived, repeated, forwarded>>

\* A query that takes an SN, or stores its session, or is sent.
QueryStep(r) ==
    \/ FetchSn(r)
    \/ SaveRecord(r)
    \/ SendCatalog(r)
    \/ SaveCatalog(r)
    \/ SendBeat(r)
    \/ SaveQuery(r) /\ KindOf[r] \in {"info", "status", "guard"}
    \/ SendQuery(r)
    \/ QueryDropped(r)

AnswerStep(a) ==
    \/ RecordInfoAnswerRecv(a)
    \/ KindOf[a[1]] \in {"info", "status"} /\ RelayOnce(a)
    \/ DeviceCatalogAnswer(a)

LEMMA StepCases ==
    ASSUME [Next]_vars
    PROVE  \/ Elsewhere
           \/ \E r \in Request : QueryStep(r)
           \/ \E r \in Request : ResetGuard(r)
           \/ \E a \in Answer : AnswerStep(a)
           \/ CheckTimeAction
           \/ Tick
<1> USE DEF Elsewhere, queryVars, sessionVars, mapVars
<1>1. CASE UNCHANGED vars
  BY <1>1 DEF vars, relayVars, answerVars
<1>2. CASE SaveCatalogToDB \/ DeleteOvertimeChannel
  BY <1>2 DEF SaveCatalogToDB, DeleteOvertimeChannel, SaverFrame, answerVars
<1>3. CASE EraseFirst
  BY <1>3 DEF EraseFirst, answerVars
<1>4. CASE HourPasses \/ \E c \in Camera : DeviceNotifyAnswer(c)
  BY <1>4 DEF HourPasses, DeviceNotifyAnswer, relayVars, answerVars
<1>5. CASE SuperiorStep \/ \E p \in Superior : SuperiorCatalogAnswer(p)
  BY <1>5 DEF SuperiorStep, SuperiorCatalogAnswer, SuperiorCatalogThread, SuperiorCatalogSend,
              SuperiorCatalogEnd, SuperiorFrame, answerVars
<1>6. CASE \E n \in Alarm : DeviceAlarmMsgRecv(n)
  BY <1>6 DEF DeviceAlarmMsgRecv
<1>7. CASE RelayNext
  BY <1>5, <1>6, <1>7
     DEF RelayNext, QueryStep, AnswerStep, DeviceInfoMsgRecv, DeviceStatusMsgRecv, SetGuard,
         DeviceInfoAnswerRecv, DeviceStatusAnswerRecv
<1> QED
  BY <1>1, <1>2, <1>3, <1>4, <1>7 DEF Next

LEMMA SnFacts == Sn \subseteq Nat /\ 0 \notin Sn
  BY RelayAssumption

LEMMA KeyFacts ==
    ASSUME key \in [Request -> Sn \cup {0}], NEW r \in Request
    PROVE  key[r] \in Nat
<1>1. \A k \in Sn \cup {0} : k \in Nat
  BY SnFacts
<1>2. key[r] \in Sn \cup {0}
  OBVIOUS
<1> QED
  BY <1>1, <1>2

LEMMA QueryTypesStep ==
    ASSUME QueryTypes, Keyed, [Next]_vars
    PROVE  QueryTypes'
<1> USE RelayAssumption DEF QueryTypes
<1>1. ASSUME UNCHANGED queryVars
      PROVE  QueryTypes'
  BY <1>1 DEF queryVars
<1>2. ASSUME NEW r \in Request, QueryStep(r)
      PROVE  QueryTypes'
  <2>1. made' = made
    BY <1>2 DEF QueryStep, FetchSn, SaveRecord, SendCatalog, SaveCatalog, SendBeat, SaveQuery,
                SendQuery, QueryDropped, Goes
  <2>2. /\ step' \in [Request -> {"new", "numbered", "saved", "sent", "done"}]
        /\ key' \in [Request -> Sn \cup {0}]
        /\ overlapped' \in BOOLEAN
    <3>1. CASE FetchSn(r)
      BY <3>1 DEF FetchSn, Goes
    <3>2. CASE SaveRecord(r) \/ SendCatalog(r) \/ SendBeat(r)
      BY <3>2 DEF SaveRecord, SendCatalog, SendBeat, Goes, StoreSn
    <3>3. CASE SaveCatalog(r) \/ SendQuery(r) \/ QueryDropped(r)
      BY <3>3 DEF SaveCatalog, SendQuery, QueryDropped, Goes
    <3>4. CASE SaveQuery(r)
      <4>1. key' = [key EXCEPT ![r] = SnOf[r]] /\ overlapped' = overlapped
        BY <3>4 DEF SaveQuery
      <4>2. step' = [step EXCEPT ![r] = "saved"]
        BY <3>4 DEF SaveQuery, Goes
      <4> QED
        BY <4>1, <4>2
    <3> QED
      BY <1>2, <3>1, <3>2, <3>3, <3>4, Zenon DEF QueryStep
  <2>3. dwSn' \in Nat \ {0}
    <3>1. dwSn' = dwSn \/ dwSn' = key[r] + 1
      BY <1>2 DEF QueryStep, FetchSn, SaveRecord, SendCatalog, SaveCatalog, SendBeat, SaveQuery,
                  SendQuery, QueryDropped, StoreSn
    <3>2. key[r] \in Nat
      BY KeyFacts
    <3> QED
      BY <3>1, <3>2
  <2> QED
    BY <2>1, <2>2, <2>3
<1> QED
  BY <1>1, <1>2, StepCases, Zenon
     DEF Elsewhere, ResetGuard, AnswerStep, RecordInfoAnswerRecv, RelayOnce, DeviceCatalogAnswer,
         AnswerFrame, CheckTimeAction, Tick, queryVars

(***************************************************************************)
(* What a step does to the map.                                            *)
(***************************************************************************)
LEMMA InsertTypes ==
    ASSUME MapTypes, NEW r \in Request, NEW k, Insert(r, k)
    PROVE  /\ session' \in [Sn -> Request \cup {NoSession}]
           /\ num' \in [Request -> Nat]
           /\ age' \in [Request -> Nat]
  BY DEF MapTypes, Insert, mapVars

LEMMA CountTypes ==
    ASSUME MapTypes, NEW k \in Sn, session[k] # NoSession, NEW sum, Count(k, sum)
    PROVE  /\ session' \in [Sn -> Request \cup {NoSession}]
           /\ num' \in [Request -> Nat]
           /\ age' \in [Request -> Nat]
  BY DEF MapTypes, Count

\* A query step leaves the map as it is or inserts the query, whose SN is set.
LEMMA QueryMap ==
    ASSUME QueryTypes, Keyed, NEW r \in Request, QueryStep(r)
    PROVE  /\ UNCHANGED <<expired, cleared, waited, answerVars>>
           /\ \/ UNCHANGED mapVars
              \/ /\ key'[r] \in Sn
                 /\ Insert(r, key'[r])
                 /\ step[r] \notin {"saved", "done"}
                 /\ step'[r] \in {"saved", "done"}
<1> USE RelayAssumption DEF QueryTypes, Keyed, sessionVars, mapVars, Goes
<1>1. CASE FetchSn(r)
  BY <1>1 DEF FetchSn
<1>2. CASE SaveRecord(r)
  BY <1>2 DEF SaveRecord, QueryFrame, Goes, StoreSn
<1>3. CASE SendCatalog(r) \/ SendBeat(r) \/ SendQuery(r) \/ QueryDropped(r)
  BY <1>3 DEF SendCatalog, SendBeat, SendQuery, QueryDropped, QueryFrame
<1>4. CASE SaveCatalog(r)
  BY <1>4 DEF SaveCatalog, QueryFrame, Goes
<1>5. CASE SaveQuery(r)
  BY <1>5 DEF SaveQuery, QueryFrame
<1> QED
  BY <1>1, <1>2, <1>3, <1>4, <1>5 DEF QueryStep

\* Another query keeps its SN and its place; an SN once taken is kept.
LEMMA QueryKeys ==
    ASSUME QueryTypes, Keyed, NEW r \in Request, QueryStep(r)
    PROVE  /\ \A q \in Request \ {r} : key'[q] = key[q] /\ step'[q] = step[q]
           /\ key[r] # 0 => key'[r] = key[r]
           /\ step'[r] # "new"
           /\ step'[r] = "numbered" => key[r] = 0
           /\ step'[r] \in {"numbered", "sent"} => key'[r] # 0
           /\ step'[r] = "sent" => KindOf[r] = "catalog"
           /\ step[r] \in {"saved", "done"} => step'[r] \in {"saved", "done"}
           /\ step[r] \in {"sent", "done"} => step'[r] \in {"sent", "done"}
           /\ KindOf[r] \in {"info", "status", "guard"} /\ key'[r] # 0 => key'[r] = SnOf[r]
           /\ KindOf[r] \in {"info", "status", "guard"} /\ key'[r] # key[r] => SaveQuery(r)
           /\ KindOf[r] \in Numbered /\ key'[r] # key[r] => step'[r] = "numbered"
<1> USE RelayAssumption DEF QueryTypes, Keyed
<1>1. CASE FetchSn(r)
  BY <1>1 DEF FetchSn, Goes, Numbered
<1>2. CASE SaveRecord(r) \/ SendCatalog(r) \/ SendBeat(r)
  BY <1>2 DEF SaveRecord, SendCatalog, SendBeat, Goes, StoreSn
<1>3. CASE SaveCatalog(r) \/ SendQuery(r) \/ QueryDropped(r)
  BY <1>3 DEF SaveCatalog, SendQuery, QueryDropped, Goes
<1>4. CASE SaveQuery(r) /\ KindOf[r] \in {"info", "status", "guard"}
  BY <1>4 DEF SaveQuery, Goes, Numbered
<1> QED
  BY <1>1, <1>2, <1>3, <1>4 DEF QueryStep

\* An answer comes after its query; its session is left alone, erased or counted.
LEMMA AnswerMap ==
    ASSUME QueryTypes, NEW a \in Answer, AnswerStep(a)
    PROVE  /\ UNCHANGED <<queryVars, expired, cleared, waited, told>>
           /\ ~ serving
           /\ Asked(a[1])
           /\ key[a[1]] \in Sn
           /\ \/ a \notin arrived /\ arrived' = arrived \cup {a} /\ repeated' = repeated
              \/ a \in arrived /\ arrived' = arrived /\ repeated' = repeated \cup {a}
           /\ \/ UNCHANGED mapVars
              \/ /\ session[key[a[1]]] # NoSession
                 /\ Erase(key[a[1]]) \/ Count(key[a[1]], SumOf[a[1]])
<1>1. Comes(a) /\ AnswerFrame
  BY DEF AnswerStep, RecordInfoAnswerRecv, RelayOnce, DeviceCatalogAnswer
<1>2. key[a[1]] \in Sn
  <2>1. a[1] \in Request /\ key[a[1]] # 0
    BY <1>1, AnswerFacts DEF Comes, Asked
  <2> QED
    BY <2>1 DEF QueryTypes
<1>3. \/ UNCHANGED mapVars
      \/ /\ session[key[a[1]]] # NoSession
         /\ Erase(key[a[1]]) \/ Count(key[a[1]], SumOf[a[1]])
  <2>1. CASE RecordInfoAnswerRecv(a)
    BY <2>1 DEF RecordInfoAnswerRecv
  <2>2. CASE RelayOnce(a)
    BY <2>2 DEF RelayOnce
  <2>3. CASE DeviceCatalogAnswer(a)
    BY <2>3 DEF DeviceCatalogAnswer
  <2> QED
    BY <2>1, <2>2, <2>3 DEF AnswerStep
<1> QED
  BY <1>1, <1>2, <1>3 DEF Comes, AnswerFrame

LEMMA MapTypesStep ==
    ASSUME QueryTypes, Keyed, MapTypes, [Next]_vars
    PROVE  MapTypes'
<1>1. CASE Elsewhere
  BY <1>1 DEF Elsewhere, MapTypes, sessionVars, mapVars
<1>2. ASSUME NEW r \in Request, QueryStep(r)
      PROVE  MapTypes'
  BY <1>2, QueryMap, InsertTypes DEF MapTypes, mapVars
<1>3. ASSUME NEW r \in Request, ResetGuard(r)
      PROVE  MapTypes'
  BY <1>3 DEF ResetGuard, Erase, MapTypes
<1>4. ASSUME NEW a \in Answer, AnswerStep(a)
      PROVE  MapTypes'
  BY <1>4, AnswerMap, CountTypes DEF Erase, MapTypes, mapVars
<1>5. CASE CheckTimeAction
  BY <1>5, RelayAssumption DEF CheckTimeAction, Overdue, MapTypes
<1>6. CASE Tick
  <2>1. /\ waited' \in 0 .. MaxWait
        /\ age' \in [Request -> Nat]
    BY <1>6, RelayAssumption DEF Tick, MapTypes
  <2> QED
    BY <1>6, <2>1 DEF Tick, MapTypes
<1> QED
  BY <1>1, <1>2, <1>3, <1>4, <1>5, <1>6, StepCases

\* A session is stored under the SN of its query.
LEMMA KeyedStep ==
    ASSUME QueryTypes, Keyed, MapTypes, [Next]_vars
    PROVE  Keyed'
<1>1. ASSUME UNCHANGED queryVars,
             \A k \in Sn : session'[k] \in {session[k], NoSession}
      PROVE  Keyed'
  BY <1>1 DEF Keyed, queryVars
<1>2. CASE Elsewhere
  BY <1>1, <1>2 DEF Elsewhere, sessionVars, mapVars
<1>3. ASSUME NEW r \in Request, QueryStep(r)
      PROVE  Keyed'
  <2>1. \A k \in Sn : session'[k] # NoSession =>
            key'[session'[k]] = k /\ step'[session'[k]] \in {"saved", "done"}
    <3>1. \A q \in Request :
              /\ key[q] # 0 => key'[q] = key[q]
              /\ step[q] \in {"saved", "done"} => step'[q] \in {"saved", "done"}
      BY <1>3, QueryKeys
    <3>2. ASSUME NEW k \in Sn, session[k] # NoSession
          PROVE  key'[session[k]] = k /\ step'[session[k]] \in {"saved", "done"}
      <4>1. session[k] \in Request
        BY <3>2 DEF MapTypes
      <4>2. key[session[k]] = k /\ step[session[k]] \in {"saved", "done"}
        BY <3>2 DEF Keyed
      <4>3. k # 0
        BY SnFacts
      <4> QED
        BY <3>1, <4>1, <4>2, <4>3
    <3> QED
      BY <1>3, <3>2, QueryMap DEF Insert, MapTypes, mapVars
  <2> QED
    BY <1>3, <2>1, QueryKeys DEF Keyed
<1>4. ASSUME NEW r \in Request, ResetGuard(r)
      PROVE  Keyed'
  BY <1>1, <1>4 DEF ResetGuard, Erase, MapTypes
<1>5. ASSUME NEW a \in Answer, AnswerStep(a)
      PROVE  Keyed'
  BY <1>1, <1>5, AnswerMap DEF Erase, Count, MapTypes, mapVars
<1>6. CASE CheckTimeAction
  BY <1>1, <1>6 DEF CheckTimeAction
<1>7. CASE Tick
  BY <1>1, <1>7 DEF Tick
<1> QED
  BY <1>2, <1>3, <1>4, <1>5, <1>6, <1>7, StepCases

\* Only alarms are told.
LEMMA ToldSteps ==
    ASSUME [Next]_vars
    PROVE  UNCHANGED told \/ \E n \in Alarm : DeviceAlarmMsgRecv(n)
<1> USE DEF answerVars
<1>1. CASE UNCHANGED vars
  BY <1>1 DEF vars, relayVars
<1>2. CASE SaveCatalogToDB \/ DeleteOvertimeChannel \/ EraseFirst
  BY <1>2 DEF SaveCatalogToDB, DeleteOvertimeChannel, SaverFrame, EraseFirst
<1>3. CASE HourPasses \/ \E c \in Camera : DeviceNotifyAnswer(c)
  BY <1>3 DEF HourPasses, DeviceNotifyAnswer, relayVars
<1>4. CASE SuperiorStep \/ \E p \in Superior : SuperiorCatalogAnswer(p)
  BY <1>4 DEF SuperiorStep, SuperiorCatalogAnswer, SuperiorCatalogThread, SuperiorCatalogSend,
              SuperiorCatalogEnd, SuperiorFrame
<1>5. CASE \E r \in Request : QueryStep(r) \/ ResetGuard(r)
  BY <1>5 DEF QueryStep, FetchSn, SaveRecord, SendCatalog, SaveCatalog, SendBeat, SaveQuery,
              SendQuery, QueryDropped, QueryFrame, ResetGuard
<1>6. CASE \E a \in Answer : AnswerStep(a)
  BY <1>6 DEF AnswerStep, RecordInfoAnswerRecv, RelayOnce, DeviceCatalogAnswer, AnswerFrame
<1>7. CASE CheckTimeAction \/ Tick
  BY <1>7 DEF CheckTimeAction, Tick
<1>8. CASE RelayNext
  BY <1>4, <1>5, <1>6, <1>7, <1>8
     DEF RelayNext, QueryStep, AnswerStep, DeviceInfoMsgRecv, DeviceStatusMsgRecv, SetGuard,
         DeviceInfoAnswerRecv, DeviceStatusAnswerRecv
<1> QED
  BY <1>1, <1>2, <1>3, <1>8 DEF Next

LEMMA AnswerTypesStep ==
    ASSUME QueryTypes, MapTypes, AnswerTypes, [Next]_vars
    PROVE  AnswerTypes'
<1>1. repeated' \subseteq arrived' /\ arrived' \subseteq Answer
  <2>1. CASE UNCHANGED <<arrived, repeated>>
    BY <2>1 DEF AnswerTypes
  <2>2. ASSUME NEW a \in Answer, AnswerStep(a)
        PROVE  repeated' \subseteq arrived' /\ arrived' \subseteq Answer
    BY <2>2, AnswerMap DEF AnswerTypes
  <2> QED
    BY <2>1, <2>2, StepCases
       DEF Elsewhere, QueryStep, FetchSn, SaveRecord, SendCatalog, SaveCatalog, SendBeat,
           SaveQuery, SendQuery, QueryDropped, QueryFrame, ResetGuard, CheckTimeAction, Tick,
           answerVars
<1>2. told' \in [Alarm -> SUBSET Request]
  <2>1. CASE UNCHANGED told
    BY <2>1 DEF AnswerTypes
  <2>2. ASSUME NEW n \in Alarm, DeviceAlarmMsgRecv(n)
        PROVE  told' \in [Alarm -> SUBSET Request]
    <3>1. AlarmSn[n] \in Sn
      BY RelayAssumption
    <3>2. Told(AlarmSn[n]) \in SUBSET Request
      BY <3>1 DEF MapTypes, Told, Guards
    <3> QED
      BY <2>2, <3>2 DEF AnswerTypes, DeviceAlarmMsgRecv
  <2> QED
    BY <2>1, <2>2, ToldSteps
<1> QED
  BY <1>1, <1>2 DEF AnswerTypes

(***************************************************************************)
(* The list and the database.                                              *)
(***************************************************************************)
\* What a push leaves in the list, and what it loses.
LEMMA PushFacts ==
    ASSUME catalogs \in Seq(Element), NEW new \in Seq(Element), Push(new)
    PROVE  \E kept \in Seq(Element) :
              /\ catalogs' = catalogs \o kept
              /\ Elements(kept) \subseteq Elements(new)
              /\ Elements(new) \ Elements(kept) \subseteq missed'
              /\ missed \subseteq missed'
              /\ kept \in Remains(new)
<1> DEFINE Left(kept) ==
              /\ kept \in Seq(Element)
              /\ catalogs' = catalogs \o kept
              /\ Elements(kept) \subseteq Elements(new)
              /\ Elements(new) \ Elements(kept) \subseteq missed'
              /\ missed \subseteq missed'
              /\ kept \in Remains(new)
<1>1. CASE catalogs' = catalogs \o new /\ UNCHANGED <<torn, missed>>
  <2>1. Left(new)
    BY <1>1 DEF Remains
  <2> QED
    BY <2>1
<1>2. ASSUME NEW kept \in Remains(new),
             catalogs' = catalogs \o kept,
             missed' = missed \cup (Elements(new) \ Elements(kept))
      PROVE  Left(kept)
  BY <1>2, RemainsFacts
<1>3. CASE missed' = missed \cup Elements(new) /\ UNCHANGED catalogs
  <2>1. <<>> \in Seq(Element) /\ catalogs \o <<>> = catalogs
    OBVIOUS
  <2>2. Elements(<<>>) = {}
    BY DEF Elements
  <2>3. Left(<<>>)
    BY <1>3, <2>1, <2>2 DEF Remains
  <2> QED
    BY <2>3
<1> QED
  BY <1>1, <1>2, <1>3 DEF Push

\* What an answer to a catalog query puts into the list.
LEMMA CatalogPush ==
    ASSUME NEW a \in Answer, DeviceCatalogAnswer(a)
    PROVE  \/ UNCHANGED listVars
           \/ \E new \in {<<a>>, Taken(a)} : new \in Seq(Element) /\ Push(new)
<1>1. <<a>> \in Seq(Element) /\ Taken(a) \in Seq(Element)
  BY AnswerFacts DEF Taken, Element
<1> QED
  BY <1>1 DEF DeviceCatalogAnswer

ListSteps ==
    \/ SaveCatalogToDB
    \/ DeleteOvertimeChannel
    \/ EraseFirst
    \/ \E a \in Answer : DeviceCatalogAnswer(a)

LEMMA ListCases ==
    ASSUME [Next]_vars
    PROVE  UNCHANGED <<listVars, erasing>> \/ ListSteps
<1> USE DEF listVars, ListSteps
<1>1. CASE UNCHANGED vars
  BY <1>1 DEF vars, relayVars
<1>2. CASE HourPasses \/ \E c \in Camera : DeviceNotifyAnswer(c)
  BY <1>2 DEF HourPasses, DeviceNotifyAnswer, relayVars
<1>3. CASE SuperiorStep \/ \E p \in Superior : SuperiorCatalogAnswer(p)
  BY <1>3 DEF SuperiorStep, SuperiorCatalogAnswer, SuperiorCatalogThread, SuperiorCatalogSend,
              SuperiorCatalogEnd, SuperiorFrame
<1>4. CASE \E r \in Request : QueryStep(r) \/ ResetGuard(r)
  BY <1>4 DEF QueryStep, FetchSn, SaveRecord, SendCatalog, SaveCatalog, SendBeat, SaveQuery,
              SendQuery, QueryDropped, QueryFrame, ResetGuard
<1>5. CASE \E a \in Answer : RecordInfoAnswerRecv(a) \/ RelayOnce(a)
  BY <1>5 DEF RecordInfoAnswerRecv, RelayOnce, AnswerFrame
<1>6. CASE CheckTimeAction \/ Tick \/ \E n \in Alarm : DeviceAlarmMsgRecv(n)
  BY <1>6 DEF CheckTimeAction, Tick, DeviceAlarmMsgRecv
<1>7. CASE RelayNext
  BY <1>3, <1>4, <1>5, <1>6, <1>7
     DEF RelayNext, QueryStep, DeviceInfoMsgRecv, DeviceStatusMsgRecv, SetGuard,
         DeviceInfoAnswerRecv, DeviceStatusAnswerRecv
<1> QED
  BY <1>1, <1>2, <1>7 DEF Next

LEMMA ListTypesStep ==
    ASSUME ListTypes, [Next]_vars
    PROVE  ListTypes'
<1> USE DEF ListTypes
<1>1. CASE UNCHANGED <<listVars, erasing>>
  BY <1>1 DEF listVars
<1>2. CASE SaveCatalogToDB \/ DeleteOvertimeChannel
  BY <1>2 DEF SaveCatalogToDB, DeleteOvertimeChannel, SaverFrame, AtHead
<1>3. CASE EraseFirst
  BY <1>3, HeadTailProperties DEF EraseFirst
<1>4. ASSUME NEW a \in Answer, DeviceCatalogAnswer(a)
      PROVE  ListTypes'
  <2>1. UNCHANGED erasing
    BY <1>4 DEF DeviceCatalogAnswer, AnswerFrame
  <2>2. ASSUME NEW new \in Seq(Element), Push(new)
        PROVE  ListTypes'
    <3>1. PICK kept \in Seq(Element) : catalogs' = catalogs \o kept
      BY <2>2, PushFacts
    <3>2. catalogs' \in Seq(Element)
      BY <3>1, ConcatProperties
    <3>3. catalogs # <<>> => catalogs' # <<>>
      BY <3>1, ConcatEmptySeq
    <3> QED
      BY <2>1, <3>2, <3>3
  <2> QED
    BY <1>4, <2>1, <2>2, CatalogPush DEF listVars
<1> QED
  BY <1>1, <1>2, <1>3, <1>4, ListCases DEF ListSteps

\* Only these steps write the database; the others do not touch it.
DbSteps ==
    \/ SaveCatalogToDB
    \/ DeleteOvertimeChannel
    \/ \E c \in Camera : DeviceNotifyAnswer(c)
    \/ HourPasses

LEMMA DbCases ==
    ASSUME [Next]_vars
    PROVE  UNCHANGED storeVars \/ DbSteps
<1>1. CASE UNCHANGED vars
  BY <1>1 DEF vars
<1>2. CASE EraseFirst
  BY <1>2 DEF EraseFirst
<1> QED
  BY <1>1, <1>2 DEF Next, DbSteps

LEMMA SuperiorTypesStep ==
    ASSUME OtherTypes, [Next]_vars
    PROVE  wanted' \subseteq Superior /\ pending' \in Nat /\ gaveUp' \subseteq Superior
<1> USE DEF superiorVars, OtherTypes
<1>1. CASE UNCHANGED vars
  BY <1>1 DEF vars, relayVars
<1>2. CASE SaveCatalogToDB \/ DeleteOvertimeChannel \/ EraseFirst
  BY <1>2 DEF SaveCatalogToDB, DeleteOvertimeChannel, SaverFrame, EraseFirst
<1>3. CASE HourPasses \/ \E c \in Camera : DeviceNotifyAnswer(c)
  BY <1>3 DEF HourPasses, DeviceNotifyAnswer, relayVars
<1>4. CASE SuperiorStep \/ \E p \in Superior : SuperiorCatalogAnswer(p)
  BY <1>4 DEF SuperiorStep, SuperiorCatalogAnswer, SuperiorCatalogThread, SuperiorCatalogSend,
              SendCameras, SuperiorCatalogEnd
<1>5. CASE \E r \in Request : QueryStep(r) \/ ResetGuard(r)
  BY <1>5 DEF QueryStep, FetchSn, SaveRecord, SendCatalog, SaveCatalog, SendBeat, SaveQuery,
              SendQuery, QueryDropped, QueryFrame, ResetGuard
<1>6. CASE \E a \in Answer : AnswerStep(a)
  BY <1>6 DEF AnswerStep, RecordInfoAnswerRecv, RelayOnce, DeviceCatalogAnswer, AnswerFrame
<1>7. CASE CheckTimeAction \/ Tick \/ \E n \in Alarm : DeviceAlarmMsgRecv(n)
  BY <1>7 DEF CheckTimeAction, Tick, DeviceAlarmMsgRecv
<1>8. CASE RelayNext
  BY <1>4, <1>5, <1>6, <1>7, <1>8
     DEF RelayNext, QueryStep, AnswerStep, DeviceInfoMsgRecv, DeviceStatusMsgRecv, SetGuard,
         DeviceInfoAnswerRecv, DeviceStatusAnswerRecv
<1> QED
  BY <1>1, <1>2, <1>3, <1>8 DEF Next

LEMMA OtherTypesStep ==
    ASSUME OtherTypes, [Next]_vars
    PROVE  OtherTypes'
<1>1. db' \in [Camera -> {"absent", "fresh", "old"}]
  <2>1. CASE UNCHANGED storeVars
    BY <2>1 DEF storeVars, OtherTypes
  <2>2. CASE DbSteps
    BY <2>2
       DEF DbSteps, SaveCatalogToDB, DeleteOvertimeChannel, DeviceNotifyAnswer, HourPasses, Wrote,
           OtherTypes
  <2> QED
    BY <2>1, <2>2, DbCases
<1> QED
  BY <1>1, SuperiorTypesStep DEF OtherTypes

LEMMA StepRelay == RelayInv /\ [Next]_vars => RelayInv'
<1> SUFFICES ASSUME RelayInv, [Next]_vars PROVE RelayInv'
  OBVIOUS
<1>1. QueryTypes /\ MapTypes /\ AnswerTypes /\ ListTypes /\ OtherTypes /\ Keyed
  BY TypesSplit DEF RelayInv
<1>2. QueryTypes' /\ MapTypes' /\ AnswerTypes' /\ ListTypes' /\ OtherTypes' /\ Keyed'
  BY <1>1, QueryTypesStep, MapTypesStep, AnswerTypesStep, ListTypesStep, OtherTypesStep, KeyedStep
<1>3. RelayTypeOK'
  BY <1>2, TypesSplit, PTL
<1> QED
  BY <1>2, <1>3 DEF RelayInv

LEMMA RelayInvariant == Spec => []RelayInv
  BY InitRelay, StepRelay, PTL DEF Spec

\* The map, the packets and the list keep their types.
THEOREM RelayTypes == Spec => []RelayTypeOK
  BY RelayInvariant, PTL DEF RelayInv

(***************************************************************************)
(* The counter.                                                            *)
(***************************************************************************)
\* What every step does to serial numbers.
LEMMA QueryCases ==
    ASSUME [Next]_vars
    PROVE  UNCHANGED queryVars \/ \E r \in Request : QueryStep(r)
  BY StepCases, Zenon
     DEF Elsewhere, ResetGuard, AnswerStep, RecordInfoAnswerRecv, RelayOnce, DeviceCatalogAnswer,
         AnswerFrame, CheckTimeAction, Tick, queryVars

\* A query that leaves the counter alone, or takes its value, or moves it on.
LEMMA CounterSteps ==
    ASSUME QueryTypes, Keyed, NEW r \in Request, QueryStep(r)
    PROVE  \/ /\ FetchSn(r)
           \/ /\ KindOf[r] \in Numbered
              /\ step[r] = "numbered" /\ step'[r] # "numbered"
              /\ dwSn' = key[r] + 1 /\ UNCHANGED <<key, overlapped>>
           \/ /\ step[r] # "numbered" /\ step'[r] # "numbered"
              /\ UNCHANGED <<dwSn, key, overlapped>>
           \/ /\ KindOf[r] \notin Numbered
              /\ step'[r] # "numbered"
              /\ UNCHANGED <<dwSn, overlapped>>
<1> USE DEF QueryTypes, Goes
<1>1. CASE SaveRecord(r) \/ SendCatalog(r) \/ SendBeat(r)
  BY <1>1 DEF SaveRecord, SendCatalog, SendBeat, StoreSn, Numbered
<1>2. CASE SaveCatalog(r) \/ SendQuery(r) \/ QueryDropped(r)
  BY <1>2 DEF SaveCatalog, SendQuery, QueryDropped
<1>3. CASE SaveQuery(r) /\ KindOf[r] \in {"info", "status", "guard"}
  BY <1>3 DEF SaveQuery, Numbered
<1> QED
  BY <1>1, <1>2, <1>3 DEF QueryStep

LEMMA CounterStep ==
    ASSUME QueryTypes, Keyed, Counter, [Next]_vars
    PROVE  Counter'
<1>1. CASE UNCHANGED queryVars
  BY <1>1 DEF Counter, queryVars
<1>2. ASSUME NEW r \in Request, QueryStep(r), ~ overlapped'
      PROVE  Counter'
  <2>0. /\ \A q \in Request : key[q] \in Nat
        /\ \A q \in Request \ {r} : key'[q] = key[q] /\ step'[q] = step[q]
    BY <1>2, QueryKeys, KeyFacts DEF QueryTypes
  <2>1. CASE FetchSn(r)
    <3>1. /\ ~ overlapped
          /\ \A q \in Request : step[q] # "numbered"
          /\ key'[r] = dwSn /\ dwSn' = dwSn /\ step'[r] = "numbered"
      BY <1>2, <2>1 DEF FetchSn, Goes, QueryTypes
    <3>2. \A q \in Request \ {r} : KindOf[q] \in Numbered => key'[q] < dwSn'
      BY <2>0, <3>1 DEF Counter
    <3> QED
      BY <2>0, <3>1, <3>2 DEF Counter
  <2>2. CASE /\ KindOf[r] \in Numbered
             /\ step[r] = "numbered" /\ step'[r] # "numbered"
             /\ dwSn' = key[r] + 1 /\ UNCHANGED <<key, overlapped>>
    <3>1. /\ key[r] = dwSn
          /\ \A q \in Request \ {r} : step[q] # "numbered"
      BY <1>2, <2>2 DEF Counter
    <3> QED
      BY <1>2, <2>0, <2>2, <3>1 DEF Counter
  <2>3. CASE /\ step[r] # "numbered" /\ step'[r] # "numbered"
             /\ UNCHANGED <<dwSn, key, overlapped>>
    BY <1>2, <2>0, <2>3 DEF Counter
  <2>4. CASE /\ KindOf[r] \notin Numbered
             /\ step'[r] # "numbered"
             /\ UNCHANGED <<dwSn, overlapped>>
    BY <1>2, <2>0, <2>4 DEF Counter
  <2> QED
    BY <1>2, <2>1, <2>2, <2>3, <2>4, CounterSteps
<1> QED
  BY <1>1, <1>2, QueryCases DEF Counter

LEMMA ApartStep ==
    ASSUME QueryTypes, Keyed, Counter, SerialsApart, [Next]_vars
    PROVE  SerialsApart'
<1>1. CASE UNCHANGED queryVars
  BY <1>1 DEF SerialsApart, queryVars
<1>2. ASSUME NEW r \in Request, QueryStep(r), ~ overlapped'
      PROVE  SerialsApart'
  <2>0. /\ \A q \in Request : key[q] \in Nat
        /\ \A q \in Request \ {r} : key'[q] = key[q] /\ step'[q] = step[q]
    BY <1>2, QueryKeys, KeyFacts DEF QueryTypes
  <2>1. CASE FetchSn(r)
    <3>1. /\ ~ overlapped
          /\ \A q \in Request : step[q] # "numbered"
          /\ key'[r] = dwSn /\ dwSn \in Nat \ {0}
      BY <1>2, <2>1 DEF FetchSn, Goes, QueryTypes
    <3>2. \A q \in Request \ {r} : KindOf[q] \in Numbered => key'[q] < dwSn
      BY <2>0, <3>1 DEF Counter
    <3>3. \A q \in Request \ {r} : KindOf[q] \in Numbered => key'[q] # key'[r]
      BY <2>0, <3>1, <3>2
    <3> QED
      BY <2>0, <3>1, <3>3 DEF SerialsApart
  <2>2. CASE UNCHANGED <<key, overlapped>>
    BY <1>2, <2>2 DEF SerialsApart
  <2>3. CASE KindOf[r] \notin Numbered /\ UNCHANGED overlapped
    BY <1>2, <2>0, <2>3 DEF SerialsApart
  <2> QED
    BY <1>2, <2>1, <2>2, <2>3, CounterSteps
<1> QED
  BY <1>1, <1>2, QueryCases DEF SerialsApart

CounterInv == RelayInv /\ Counter /\ SerialsApart

LEMMA InitCounter == Init => CounterInv
<1>1. Init => Counter /\ SerialsApart
  BY RelayAssumption DEF Init, RelayInit, Counter, SerialsApart
<1> QED
  BY <1>1, InitRelay DEF CounterInv

LEMMA StepCounter == CounterInv /\ [Next]_vars => CounterInv'
  BY StepRelay, CounterStep, ApartStep, TypesSplit DEF CounterInv, RelayInv

\* Two threads that are inside m_dwSn++ together are the only way to the same
\* number twice.
THEOREM SerialsAreApart == Spec => []SerialsApart
<1>1. Spec => []CounterInv
  BY InitCounter, StepCounter, PTL DEF Spec
<1> QED
  BY <1>1, PTL DEF CounterInv

(***************************************************************************)
(* Time-outs.                                                              *)
(***************************************************************************)
\* Sessions only grow older with time.
LEMMA AgesStep ==
    ASSUME QueryTypes, Keyed, MapTypes, AgesBounded, [Next]_vars
    PROVE  AgesBounded'
<1> USE RelayAssumption DEF MapTypes
<1>1. ASSUME UNCHANGED <<age, waited>>,
             \A k \in Sn : session'[k] \in {session[k], NoSession}
      PROVE  AgesBounded'
  BY <1>1 DEF AgesBounded
<1>2. CASE Elsewhere
  BY <1>1, <1>2 DEF Elsewhere, sessionVars, mapVars
<1>3. ASSUME NEW r \in Request, QueryStep(r)
      PROVE  AgesBounded'
  <2>1. CASE UNCHANGED <<mapVars, waited>>
    BY <1>1, <2>1 DEF mapVars
  <2>2. CASE Insert(r, key'[r]) /\ UNCHANGED waited
    BY <2>2 DEF Insert, AgesBounded, mapVars
  <2> QED
    BY <1>3, <2>1, <2>2, QueryMap
<1>4. ASSUME NEW r \in Request, ResetGuard(r)
      PROVE  AgesBounded'
  BY <1>1, <1>4 DEF ResetGuard, Erase
<1>5. ASSUME NEW a \in Answer, AnswerStep(a)
      PROVE  AgesBounded'
  BY <1>1, <1>5, AnswerMap DEF Erase, Count, mapVars
<1>6. CASE CheckTimeAction
  <2>1. SUFFICES ASSUME NEW k \in Sn, session'[k] # NoSession, KindOf[session'[k]] \in Counted
                 PROVE  age[session'[k]] <= Life + waited'
    BY <1>6 DEF CheckTimeAction, AgesBounded
  <2>2. session'[k] = session[k] /\ session[k] \notin Overdue
    BY <1>6, <2>1 DEF CheckTimeAction
  <2>3. Stored(session[k]) /\ session[k] \in Request
    BY <2>1, <2>2, SnFacts DEF Stored, Keyed
  <2> QED
    BY <1>6, <2>1, <2>2, <2>3 DEF Overdue, CheckTimeAction
<1>7. CASE Tick
  <2>1. SUFFICES ASSUME NEW k \in Sn, session[k] # NoSession, KindOf[session[k]] \in Counted
                 PROVE  age'[session[k]] <= Life + waited'
    BY <1>7 DEF Tick, AgesBounded
  <2>2. age[session[k]] <= Life + waited
    BY <2>1 DEF AgesBounded
  <2> QED
    BY <1>7, <2>1, <2>2 DEF Tick
<1> QED
  BY <1>2, <1>3, <1>4, <1>5, <1>6, <1>7, StepCases

\* The session of a query whose answers are lost is gone after its life and one
\* more look of CheckTimeAction.
THEOREM SessionsDoExpire == Spec => []SessionsExpire
<1>1. Init => RelayInv /\ AgesBounded
  BY InitRelay DEF AgesBounded, Init, RelayInit
<1>2. (RelayInv /\ AgesBounded) /\ [Next]_vars => (RelayInv /\ AgesBounded)'
  BY StepRelay, AgesStep, TypesSplit DEF RelayInv
<1>3. RelayInv /\ AgesBounded => SessionsExpire
  <2> SUFFICES ASSUME RelayInv, AgesBounded, NEW r \in Request, KindOf[r] \in Counted, Stored(r)
               PROVE  age[r] <= Life + MaxWait
    BY DEF SessionsExpire
  <2>1. QueryTypes /\ MapTypes
    BY TypesSplit DEF RelayInv
  <2>2. key[r] \in Sn /\ session[key[r]] = r /\ r # NoSession
    BY <2>1, RelayAssumption DEF QueryTypes, Stored
  <2>3. age[r] <= Life + waited
    BY <2>2 DEF AgesBounded
  <2>4. waited \in 0 .. MaxWait /\ age[r] \in Nat
    BY <2>1 DEF MapTypes
  <2> QED
    BY <2>3, <2>4, RelayAssumption
<1> QED
  BY <1>1, <1>2, <1>3, PTL DEF Spec

(***************************************************************************)
(* Answers.                                                                *)
(***************************************************************************)
\* The invariants so far.
Facts == QueryTypes /\ MapTypes /\ AnswerTypes /\ Keyed

LEMMA RelayFacts == RelayInv => Facts
  BY TypesSplit DEF RelayInv, Facts

\* An SN is kept, and what has been sent stays sent.
LEMMA KeysKept ==
    ASSUME Facts, [Next]_vars, NEW q \in Request
    PROVE  /\ key[q] # 0 => key'[q] = key[q]
           /\ step[q] \in {"sent", "done"} => step'[q] \in {"sent", "done"}
<1>1. CASE UNCHANGED queryVars
  BY <1>1 DEF queryVars
<1>2. ASSUME NEW r \in Request, QueryStep(r)
      PROVE  /\ key[q] # 0 => key'[q] = key[q]
             /\ step[q] \in {"sent", "done"} => step'[q] \in {"sent", "done"}
  BY <1>2, QueryKeys DEF Facts
<1> QED
  BY <1>1, <1>2, QueryCases

\* An SN that nobody else has now, nobody else had.
LEMMA UniqueBefore ==
    ASSUME Facts, [Next]_vars, NEW r \in Request, Unique(r)', key[r] # 0
    PROVE  Unique(r) /\ key'[r] = key[r]
<1>1. key'[r] = key[r] /\ key'[r] # 0
  BY KeysKept DEF Unique
<1>2. \A q \in Request \ {r} : key[q] # 0 => key'[q] = key[q]
  BY KeysKept
<1>3. \A q \in Request \ {r} : key'[q] # key'[r]
  BY DEF Unique
<1> QED
  BY <1>1, <1>2, <1>3 DEF Unique

\* A query that gets its client's SN, which nobody else has, stores its session.
LEMMA NewStored ==
    ASSUME Facts, [Next]_vars, NEW r \in Request, Unique(r)', key[r] = 0,
           KindOf[r] \in {"info", "status", "guard"}
    PROVE  Stored(r)'
<1>1. key'[r] # 0 /\ key'[r] # key[r]
  BY DEF Unique
<1>2. PICK q \in Request : QueryStep(q)
  BY <1>1, QueryCases DEF queryVars
<1>3. q = r
  BY <1>1, <1>2, QueryKeys DEF Facts
<1>4. SaveQuery(r)
  BY <1>1, <1>2, <1>3, QueryKeys DEF Facts
<1>5. key'[r] = SnOf[r] /\ Insert(r, SnOf[r]) /\ SnOf[r] \in Sn
  BY <1>4, RelayAssumption DEF SaveQuery, Facts, QueryTypes
<1>6. session[SnOf[r]] = NoSession
  <2> SUFFICES ASSUME session[SnOf[r]] # NoSession
               PROVE  FALSE
    OBVIOUS
  <2>1. /\ session[SnOf[r]] \in Request
        /\ key[session[SnOf[r]]] = SnOf[r]
    BY <1>5 DEF Facts, MapTypes, Keyed
  <2>2. key[session[SnOf[r]]] # 0
    BY <1>5, <2>1, SnFacts
  <2>3. session[SnOf[r]] # r /\ key'[session[SnOf[r]]] = key'[r]
    BY <1>5, <2>1, <2>2, KeysKept
  <2> QED
    BY <2>1, <2>3 DEF Unique
<1> QED
  BY <1>1, <1>5, <1>6 DEF Insert, Stored, Facts, MapTypes

\* What becomes of the session of a query with an SN of its own.
LEMMA SessionKept ==
    ASSUME Facts, [Next]_vars, NEW r \in Request, Unique(r)', Stored(r)
    PROVE  \/ Stored(r)' /\ num'[r] = num[r]
           \/ ResetGuard(r)
           \/ \E a \in Answer : a[1] = r /\ AnswerStep(a)
           \/ r \in Overdue /\ r \in expired'
<1> USE DEF Facts
<1>1. key[r] \in Sn /\ session[key[r]] = r /\ key[r] # 0 /\ r # NoSession
  BY RelayAssumption DEF QueryTypes, Stored
<1>2. Unique(r) /\ key'[r] = key[r]
  BY <1>1, UniqueBefore
<1>3. ASSUME session'[key[r]] = session[key[r]], num'[r] = num[r]
      PROVE  Stored(r)' /\ num'[r] = num[r]
  BY <1>1, <1>2, <1>3 DEF Stored
<1>4. CASE Elsewhere
  BY <1>3, <1>4 DEF Elsewhere, sessionVars, mapVars
<1>5. ASSUME NEW q \in Request, QueryStep(q)
      PROVE  Stored(r)' /\ num'[r] = num[r]
  <2>1. CASE UNCHANGED mapVars
    BY <1>3, <2>1 DEF mapVars
  <2>2. CASE key'[q] \in Sn /\ Insert(q, key'[q]) /\ step[q] \notin {"saved", "done"}
    <3>1. step[r] \in {"saved", "done"}
      BY <1>1 DEF Keyed
    <3>2. q # r
      BY <2>2, <3>1
    <3> QED
      BY <1>1, <1>3, <2>2, <3>2 DEF Insert, MapTypes, mapVars
  <2> QED
    BY <1>5, <2>1, <2>2, QueryMap
<1>6. ASSUME NEW q \in Request, ResetGuard(q), q # r
      PROVE  Stored(r)' /\ num'[r] = num[r]
  <2>1. key[q] # key[r]
    BY <1>2, <1>6 DEF Unique
  <2> QED
    BY <1>1, <1>3, <1>6, <2>1 DEF ResetGuard, Erase, MapTypes
<1>7. ASSUME NEW a \in Answer, AnswerStep(a), a[1] # r
      PROVE  Stored(r)' /\ num'[r] = num[r]
  <2>1. a[1] \in Request /\ key[a[1]] # key[r] /\ key[a[1]] \in Sn
    BY <1>2, <1>7, AnswerFacts, AnswerMap DEF Unique
  <2>2. session[key[a[1]]] # NoSession => session[key[a[1]]] # r
    BY <2>1 DEF Keyed
  <2> QED
    BY <1>1, <1>3, <1>7, <2>1, <2>2, AnswerMap DEF Erase, Count, MapTypes, mapVars
<1>8. CASE CheckTimeAction
  BY <1>1, <1>3, <1>8 DEF CheckTimeAction
<1>9. CASE Tick
  BY <1>3, <1>9 DEF Tick
<1> QED
  BY <1>4, <1>5, <1>6, <1>7, <1>8, <1>9, StepCases

LEMMA GuardHeldStep ==
    ASSUME Facts, GuardHeld, [Next]_vars
    PROVE  GuardHeld'
<1> SUFFICES ASSUME NEW r \in Request, KindOf[r] = "guard", Unique(r)', r \notin cleared'
             PROVE  Stored(r)'
  BY DEF GuardHeld
<1>1. CASE key[r] = 0
  BY <1>1, NewStored
<1>2. CASE key[r] # 0
  <2>1. r \notin cleared
    <3>1. cleared \subseteq cleared'
      BY StepCases, QueryMap, AnswerMap
         DEF Facts, Elsewhere, sessionVars, ResetGuard, CheckTimeAction, Tick
    <3> QED
      BY <3>1
  <2>2. Stored(r)
    BY <1>2, <2>1, UniqueBefore DEF GuardHeld
  <2>3. ~ ResetGuard(r)
    BY DEF ResetGuard
  <2>4. \A a \in Answer : a[1] = r => ~ AnswerStep(a)
    BY DEF AnswerStep, RecordInfoAnswerRecv, DeviceCatalogAnswer
  <2>5. r \notin Overdue
    BY DEF Overdue, Counted
  <2> QED
    BY <2>2, <2>3, <2>4, <2>5, SessionKept
<1> QED
  BY <1>1, <1>2

\* What a step does to the packets that have come, and to what was sent on.
LEMMA Arrivals ==
    ASSUME Facts, [Next]_vars
    PROVE  \/ UNCHANGED <<arrived, repeated, forwarded>>
           \/ \E a \in Answer : AnswerStep(a)
<1> USE DEF answerVars
<1>1. ASSUME NEW r \in Request, QueryStep(r)
      PROVE  UNCHANGED <<arrived, repeated, forwarded>>
  BY <1>1, QueryMap DEF Facts
<1> QED
  BY <1>1, StepCases DEF Elsewhere, ResetGuard, CheckTimeAction, Tick

LEMMA Monotone ==
    ASSUME Facts, [Next]_vars
    PROVE  /\ arrived \subseteq arrived'
           /\ repeated \subseteq repeated'
           /\ forwarded \subseteq forwarded'
           /\ expired \subseteq expired'
<1>1. ASSUME NEW a \in Answer, AnswerStep(a)
      PROVE  /\ arrived \subseteq arrived'
             /\ repeated \subseteq repeated'
             /\ forwarded \subseteq forwarded'
  <2>1. forwarded \subseteq forwarded'
    BY <1>1 DEF AnswerStep, RecordInfoAnswerRecv, RelayOnce, DeviceCatalogAnswer, Forward
  <2> QED
    BY <1>1, <2>1, AnswerMap DEF Facts
<1>2. expired \subseteq expired'
  BY StepCases, QueryMap, AnswerMap
     DEF Facts, Elsewhere, sessionVars, ResetGuard, CheckTimeAction, Tick
<1> QED
  BY <1>1, <1>2, Arrivals

\* A packet that comes and was not there before is the new one of its answer.
LEMMA CameFacts ==
    ASSUME Facts, [Next]_vars, NEW r \in Request
    PROVE  /\ Came(r) \subseteq Came(r)'
           /\ Came(r)' \subseteq WholeAnswer(r)
           /\ \/ Came(r)' = Came(r)
              \/ \E a \in Answer : /\ a[1] = r /\ AnswerStep(a)
                                   /\ a \notin arrived
                                   /\ Came(r)' = Came(r) \cup {a}
<1> USE DEF Came
<1>1. Came(r)' \subseteq WholeAnswer(r)
  <2>1. arrived' \subseteq Answer
    BY AnswerTypesStep DEF Facts, AnswerTypes
  <2> QED
    BY <2>1, AnswerFacts DEF WholeAnswer
<1>2. ASSUME NEW a \in Answer, AnswerStep(a)
      PROVE  \/ Came(r)' = Came(r)
             \/ a[1] = r /\ a \notin arrived /\ Came(r)' = Came(r) \cup {a}
  BY <1>2, AnswerMap DEF Facts
<1>3. arrived' = arrived => Came(r)' = Came(r)
  OBVIOUS
<1> QED
  BY <1>1, <1>2, <1>3, Arrivals, Monotone

LEMMA WholeFacts ==
    ASSUME NEW r \in Request
    PROVE  /\ IsFiniteSet(WholeAnswer(r))
           /\ KindOf[r] \in Counted /\ SumOf[r] # 0 => Cardinality(WholeAnswer(r)) = SumOf[r]
           /\ KindOf[r] \notin Counted => WholeAnswer(r) = {<<r, 1>>}
<1>1. IsFiniteSet({r}) /\ Cardinality({r}) = 1
  BY FS_Singleton
<1>2. SumOf[r] \in Nat
  BY RelayAssumption
<1>3. IsFiniteSet(Parts(r))
  BY <1>2, FS_Interval DEF Parts
<1>4. IsFiniteSet(WholeAnswer(r)) /\ Cardinality(WholeAnswer(r)) = 1 * Cardinality(Parts(r))
  BY <1>1, <1>3, FS_Product DEF WholeAnswer
<1>5. CASE KindOf[r] \in Counted /\ SumOf[r] # 0
  <2>1. Parts(r) = 1 .. SumOf[r] /\ Cardinality(Parts(r)) = SumOf[r]
    BY <1>2, <1>5, FS_Interval DEF Parts
  <2> QED
    BY <1>2, <1>4, <1>5, <2>1
<1>6. CASE KindOf[r] \notin Counted
  BY <1>4, <1>6, PartsFacts DEF WholeAnswer
<1> QED
  BY <1>4, <1>5, <1>6

\* Packets only come after their query.
LEMMA CameAskedStep ==
    ASSUME Facts, CameAsked, [Next]_vars
    PROVE  CameAsked'
<1> SUFFICES ASSUME NEW a \in arrived'
             PROVE  Asked(a[1])'
  BY DEF CameAsked
<1>1. a \in Answer /\ a[1] \in Request
  BY AnswerTypesStep, AnswerFacts DEF Facts, AnswerTypes
<1>2. Asked(a[1])
  <2>1. CASE a \in arrived
    BY <2>1 DEF CameAsked
  <2>2. CASE a \notin arrived
    BY <2>2, Arrivals, AnswerMap DEF Facts
  <2> QED
    BY <2>1, <2>2
<1> QED
  BY <1>1, <1>2, KeysKept DEF Asked, Facts

LEMMA AnswerAwaitedStep ==
    ASSUME Facts, AnswerAwaited, [Next]_vars
    PROVE  AnswerAwaited'
<1> SUFFICES ASSUME NEW r \in Request, KindOf[r] \in {"info", "status"}, Unique(r)',
                    ~ Stored(r)'
             PROVE  Came(r)' = WholeAnswer(r)
  BY DEF AnswerAwaited, WholeAnswer, Parts
<1>1. key[r] # 0
  BY NewStored
<1>2. Stored(r) \/ Came(r) = WholeAnswer(r)
  BY <1>1, UniqueBefore DEF AnswerAwaited
<1>3. CASE Came(r) = WholeAnswer(r)
  BY <1>3, CameFacts
<1>4. CASE Stored(r)
  <2>1. ~ ResetGuard(r) /\ r \notin Overdue
    BY DEF ResetGuard, Overdue, Counted
  <2>2. PICK a \in Answer : a[1] = r /\ AnswerStep(a)
    BY <1>4, <2>1, SessionKept
  <2>3. a \in Came(r)'
    BY <2>2, AnswerMap DEF Came, Facts
  <2>4. WholeAnswer(r) = {<<r, 1>>}
    BY WholeFacts DEF Counted
  <2> QED
    BY <2>3, <2>4, CameFacts
<1> QED
  BY <1>2, <1>3, <1>4
LEMMA RecordAwaitedStep ==
    ASSUME Facts, CameAsked, RecordAwaited, [Next]_vars
    PROVE  RecordAwaited'
<1> SUFFICES ASSUME NEW r \in Request, KindOf[r] = "record", Unique(r)',
                    step'[r] # "numbered", r \notin expired', ~ Doubled(r)'
             PROVE  \/ Stored(r)' /\ (SumOf[r] # 0 => num'[r] = Cardinality(Came(r)'))
                    \/ SumOf[r] # 0 /\ Came(r)' = WholeAnswer(r)
  BY DEF RecordAwaited, WholeAnswer, Parts
<1> USE DEF Facts
<1>0. r \notin expired /\ ~ Doubled(r)
  BY Monotone DEF Doubled
<1>1. key[r] # 0
  <2> SUFFICES ASSUME key[r] = 0
               PROVE  FALSE
    OBVIOUS
  <2>1. key'[r] # key[r]
    BY DEF Unique
  <2>2. PICK q \in Request : QueryStep(q)
    BY <2>1, QueryCases DEF queryVars
  <2> QED
    BY <2>1, <2>2, QueryKeys DEF Numbered
<1>2. Unique(r) /\ key'[r] = key[r]
  BY <1>1, UniqueBefore
<1>3. key[r] \in Sn
  BY <1>1 DEF QueryTypes
<1>4. CASE step[r] = "numbered"
  <2>1. PICK q \in Request : QueryStep(q)
    BY <1>4, QueryCases DEF queryVars
  <2>2. q = r
    BY <1>4, <2>1, QueryKeys
  <2>3. SaveRecord(r)
    BY <1>4, <2>1, <2>2
       DEF QueryStep, FetchSn, SendCatalog, SaveCatalog, SendBeat, SaveQuery, SendQuery,
           QueryDropped, Goes
  <2>4. Insert(r, key[r]) /\ UNCHANGED answerVars
    BY <2>3 DEF SaveRecord, QueryFrame
  <2>5. session[key[r]] = NoSession
    <3>1. session[key[r]] # NoSession =>
              /\ session[key[r]] \in Request
              /\ key[session[key[r]]] = key[r]
              /\ step[session[key[r]]] # "numbered"
      BY <1>3 DEF Keyed, MapTypes
    <3> QED
      BY <1>2, <1>4, <3>1 DEF Unique
  <2>6. Stored(r)' /\ num'[r] = 0
    BY <1>1, <1>2, <1>3, <2>4, <2>5 DEF Insert, Stored, MapTypes
  <2>7. Came(r)' = {}
    BY <1>4, <2>4 DEF CameAsked, Asked, Came, answerVars
  <2> QED
    BY <2>6, <2>7, FS_EmptySet
<1>5. CASE step[r] # "numbered" /\ Came(r) = WholeAnswer(r) /\ SumOf[r] # 0
  BY <1>5, CameFacts
<1>6. CASE Stored(r) /\ (SumOf[r] # 0 => num[r] = Cardinality(Came(r)))
  <2>1. ~ ResetGuard(r)
    BY DEF ResetGuard
  <2>2. ~ (r \in Overdue /\ r \in expired')
    OBVIOUS
  <2>3. ASSUME NEW a \in Answer, a[1] = r, AnswerStep(a)
        PROVE  \/ Stored(r)' /\ (SumOf[r] # 0 => num'[r] = Cardinality(Came(r)'))
               \/ SumOf[r] # 0 /\ Came(r)' = WholeAnswer(r)
    <3>1. RecordInfoAnswerRecv(a) /\ session[key[r]] = r /\ r # NoSession
      BY <1>6, <2>3, RelayAssumption DEF AnswerStep, DeviceCatalogAnswer, Stored
    <3>2. a \notin arrived /\ Came(r)' = Came(r) \cup {a} /\ a \notin Came(r)
      BY <2>3, AnswerMap DEF Doubled, Came
    <3>3. CASE SumOf[r] = 0
      BY <1>1, <1>2, <1>6, <2>3, <3>1, <3>3 DEF RecordInfoAnswerRecv, Stored, mapVars
    <3>4. CASE SumOf[r] # 0
      <4>1. IsFiniteSet(WholeAnswer(r)) /\ Cardinality(WholeAnswer(r)) = SumOf[r]
        BY <3>4, WholeFacts DEF Counted
      <4>2. Came(r)' \subseteq WholeAnswer(r) /\ Came(r) \subseteq WholeAnswer(r)
        BY CameFacts
      <4>3. IsFiniteSet(Came(r)) /\ Cardinality(Came(r)) \in Nat
        BY <4>1, <4>2, FS_Subset, FS_CardinalityType
      <4>4. Cardinality(Came(r)') = Cardinality(Came(r)) + 1
        BY <3>2, <4>3, FS_AddElement
      <4>5. Count(key[r], SumOf[r]) /\ num[r] = Cardinality(Came(r))
        BY <1>6, <2>3, <3>1, <3>4 DEF RecordInfoAnswerRecv
      <4>6. num'[r] = Cardinality(Came(r)')
        BY <3>1, <4>4, <4>5 DEF Count, MapTypes
      <4>7. CASE Cardinality(Came(r)') >= SumOf[r]
        <5>1. Cardinality(Came(r)') \in Nat /\ SumOf[r] \in Nat
          BY <4>3, <4>4, RelayAssumption
        <5>2. Cardinality(Came(r)') <= SumOf[r]
          BY <4>1, <4>2, FS_Subset
        <5>3. Cardinality(Came(r)') = Cardinality(WholeAnswer(r))
          BY <4>1, <4>7, <5>1, <5>2
        <5> QED
          BY <3>4, <4>1, <4>2, <5>3, FS_Subset
      <4>8. CASE ~ (Cardinality(Came(r)') >= SumOf[r])
        <5>1. session' = session
          BY <3>1, <4>4, <4>5, <4>8 DEF Count
        <5> QED
          BY <1>1, <1>2, <3>1, <4>6, <5>1 DEF Stored
      <4> QED
        BY <4>7, <4>8
    <3> QED
      BY <3>3, <3>4
  <2>4. CASE ~ \E a \in Answer : a[1] = r /\ AnswerStep(a)
    BY <1>6, <2>1, <2>2, <2>4, SessionKept, CameFacts
  <2> QED
    BY <2>3, <2>4
<1> QED
  BY <1>0, <1>2, <1>4, <1>5, <1>6 DEF RecordAwaited

\* What an answer does to what is sent on.
LEMMA ForwardStep ==
    ASSUME Facts, NEW a \in Answer, AnswerStep(a)
    PROVE  \/ UNCHANGED forwarded
           \/ LET k == key[a[1]]
                  to == session[k]
              IN  /\ to # NoSession
                  /\ KindOf[a[1]] \in Relayed
                  /\ Forward(a, to, IF KindOf[a[1]] = "record" THEN OwnSn(to) ELSE k)
<1>1. CASE RecordInfoAnswerRecv(a)
  BY <1>1 DEF RecordInfoAnswerRecv, Relayed
<1>2. CASE KindOf[a[1]] \in {"info", "status"} /\ RelayOnce(a)
  BY <1>2 DEF RelayOnce, Relayed
<1>3. CASE DeviceCatalogAnswer(a)
  BY <1>3 DEF DeviceCatalogAnswer
<1> QED
  BY <1>1, <1>2, <1>3 DEF AnswerStep

LEMMA ForwardedStep ==
    ASSUME Facts, ForwardedBySn, [Next]_vars
    PROVE  ForwardedBySn'
<1> USE DEF Facts
<1> DEFINE Proper(f) ==
              /\ f.to \in Request
              /\ f.answer \in Answer
              /\ key[f.to] # 0
              /\ key[f.answer[1]] = key[f.to]
              /\ f.sn = IF KindOf[f.answer[1]] = "record" THEN OwnSn(f.to) ELSE key[f.to]
              /\ KindOf[f.answer[1]] \in Relayed
<1>1. ASSUME NEW f, Proper(f)
      PROVE  Proper(f)'
  <2>1. f.answer[1] \in Request
    BY <1>1, AnswerFacts
  <2>2. key'[f.to] = key[f.to] /\ key'[f.answer[1]] = key[f.answer[1]]
    BY <1>1, <2>1, KeysKept
  <2> QED
    BY <1>1, <2>2 DEF OwnSn
<1>2. ASSUME NEW f \in forwarded', f \notin forwarded
      PROVE  Proper(f)
  <2>1. PICK a \in Answer : AnswerStep(a)
    BY <1>2, Arrivals
  <2>2. LET k == key[a[1]]
            to == session[k]
        IN  /\ to # NoSession
            /\ KindOf[a[1]] \in Relayed
            /\ f = [answer |-> a, to |-> to,
                    sn |-> IF KindOf[a[1]] = "record" THEN OwnSn(to) ELSE k]
    BY <1>2, <2>1, ForwardStep DEF Forward
  <2>3. key[a[1]] \in Sn /\ key[a[1]] # 0
    BY <2>1, AnswerMap, SnFacts
  <2>4. /\ session[key[a[1]]] \in Request
        /\ key[session[key[a[1]]]] = key[a[1]]
    BY <2>2, <2>3 DEF Keyed, MapTypes
  <2> QED
    BY <2>2, <2>3, <2>4
<1>3. \A f \in forwarded : Proper(f)
  BY DEF ForwardedBySn
<1> QED
  BY <1>1, <1>2, <1>3 DEF ForwardedBySn

\* The packet that comes finds the session of its query.
LEMMA ForwardedWhenAwaited ==
    ASSUME Facts, AnswerAwaited, RecordAwaited,
           NEW a \in Answer, AnswerStep(a), a \notin arrived,
           KindOf[a[1]] \in Relayed, Unique(a[1]),
           ~ Doubled(a[1]), a[1] \notin expired
    PROVE  \E f \in forwarded' : f.to = a[1] /\ f.answer = a
<1> USE DEF Facts
<1>1. a[1] \in Request /\ a \in WholeAnswer(a[1]) /\ a \notin Came(a[1])
  BY AnswerFacts DEF WholeAnswer, Came
<1>2. Asked(a[1])
  BY AnswerMap
<1>3. Stored(a[1])
  <2>1. CASE KindOf[a[1]] \in {"info", "status"}
    BY <1>1, <2>1 DEF AnswerAwaited
  <2>2. CASE KindOf[a[1]] = "record"
    <3>1. step[a[1]] # "numbered"
      BY <1>2 DEF Asked
    <3> QED
      BY <1>1, <2>2, <3>1 DEF RecordAwaited
  <2> QED
    BY <2>1, <2>2 DEF Relayed
<1>4. session[key[a[1]]] = a[1] /\ a[1] # NoSession
  BY <1>1, <1>3, RelayAssumption DEF Stored
<1>5. \E sn : Forward(a, a[1], sn)
  <2>1. CASE RecordInfoAnswerRecv(a)
    BY <1>4, <2>1 DEF RecordInfoAnswerRecv
  <2>2. CASE RelayOnce(a)
    BY <1>4, <2>2 DEF RelayOnce
  <2>3. ~ DeviceCatalogAnswer(a)
    BY DEF DeviceCatalogAnswer, Relayed
  <2> QED
    BY <2>1, <2>2, <2>3 DEF AnswerStep
<1>6. PICK sn : Forward(a, a[1], sn)
  BY <1>5
<1>7. [answer |-> a, to |-> a[1], sn |-> sn] \in forwarded'
  BY <1>6 DEF Forward
<1> QED
  BY <1>7

LEMMA AnswersForwardedStep ==
    ASSUME Facts, AnswerInv, [Next]_vars
    PROVE  AnswersForwarded'
<1> SUFFICES ASSUME NEW r \in Request, KindOf[r] \in Relayed, Unique(r)', ~ Doubled(r)',
                    r \notin expired', NEW a \in Came(r)'
             PROVE  \E f \in forwarded' : f.to = r /\ f.answer = a
  BY DEF AnswersForwarded
<1> USE DEF AnswerInv
<1>0. ~ Doubled(r) /\ r \notin expired
  BY Monotone DEF Doubled
<1>1. CASE a \in Came(r)
  <2>1. key[r] # 0
    BY <1>1 DEF CameAsked, Asked, Came
  <2>2. Unique(r)
    BY <2>1, UniqueBefore
  <2> QED
    BY <1>0, <1>1, <2>2, Monotone DEF AnswersForwarded
<1>2. CASE a \notin Came(r)
  <2>1. PICK b \in Answer : /\ b[1] = r /\ AnswerStep(b) /\ b \notin arrived
                            /\ Came(r)' = Came(r) \cup {b}
    BY <1>2, CameFacts
  <2>2. a = b
    BY <1>2, <2>1
  <2>3. key[r] # 0
    BY <2>1, AnswerMap DEF Asked, Facts
  <2>4. Unique(r)
    BY <2>3, UniqueBefore
  <2> QED
    BY <1>0, <2>1, <2>2, <2>4, ForwardedWhenAwaited
<1> QED
  BY <1>1, <1>2

LEMMA InitAnswer == Init => AnswerInv
<1> SUFFICES ASSUME Init PROVE AnswerInv
  OBVIOUS
<1>1. forwarded = {} /\ arrived = {} /\ \A r \in Request : key[r] = 0
  BY DEF Init, RelayInit
<1> QED
  BY <1>1
     DEF AnswerInv, ForwardedBySn, CameAsked, GuardHeld, AnswerAwaited, RecordAwaited,
         AnswersForwarded, Unique

LEMMA StepAnswer == RelayInv /\ AnswerInv /\ [Next]_vars => AnswerInv'
  BY RelayFacts, ForwardedStep, CameAskedStep, GuardHeldStep, AnswerAwaitedStep,
     RecordAwaitedStep, AnswersForwardedStep
     DEF AnswerInv

LEMMA AnswerInvariant == Spec => [](RelayInv /\ AnswerInv)
<1>1. RelayInv /\ AnswerInv /\ [Next]_vars => (RelayInv /\ AnswerInv)'
  BY StepRelay, StepAnswer
<1> QED
  BY InitRelay, InitAnswer, <1>1, PTL DEF Spec

\* Queries whose SN nobody else uses do not disturb each other.
THEOREM AnswersDoReachAsker == Spec => []AnswersReachAsker
<1>1. RelayInv /\ AnswerInv => AnswersReachAsker
  <2> SUFFICES ASSUME RelayInv, AnswerInv, NEW r \in Request, Unique(r)
               PROVE  /\ \A f \in forwarded : f.to = r => f.answer[1] = r /\ f.sn = SnOf[r]
                      /\ KindOf[r] \in Relayed /\ ~ Doubled(r) /\ r \notin expired =>
                            \A a \in arrived : a[1] = r =>
                                \E f \in forwarded : f.to = r /\ f.answer = a
                      /\ KindOf[r] = "guard" /\ r \notin cleared => Stored(r)
    BY DEF AnswersReachAsker
  <2> USE DEF AnswerInv
  <2>1. ASSUME NEW f \in forwarded, f.to = r
        PROVE  f.answer[1] = r /\ f.sn = SnOf[r]
    <3>1. /\ f.answer \in Answer
          /\ key[f.answer[1]] = key[r]
          /\ f.sn = IF KindOf[f.answer[1]] = "record" THEN OwnSn(r) ELSE key[r]
          /\ KindOf[f.answer[1]] \in Relayed
      BY <2>1 DEF ForwardedBySn
    <3>2. f.answer[1] = r
      BY <3>1, AnswerFacts DEF Unique
    <3>3. CASE KindOf[r] = "record"
      BY <3>1, <3>2, <3>3 DEF OwnSn
    <3>4. CASE KindOf[r] \in {"info", "status"}
      BY <3>1, <3>2, <3>4 DEF RelayInv, Keyed, Unique
    <3> QED
      BY <3>1, <3>2, <3>3, <3>4 DEF Relayed
  <2>2. KindOf[r] \in Relayed /\ ~ Doubled(r) /\ r \notin expired =>
            \A a \in arrived : a[1] = r => \E f \in forwarded : f.to = r /\ f.answer = a
    BY DEF AnswersForwarded, Came
  <2>3. KindOf[r] = "guard" /\ r \notin cleared => Stored(r)
    BY DEF GuardHeld
  <2> QED
    BY <2>1, <2>2, <2>3
<1> QED
  BY <1>1, AnswerInvariant, PTL

\* Of every alarm the clients with a guard are told, and no others.
THEOREM GuardsAreTold == Spec => GuardsTold
<1>1. ASSUME RelayInv, AnswerInv, [Next]_vars,
             NEW n \in Alarm, told'[n] # told[n], \A r \in Request : key[r] # AlarmSn[n]
      PROVE  /\ \A r \in told'[n] : KindOf[r] = "guard"
             /\ \A r \in Request :
                   KindOf[r] = "guard" /\ Unique(r) /\ r \notin cleared => r \in told'[n]
  <2>1. Facts /\ AlarmSn[n] \in Sn
    BY <1>1, RelayFacts, RelayAssumption
  <2>2. DeviceAlarmMsgRecv(n) /\ told'[n] = Told(AlarmSn[n])
    BY <1>1, <2>1, ToldSteps DEF DeviceAlarmMsgRecv, Facts, AnswerTypes
  <2>3. session[AlarmSn[n]] = NoSession
    BY <1>1, <2>1 DEF Facts, Keyed, MapTypes
  <2>4. told'[n] = Guards
    BY <2>2, <2>3 DEF Told
  <2> QED
    BY <1>1, <2>4 DEF Guards, AnswerInv, GuardHeld
<1>2. RelayInv /\ AnswerInv /\ [Next]_vars =>
          [\A n \in Alarm :
              told'[n] # told[n] /\ (\A r \in Request : key[r] # AlarmSn[n]) =>
                  /\ \A r \in told'[n] : KindOf[r] = "guard"
                  /\ \A r \in Request :
                        KindOf[r] = "guard" /\ Unique(r) /\ r \notin cleared => r \in told'[n]]_vars
  BY <1>1
<1> QED
  BY <1>2, AnswerInvariant, PTL DEF Spec, GuardsTold
(***************************************************************************)
(* The clean-up of catalogs.                                               *)
(***************************************************************************)
StoreFacts == Facts /\ ListTypes /\ OtherTypes /\ CameAsked

LEMMA StoreFactsHold == RelayInv /\ AnswerInv => StoreFacts
  BY TypesSplit DEF RelayInv, AnswerInv, StoreFacts, Facts

LEMMA ListsKept ==
    ASSUME ListTypes, [Next]_vars
    PROVE  missed \subseteq missed' /\ late \subseteq late' /\ cleaned \subseteq cleaned'
<1>1. missed \subseteq missed'
  <2>1. CASE UNCHANGED <<listVars, erasing>>
    BY <2>1 DEF listVars
  <2>2. CASE SaveCatalogToDB \/ DeleteOvertimeChannel \/ EraseFirst
    BY <2>2 DEF SaveCatalogToDB, DeleteOvertimeChannel, EraseFirst
  <2>3. ASSUME NEW a \in Answer, DeviceCatalogAnswer(a)
        PROVE  missed \subseteq missed'
    BY <2>3, CatalogPush, PushFacts DEF listVars, ListTypes
  <2> QED
    BY <2>1, <2>2, <2>3, ListCases DEF ListSteps
<1>2. late \subseteq late' /\ cleaned \subseteq cleaned'
  BY DbCases DEF storeVars, DbSteps, SaveCatalogToDB, DeleteOvertimeChannel, DeviceNotifyAnswer,
                 HourPasses
<1> QED
  BY <1>1, <1>2

\* While nothing excuses a catalog, what was written of it does not grow old.
LEMMA DueBefore ==
    ASSUME StoreFacts, [Next]_vars, NEW r \in Request, Due(r)', key[r] # 0
    PROVE  /\ Due(r)
           /\ Unique(r) /\ ~ Doubled(r)' /\ key'[r] = key[r]
           /\ \A p \in Parts(r) : Written(<<r, p>>) => Written(<<r, p>>)'
<1> USE DEF StoreFacts
<1>1. Unique(r) /\ key'[r] = key[r] /\ ~ Doubled(r)'
  BY UniqueBefore DEF Due, Excused
<1>2. Due(r)
  BY <1>1, ListsKept, Monotone DEF Due, Excused, Doubled
<1>3. ASSUME NEW p \in Parts(r), Written(<<r, p>>)
      PROVE  Written(<<r, p>>)'
  <2>1. \A c \in Lists[<<r, p>>] : c \in Camera /\ db[c] # "old"
    BY <1>3, AnswerFacts, StoreAssumption DEF Written
  <2>2. CASE UNCHANGED storeVars
    BY <2>1, <2>2 DEF storeVars, Written
  <2>3. ASSUME NEW cams, Wrote(cams)
        PROVE  Written(<<r, p>>)'
    BY <2>1, <2>3 DEF Wrote, Written
  <2>4. CASE DeleteOvertimeChannel
    BY <2>1, <2>4 DEF DeleteOvertimeChannel, Written
  <2>5. ASSUME NEW c \in Camera, DeviceNotifyAnswer(c)
        PROVE  Written(<<r, p>>)'
    BY <2>1, <2>5 DEF DeviceNotifyAnswer, Written, OtherTypes
  <2>6. ~ HourPasses
    <3>1. r \notin late' /\ r \notin cleaned /\ KindOf[r] = "catalog" /\ step[r] # "new"
      BY <1>2 DEF Due, Excused, Facts, Keyed
    <3> QED
      BY <3>1 DEF HourPasses, Running
  <2> QED
    BY <2>2, <2>3, <2>4, <2>5, <2>6, DbCases DEF DbSteps, SaveCatalogToDB
<1> QED
  BY <1>1, <1>2, <1>3

\* The list with what a push leaves of it.
LEMMA ListAfter ==
    ASSUME ListTypes, NEW kept \in Seq(Element), catalogs' = catalogs \o kept
    PROVE  /\ Len(catalogs) \in Nat /\ DOMAIN catalogs = 1 .. Len(catalogs)
           /\ DOMAIN kept = 1 .. Len(kept)
           /\ DOMAIN catalogs' = 1 .. (Len(catalogs) + Len(kept))
           /\ \A i \in DOMAIN catalogs : i \in DOMAIN catalogs' /\ catalogs'[i] = catalogs[i]
           /\ \A i \in DOMAIN catalogs' : i > Len(catalogs) =>
                 /\ i - Len(catalogs) \in DOMAIN kept
                 /\ catalogs'[i] = kept[i - Len(catalogs)]
  BY ConcatProperties, LenProperties DEF ListTypes

LEMMA ListTail ==
    ASSUME ListTypes, EraseFirst
    PROVE  /\ Len(catalogs) \in Nat \ {0} /\ DOMAIN catalogs = 1 .. Len(catalogs)
           /\ DOMAIN catalogs' = 1 .. (Len(catalogs) - 1)
           /\ \A i \in DOMAIN catalogs' : catalogs'[i] = catalogs[i + 1]
           /\ Head(catalogs) = catalogs[1]
<1>1. catalogs \in Seq(Element) /\ catalogs # <<>> /\ catalogs' = Tail(catalogs)
  BY DEF ListTypes, EraseFirst
<1>2. /\ Len(catalogs) \in Nat \ {0} /\ DOMAIN catalogs = 1 .. Len(catalogs)
      /\ Head(catalogs) = catalogs[1]
  BY <1>1, LenProperties
<1>3. /\ catalogs' \in Seq(Element) /\ Len(catalogs') = Len(catalogs) - 1
      /\ \A i \in 1 .. Len(catalogs') : catalogs'[i] = catalogs[i + 1]
  BY <1>1, HeadTailProperties
<1> QED
  BY <1>2, <1>3, LenProperties

\* What a catalog packet does: it is counted or not, and put into the list with
\* or without the "End"; what the list loses of that is missed.
Takes(a, new, kept) ==
    /\ kept \in Seq(Element)
    /\ kept \in Remains(new)
    /\ catalogs' = catalogs \o kept
    /\ Elements(new) \ Elements(kept) \subseteq missed'

LEMMA CatalogStep ==
    ASSUME StoreFacts, NEW a \in Answer, DeviceCatalogAnswer(a)
    PROVE  /\ a[1] \in Request /\ KindOf[a[1]] = "catalog" /\ key[a[1]] \in Sn
           /\ AnswerStep(a)
           /\ UNCHANGED erasing
           /\ \/ UNCHANGED <<listVars, mapVars>>
              \/ /\ \E kept : Takes(a, <<a>>, kept)
                 /\ UNCHANGED mapVars
              \/ /\ \E kept : Takes(a, <<a>>, kept)
                 /\ session[key[a[1]]] # NoSession
                 /\ Count(key[a[1]], SumOf[a[1]])
              \/ /\ \E kept : Takes(a, Taken(a), kept)
                 /\ Count(key[a[1]], SumOf[a[1]])
                 /\ SumOf[a[1]] # 0
                 /\ session[key[a[1]]] # NoSession
                 /\ num[session[key[a[1]]]] + 1 >= SumOf[a[1]]
<1>1. a[1] \in Request /\ KindOf[a[1]] = "catalog" /\ UNCHANGED erasing /\ AnswerStep(a)
  BY AnswerFacts DEF DeviceCatalogAnswer, AnswerFrame, AnswerStep
<1>2. key[a[1]] \in Sn
  BY <1>1, AnswerMap DEF StoreFacts, Facts
<1>3. <<a>> \in Seq(Element) /\ Taken(a) \in Seq(Element)
  BY AnswerFacts DEF Taken, Element
<1>4. ASSUME NEW new \in Seq(Element), Push(new)
      PROVE  \E kept : Takes(a, new, kept)
  BY <1>4, PushFacts DEF Takes, StoreFacts, ListTypes
<1> QED
  BY <1>1, <1>2, <1>3, <1>4 DEF DeviceCatalogAnswer

LEMMA ElementsTaken ==
    ASSUME NEW a \in Answer, NEW new \in {<<a>>, Taken(a)}
    PROVE  a \in Elements(new) /\ \A x \in Elements(new) : x = a \/ (x = End(a[1]) /\ new = Taken(a))
<1>1. Elements(<<a>>) = {a} /\ Elements(<<a, End(a[1])>>) = {a, End(a[1])}
  BY DEF Elements
<1>2. CASE new = <<a>>
  BY <1>1, <1>2
<1>3. CASE new = Taken(a)
  BY <1>1, <1>3 DEF Taken
<1> QED
  BY <1>2, <1>3

LEMMA TakesOnly ==
    ASSUME NEW a \in Answer, NEW new \in {<<a>>, Taken(a)}, NEW kept, Takes(a, new, kept),
           NEW x \in Elements(kept)
    PROVE  x = a \/ (x = End(a[1]) /\ new = Taken(a))
<1>1. \A y : Elements(<<y>>) = {y}
  BY DEF Elements
<1>2. Elements(<<>>) = {}
  BY DEF Elements
<1>3. Elements(kept) \subseteq Elements(new)
  BY <1>1, <1>2 DEF Takes, Remains
<1> QED
  BY <1>3, ElementsTaken

\* A packet that is not among the missed ones was kept.
LEMMA TakesKeeps ==
    ASSUME NEW a \in Answer, NEW new \in {<<a>>, Taken(a)}, NEW kept, Takes(a, new, kept),
           a \notin missed'
    PROVE  a \in Elements(kept)
<1>1. a \in Elements(new)
  BY ElementsTaken
<1>2. Elements(new) \ Elements(kept) \subseteq missed'
  BY DEF Takes
<1> QED
  BY <1>1, <1>2

\* What has kept packet and "End" has kept them in this order.
LEMMA TakesOrder ==
    ASSUME NEW a \in Answer, NEW new \in {<<a>>, Taken(a)}, NEW kept, Takes(a, new, kept),
           a \in Elements(kept), End(a[1]) \in Elements(kept)
    PROVE  kept = <<a, End(a[1])>>
<1>1. a # End(a[1])
  BY AnswerFacts, EndFacts
<1>2. new = Taken(a)
  BY <1>1, TakesOnly
<1>3. \A y : Elements(<<y>>) = {y}
  BY DEF Elements
<1>4. Elements(<<>>) = {}
  BY DEF Elements
<1>5. kept \in {<<>>, new} \cup {<<x>> : x \in Elements(new)}
  BY DEF Takes, Remains
<1>6. kept = new
  BY <1>1, <1>3, <1>4, <1>5
<1> QED
  BY <1>2, <1>6 DEF Taken

\* A catalog packet is queued under the SN it came with.
LEMMA QueuedAskedStep ==
    ASSUME StoreFacts, QueuedAsked, [Next]_vars
    PROVE  QueuedAsked'
<1> USE DEF StoreFacts
<1>0. ASSUME NEW i \in DOMAIN catalogs
      PROVE  KindOf[catalogs[i][1]] = "catalog" /\ key'[catalogs[i][1]] # 0
  <2>1. catalogs[i] \in Element
    BY DEF ListTypes
  <2>2. catalogs[i][1] \in Request
    BY <2>1, ElementFacts
  <2> QED
    BY <2>2, KeysKept DEF QueuedAsked
<1>1. CASE UNCHANGED catalogs
  BY <1>0, <1>1 DEF QueuedAsked
<1>2. CASE EraseFirst
  BY <1>0, <1>2, ListTail DEF QueuedAsked
<1>3. ASSUME NEW a \in Answer, DeviceCatalogAnswer(a)
      PROVE  QueuedAsked'
  <2>1. /\ KindOf[a[1]] = "catalog"
        /\ key'[a[1]] # 0
    BY <1>3, CatalogStep, KeysKept, SnFacts
  <2>2. ASSUME NEW new \in {<<a>>, Taken(a)}, NEW kept, Takes(a, new, kept)
        PROVE  QueuedAsked'
    <3>1. \A x \in Elements(kept) : x[1] = a[1]
      <4>1. End(a[1])[1] = a[1]
        BY DEF End
      <4>2. \A x \in Elements(kept) : x = a \/ x = End(a[1])
        BY <2>2, TakesOnly
      <4> QED
        BY <4>1, <4>2
    <3>2. \A j \in DOMAIN kept : kept[j][1] = a[1]
      BY <3>1 DEF Elements
    <3> QED
      BY <1>0, <2>1, <2>2, <3>2, ListAfter DEF Takes, QueuedAsked
  <2> QED
    BY <1>1, <1>3, <2>2, CatalogStep DEF listVars
<1> QED
  BY <1>1, <1>2, <1>3, ListCases
     DEF listVars, ListSteps, SaveCatalogToDB, DeleteOvertimeChannel, SaverFrame
\* How often the packets of a catalog are counted.
LEMMA NumSteps ==
    ASSUME StoreFacts, [Next]_vars, NEW r \in Request
    PROVE  \/ num'[r] = num[r]
           \/ num'[r] = 0
           \/ \E a \in Answer : /\ AnswerStep(a)
                                /\ key[a[1]] \in Sn
                                /\ session[key[a[1]]] = r
                                /\ num'[r] = num[r] + 1
<1> USE DEF StoreFacts, Facts, MapTypes, mapVars
<1>1. ASSUME NEW q \in Request, QueryStep(q)
      PROVE  num'[r] = num[r] \/ num'[r] = 0
  BY <1>1, QueryMap DEF Insert
<1>2. ASSUME NEW a \in Answer, AnswerStep(a)
      PROVE  \/ num'[r] = num[r]
             \/ /\ key[a[1]] \in Sn
                /\ session[key[a[1]]] = r
                /\ num'[r] = num[r] + 1
  BY <1>2, AnswerMap DEF Count, Erase
<1>3. CASE num' = num
  BY <1>3
<1> QED
  BY <1>1, <1>2, <1>3, StepCases
     DEF Elsewhere, sessionVars, ResetGuard, Erase, CheckTimeAction, Tick

\* For a query with an SN of its own, each packet is counted when it comes, if at
\* all.
LEMMA NumOfUnique ==
    ASSUME StoreFacts, [Next]_vars, NEW r \in Request, Unique(r), ~ Doubled(r)'
    PROVE  /\ IsFiniteSet(Came(r)) /\ Cardinality(Came(r)) \in Nat
           /\ \/ /\ Came(r)' = Came(r)
                 /\ num'[r] \in {num[r], 0}
              \/ \E a \in Answer :
                    /\ a[1] = r /\ AnswerStep(a)
                    /\ Came(r)' = Came(r) \cup {a}
                    /\ Cardinality(Came(r)') = Cardinality(Came(r)) + 1
                    /\ num'[r] \in {num[r], 0, num[r] + 1}
<1> USE DEF StoreFacts
<1>1. IsFiniteSet(Came(r)) /\ Cardinality(Came(r)) \in Nat
  BY CameFacts, WholeFacts, FS_Subset, FS_CardinalityType
<1>2. ASSUME NEW a \in Answer, AnswerStep(a), key[a[1]] \in Sn, session[key[a[1]]] = r
      PROVE  a[1] = r
  <2>1. a[1] \in Request /\ r # NoSession
    BY AnswerFacts, RelayAssumption
  <2>2. key[r] = key[a[1]]
    BY <1>2, <2>1 DEF Facts, Keyed
  <2> QED
    BY <2>1, <2>2 DEF Unique
<1>3. ASSUME NEW a \in Answer, AnswerStep(a), a[1] = r
      PROVE  /\ Came(r)' = Came(r) \cup {a}
             /\ Cardinality(Came(r)') = Cardinality(Came(r)) + 1
  <2>1. a \notin arrived
    BY <1>3, AnswerMap DEF Doubled, Facts
  <2>2. a \notin Came(r) /\ Came(r)' = Came(r) \cup {a}
    BY <1>3, <2>1, AnswerMap DEF Came, Facts
  <2> QED
    BY <1>1, <2>2, FS_AddElement
<1>4. CASE \E a \in Answer : a[1] = r /\ AnswerStep(a)
  BY <1>1, <1>3, <1>4, NumSteps
<1>5. CASE ~ \E a \in Answer : a[1] = r /\ AnswerStep(a)
  BY <1>1, <1>2, <1>5, NumSteps, CameFacts
<1> QED
  BY <1>4, <1>5

LEMMA CatalogCountedStep ==
    ASSUME StoreFacts, CatalogCounted, [Next]_vars
    PROVE  CatalogCounted'
<1> USE DEF StoreFacts
<1>1. ASSUME NEW r \in Request, key'[r] = 0
      PROVE  num'[r] = 0
  <2>1. key[r] = 0 /\ num[r] = 0
    BY <1>1, KeysKept DEF CatalogCounted
  <2>2. \A k \in Sn : session[k] # r
    BY <2>1, SnFacts, RelayAssumption DEF Facts, Keyed
  <2> QED
    BY <2>1, <2>2, NumSteps
<1>2. ASSUME NEW r \in Request, KindOf[r] = "catalog", Unique(r)', ~ Doubled(r)'
      PROVE  num'[r] <= Cardinality(Came(r)')
  <2>1. CASE key[r] = 0
    <3>1. num[r] = 0 /\ \A k \in Sn : session[k] # r
      BY <2>1, SnFacts, RelayAssumption DEF CatalogCounted, Facts, Keyed
    <3>2. num'[r] = 0
      BY <3>1, NumSteps
    <3>3. Cardinality(Came(r)') \in Nat
      BY CameFacts, WholeFacts, FS_Subset, FS_CardinalityType
    <3> QED
      BY <3>2, <3>3
  <2>2. CASE key[r] # 0
    <3>1. Unique(r) /\ ~ Doubled(r)
      BY <1>2, <2>2, UniqueBefore, Monotone DEF Doubled
    <3>2. num[r] <= Cardinality(Came(r)) /\ num[r] \in Nat
      BY <1>2, <3>1 DEF CatalogCounted, Facts, MapTypes
    <3> QED
      BY <1>2, <3>1, <3>2, NumOfUnique
  <2> QED
    BY <2>1, <2>2
<1> QED
  BY <1>1, <1>2 DEF CatalogCounted

\* An element of the list is there after a step, or was unlinked as its head.
LEMMA QueuedKept ==
    ASSUME StoreFacts, UnlinkedWritten, [Next]_vars, NEW r \in Request, Due(r), NEW p \in Parts(r),
           Queued(<<r, p>>)
    PROVE  Queued(<<r, p>>)' \/ Written(<<r, p>>)
<1> USE DEF StoreFacts
<1>1. CASE UNCHANGED catalogs
  BY <1>1 DEF Queued
<1>2. CASE EraseFirst
  <2>1. PICK j \in DOMAIN catalogs : catalogs[j] = <<r, p>>
    BY DEF Queued
  <2>2. CASE j = 1
    BY <1>2, <2>1, <2>2, ListTail DEF UnlinkedWritten, EraseFirst
  <2>3. CASE j # 1
    <3>1. j - 1 \in DOMAIN catalogs' /\ catalogs'[j - 1] = catalogs[j]
      BY <1>2, <2>3, ListTail
    <3> QED
      BY <2>1, <3>1 DEF Queued
  <2> QED
    BY <2>2, <2>3
<1>3. ASSUME NEW kept \in Seq(Element), catalogs' = catalogs \o kept
      PROVE  Queued(<<r, p>>)'
  BY <1>3, ListAfter DEF Queued
<1> QED
  BY <1>1, <1>2, <1>3, ListCases, CatalogStep
     DEF listVars, ListSteps, SaveCatalogToDB, DeleteOvertimeChannel, SaverFrame, Takes
\* A packet that is counted while all before it are, is put into the list.
LEMMA CountedTaken ==
    ASSUME StoreFacts, [Next]_vars, NEW a \in Answer, DeviceCatalogAnswer(a), Due(a[1])',
           ~ UNCHANGED <<listVars, mapVars>>
    PROVE  Queued(a)'
<1> USE DEF StoreFacts
<1>1. a \notin missed'
  BY DEF Due, Excused
<1>2. ASSUME NEW new \in {<<a>>, Taken(a)}, NEW kept, Takes(a, new, kept)
      PROVE  Queued(a)'
  <2>0. a \in Elements(kept)
    BY <1>1, <1>2, TakesKeeps
  <2>1. PICK j \in DOMAIN kept : kept[j] = a
    BY <2>0 DEF Elements
  <2>2. /\ Len(catalogs) + j \in DOMAIN catalogs'
        /\ catalogs'[Len(catalogs) + j] = kept[j]
    BY <1>2, <2>1, ConcatProperties, LenProperties DEF ListTypes, Takes
  <2> QED
    BY <2>1, <2>2 DEF Queued
<1> QED
  BY <1>2, CatalogStep

LEMMA CountedQueuedStep ==
    ASSUME StoreFacts, StoreInv, [Next]_vars
    PROVE  CountedQueued'
<1> USE DEF StoreFacts, StoreInv
<1> SUFFICES ASSUME NEW r \in Request, Due(r)', num'[r] = Cardinality(Came(r)'),
                    NEW a \in Came(r)'
             PROVE  Queued(a)' \/ Written(a)'
  BY DEF CountedQueued
<1>1. a \in Answer /\ a[1] = r /\ a[2] \in Parts(r) /\ a = <<r, a[2]>>
  BY CameFacts, AnswerTypesStep, AnswerFacts DEF Came, Facts, AnswerTypes
<1>2. key[r] # 0
  <2>1. Asked(r)
    BY <1>1, Arrivals, AnswerMap DEF Came, CameAsked, Facts
  <2> QED
    BY <2>1 DEF Asked
<1>3. Due(r) /\ Unique(r) /\ ~ Doubled(r)' /\ ~ Doubled(r)
  BY <1>2, DueBefore, Monotone DEF Doubled
<1>4. num[r] <= Cardinality(Came(r)) /\ num[r] \in Nat /\ KindOf[r] = "catalog"
  BY <1>3 DEF CatalogCounted, Facts, MapTypes, Due
<1>5. ASSUME a \in Came(r), num[r] = Cardinality(Came(r))
      PROVE  Queued(a)' \/ Written(a)'
  <2>1. Queued(a) \/ Written(a)
    BY <1>3, <1>5 DEF CountedQueued
  <2>2. Written(a) => Written(a)'
    BY <1>1, <1>2, DueBefore
  <2> QED
    BY <1>1, <1>3, <2>1, <2>2, QueuedKept
<1>6. CASE Came(r)' = Came(r) /\ num'[r] \in {num[r], 0}
  <2>1. Cardinality(Came(r)) # 0
    BY <1>3, <1>6, NumOfUnique, FS_EmptySet
  <2> QED
    BY <1>5, <1>6, <2>1
<1>7. ASSUME NEW b \in Answer, b[1] = r, AnswerStep(b),
             Came(r)' = Came(r) \cup {b},
             Cardinality(Came(r)') = Cardinality(Came(r)) + 1,
             num'[r] \in {num[r], 0, num[r] + 1}
      PROVE  Queued(a)' \/ Written(a)'
  <2>1. Cardinality(Came(r)) \in Nat
    BY <1>3, NumOfUnique
  <2>2. num[r] = Cardinality(Came(r)) /\ num'[r] # num[r]
    BY <1>4, <1>7, <2>1
  <2>3. DeviceCatalogAnswer(b) /\ ~ UNCHANGED <<listVars, mapVars>>
    BY <1>4, <1>7, <2>2 DEF AnswerStep, RecordInfoAnswerRecv, mapVars
  <2>4. CASE a = b
    BY <1>1, <2>3, <2>4, CountedTaken
  <2> QED
    BY <1>5, <1>7, <2>2, <2>4
<1> QED
  BY <1>3, <1>6, <1>7, NumOfUnique

LEMMA UnlinkedWrittenStep ==
    ASSUME StoreFacts, StoreInv, [Next]_vars
    PROVE  UnlinkedWritten'
<1> USE DEF StoreFacts, StoreInv
<1> SUFFICES ASSUME erasing', NEW r \in Request, Due(r)', NEW p \in Parts(r),
                    Head(catalogs') = <<r, p>>
             PROVE  Written(<<r, p>>)'
  BY DEF UnlinkedWritten, Parts
<1>1. <<r, p>> \in Answer
  BY AnswerFacts
<1>2. CASE SaveCatalogToDB
  <2>1. catalogs' = catalogs /\ <<r, p>> \notin missed'
    BY <1>2 DEF SaveCatalogToDB, SaverFrame, Due, Excused
  <2>2. Wrote(Lists[<<r, p>>])
    BY <1>2, <2>1 DEF SaveCatalogToDB
  <2> QED
    BY <1>1, <2>2, StoreAssumption DEF Wrote, Written
<1>3. CASE DeleteOvertimeChannel
  BY <1>1, <1>3 DEF DeleteOvertimeChannel, SaverFrame
<1>4. ASSUME erasing, Head(catalogs) = <<r, p>>, catalogs # <<>>
      PROVE  Written(<<r, p>>)'
  <2>1. catalogs[1] = <<r, p>> /\ 1 \in DOMAIN catalogs
    BY <1>4, LenProperties DEF ListTypes
  <2>2. key[r] # 0
    BY <2>1 DEF QueuedAsked
  <2>3. Due(r)
    BY <2>2, DueBefore
  <2> QED
    BY <1>4, <2>2, <2>3, DueBefore DEF UnlinkedWritten
<1>5. CASE EraseFirst
  BY <1>5 DEF EraseFirst
<1>6. CASE UNCHANGED <<catalogs, erasing>>
  BY <1>4, <1>6 DEF ListTypes
<1>7. ASSUME NEW kept \in Seq(Element), catalogs' = catalogs \o kept, UNCHANGED erasing
      PROVE  Written(<<r, p>>)'
  <2>1. catalogs # <<>> /\ erasing
    BY <1>7 DEF ListTypes
  <2>2. Head(catalogs') = Head(catalogs)
    BY <1>7, <2>1, ConcatProperties, LenProperties DEF ListTypes
  <2> QED
    BY <1>4, <2>1, <2>2
<1> QED
  BY <1>2, <1>3, <1>5, <1>6, <1>7, ListCases, CatalogStep DEF listVars, ListSteps, Takes
\* When the packet comes that "End" is put after, all the others have been
\* queued or written.
LEMMA LastTaken ==
    ASSUME StoreFacts, StoreInv, [Next]_vars, NEW a \in Answer, DeviceCatalogAnswer(a),
           Due(a[1])', SumOf[a[1]] # 0, session[key[a[1]]] # NoSession,
           num[session[key[a[1]]]] + 1 >= SumOf[a[1]], NEW p \in Parts(a[1])
    PROVE  \/ <<a[1], p>> = a
           \/ Queued(<<a[1], p>>)
           \/ Written(<<a[1], p>>)
<1> DEFINE r == a[1]
<1> USE DEF StoreFacts, StoreInv
<1>1. /\ r \in Request /\ KindOf[r] = "catalog" /\ key[r] \in Sn /\ key[r] # 0
      /\ AnswerStep(a)
  BY CatalogStep, SnFacts
<1>2. Due(r) /\ Unique(r) /\ ~ Doubled(r)' /\ ~ Doubled(r)
  BY <1>1, DueBefore, Monotone DEF Doubled
<1>3. session[key[r]] = r
  BY <1>1, <1>2 DEF Facts, MapTypes, Keyed, Unique
<1>4. a \notin Came(r) /\ a \in Came(r)'
  BY <1>1, <1>2, AnswerMap DEF Came, Doubled, Facts
<1>5. /\ Came(r)' = Came(r) \cup {a}
      /\ Cardinality(Came(r)') = Cardinality(Came(r)) + 1
      /\ Cardinality(Came(r)) \in Nat
  BY <1>1, <1>2, <1>4, NumOfUnique
<1>6. /\ IsFiniteSet(WholeAnswer(r)) /\ Cardinality(WholeAnswer(r)) = SumOf[r]
      /\ Came(r)' \subseteq WholeAnswer(r)
  BY <1>1, WholeFacts, CameFacts DEF Counted
<1>7. Cardinality(Came(r)') <= SumOf[r] /\ SumOf[r] \in Nat
  BY <1>1, <1>6, FS_Subset, RelayAssumption
<1>8. num[r] <= Cardinality(Came(r)) /\ num[r] \in Nat
  BY <1>1, <1>2 DEF CatalogCounted, Facts, MapTypes
<1>9. num[r] = Cardinality(Came(r)) /\ Cardinality(Came(r)') = SumOf[r]
  BY <1>3, <1>5, <1>7, <1>8
<1>10. Came(r)' = WholeAnswer(r)
  BY <1>6, <1>9, FS_Subset
<1>11. <<r, p>> \in Came(r) \cup {a}
  BY <1>5, <1>10 DEF WholeAnswer
<1> QED
  BY <1>1, <1>2, <1>9, <1>11 DEF CountedQueued

LEMMA EndsLastStep ==
    ASSUME StoreFacts, StoreInv, [Next]_vars
    PROVE  EndsLast'
<1> USE DEF StoreFacts, StoreInv
<1> SUFFICES ASSUME NEW r \in Request, Due(r)', NEW i \in DOMAIN catalogs',
                    catalogs'[i] = End(r), NEW p \in Parts(r)
             PROVE  Written(<<r, p>>)' \/ \E j \in 1 .. (i - 1) : catalogs'[j] = <<r, p>>
  BY DEF EndsLast, Parts, End
<1>1. ASSUME NEW k \in DOMAIN catalogs, catalogs[k] = End(r)
      PROVE  /\ Due(r)
             /\ Written(<<r, p>>) => Written(<<r, p>>)'
             /\ Written(<<r, p>>)' \/ \E j \in 1 .. (k - 1) : catalogs[j] = <<r, p>>
  <2>1. key[r] # 0
    BY <1>1, EndFacts DEF QueuedAsked
  <2>2. Due(r) /\ (Written(<<r, p>>) => Written(<<r, p>>)')
    BY <2>1, DueBefore
  <2> QED
    BY <1>1, <2>2 DEF EndsLast
<1>2. CASE UNCHANGED catalogs
  BY <1>1, <1>2
<1>3. CASE EraseFirst
  <2>1. i + 1 \in DOMAIN catalogs /\ catalogs[i + 1] = End(r) /\ i \in Nat \ {0}
    BY <1>3, ListTail
  <2>2. CASE Written(<<r, p>>)'
    BY <2>2
  <2>3. ASSUME NEW j \in 1 .. i, catalogs[j] = <<r, p>>
        PROVE  Written(<<r, p>>)' \/ \E m \in 1 .. (i - 1) : catalogs'[m] = <<r, p>>
    <3>1. CASE j = 1
      <4>1. Head(catalogs) = <<r, p>> /\ erasing
        BY <1>3, <2>3, <3>1, ListTail DEF EraseFirst
      <4> QED
        BY <1>1, <2>1, <4>1 DEF UnlinkedWritten
    <3>2. CASE j # 1
      <4>1. j - 1 \in 1 .. (i - 1) /\ j - 1 \in DOMAIN catalogs' /\ (j - 1) + 1 = j
        BY <1>3, <2>1, <2>3, <3>2, ListTail
      <4>2. catalogs'[j - 1] = <<r, p>>
        BY <1>3, <2>3, <4>1, ListTail
      <4> QED
        BY <4>1, <4>2
    <3> QED
      BY <3>1, <3>2
  <2> QED
    BY <1>1, <2>1, <2>2, <2>3
<1>4. ASSUME NEW a \in Answer, DeviceCatalogAnswer(a), NEW new \in {<<a>>, Taken(a)},
             NEW kept, Takes(a, new, kept),
             new = <<a>> \/ /\ SumOf[a[1]] # 0
                            /\ session[key[a[1]]] # NoSession
                            /\ num[session[key[a[1]]]] + 1 >= SumOf[a[1]]
      PROVE  Written(<<r, p>>)' \/ \E j \in 1 .. (i - 1) : catalogs'[j] = <<r, p>>
  <2>1. /\ kept \in Seq(Element)
        /\ catalogs' = catalogs \o kept
    BY <1>4 DEF Takes
  <2>2. CASE i <= Len(catalogs)
    <3>1. i \in DOMAIN catalogs /\ catalogs[i] = End(r)
      BY <2>1, <2>2, ListAfter
    <3>2. \A j \in 1 .. (i - 1) : catalogs'[j] = catalogs[j]
      BY <2>1, <2>2, <3>1, ListAfter
    <3> QED
      BY <1>1, <3>1, <3>2
  <2>3. CASE i > Len(catalogs)
    <3>1. /\ i - Len(catalogs) \in DOMAIN kept
          /\ kept[i - Len(catalogs)] = End(r)
      BY <2>1, <2>3, ListAfter
    <3>2. End(r) \in Elements(kept)
      BY <3>1 DEF Elements
    <3>3. End(r) = End(a[1]) /\ new = Taken(a)
      <4>1. End(r) # a
        BY EndFacts
      <4>2. \A x \in Elements(kept) : x = a \/ (x = End(a[1]) /\ new = Taken(a))
        BY <1>4, TakesOnly
      <4> QED
        BY <3>2, <4>1, <4>2
    <3>4. r = a[1] /\ new # <<a>>
      BY <3>3 DEF End, Taken
    <3>5. a \notin missed'
      BY <3>4 DEF Due, Excused
    <3>6. kept = <<a, End(a[1])>>
      <4>1. a \in Elements(kept)
        BY <1>4, <3>5, TakesKeeps
      <4>2. End(a[1]) \in Elements(kept)
        BY <3>2, <3>4, Zenon
      <4> QED
        BY <1>4, <4>1, <4>2, TakesOrder
    <3>7. Len(catalogs) \in Nat /\ i = Len(catalogs) + 2
      BY <2>1, <2>3, <3>1, <3>6, EndFacts, ListAfter
    <3>8. catalogs'[Len(catalogs) + 1] = a
      BY <2>1, <3>6, <3>7, ListAfter
    <3>9. \/ <<r, p>> = a
          \/ Queued(<<r, p>>)
          \/ Written(<<r, p>>)
      BY <1>4, <3>4, LastTaken
    <3>10. CASE <<r, p>> = a
      BY <3>7, <3>8, <3>10
    <3>11. CASE Queued(<<r, p>>)
      BY <2>1, <3>7, <3>11, ListAfter DEF Queued
    <3>12. CASE Written(<<r, p>>)
      <4>1. key[r] # 0
        BY <1>4, <3>4, CatalogStep, SnFacts
      <4> QED
        BY <3>12, <4>1, DueBefore
    <3> QED
      BY <3>9, <3>10, <3>11, <3>12
  <2>4. Len(catalogs) \in Nat /\ i \in Nat
    BY <2>1, ListAfter
  <2> QED
    BY <2>2, <2>3, <2>4
<1>5. ASSUME NEW a \in Answer, DeviceCatalogAnswer(a)
      PROVE  Written(<<r, p>>)' \/ \E j \in 1 .. (i - 1) : catalogs'[j] = <<r, p>>
  BY <1>2, <1>4, <1>5, CatalogStep DEF listVars
<1> QED
  BY <1>2, <1>3, <1>5, ListCases
     DEF listVars, ListSteps, SaveCatalogToDB, DeleteOvertimeChannel, SaverFrame
LEMMA InitStore == Init => StoreInv
<1> SUFFICES ASSUME Init PROVE StoreInv
  OBVIOUS
<1>1. /\ catalogs = <<>> /\ ~ erasing
      /\ arrived = {}
      /\ \A r \in Request : num[r] = 0 /\ ~ Unique(r)
  BY DEF Init, RelayInit, Unique
<1>2. \A r \in Request : ~ Due(r)
  BY <1>1 DEF Due, Excused
<1> QED
  BY <1>1, <1>2
     DEF StoreInv, QueuedAsked, CatalogCounted, CountedQueued, EndsLast, UnlinkedWritten

LEMMA StepStore == RelayInv /\ AnswerInv /\ StoreInv /\ [Next]_vars => StoreInv'
  BY StoreFactsHold, QueuedAskedStep, CatalogCountedStep, CountedQueuedStep, EndsLastStep,
     UnlinkedWrittenStep
     DEF StoreInv

\* "End" at the head of the list finds every camera of its catalog written.
LEMMA CleanedWritten ==
    ASSUME StoreFacts, StoreInv, [Next]_vars, NEW r \in cleaned' \ cleaned, ~ Excused(r)
    PROVE  /\ \A p \in Parts(r) : Written(<<r, p>>)
           /\ \A c \in Camera : db[c] \notin {"old", "absent"} => db'[c] # "absent"
           /\ r \in Request
<1> USE DEF StoreFacts, StoreInv
<1>1. DeleteOvertimeChannel /\ r = Head(catalogs)[1] /\ Head(catalogs) \notin Answer
  BY DbCases
     DEF storeVars, DbSteps, SaveCatalogToDB, DeleteOvertimeChannel, DeviceNotifyAnswer, HourPasses
<1>2. catalogs # <<>> /\ catalogs \in Seq(Element)
  BY <1>1 DEF DeleteOvertimeChannel, AtHead, ListTypes
<1>3. 1 \in DOMAIN catalogs /\ Head(catalogs) = catalogs[1] /\ catalogs[1] \in Element
  BY <1>2, LenProperties
<1>4. r \in Request /\ catalogs[1] = End(r)
  BY <1>1, <1>3, ElementFacts
<1>5. Due(r)
  BY <1>1, <1>3 DEF Due, QueuedAsked
<1>6. \A p \in Parts(r) : Written(<<r, p>>)
  <2>1. \A p \in Parts(r) : Written(<<r, p>>) \/ \E j \in 1 .. (1 - 1) : catalogs[j] = <<r, p>>
    BY <1>3, <1>4, <1>5 DEF EndsLast
  <2> QED
    BY <2>1
<1>7. \A c \in Camera : db[c] \notin {"old", "absent"} => db'[c] # "absent"
  BY <1>1 DEF DeleteOvertimeChannel
<1> QED
  BY <1>4, <1>6, <1>7

\* The clean-up deletes no camera that the catalog has just listed.
THEOREM ListedCamerasAreKept == Spec => ListedCamerasKept
<1>1. ASSUME RelayInv, AnswerInv, StoreInv, [Next]_vars,
             NEW r \in cleaned' \ cleaned, ~ Excused(r),
             NEW i \in Parts(r), NEW c \in Lists[<<r, i>>], db[c] # "absent"
      PROVE  db'[c] # "absent"
  <2>1. StoreFacts
    BY <1>1, StoreFactsHold
  <2>2. Written(<<r, i>>) /\ r \in Request
    BY <1>1, <2>1, CleanedWritten
  <2>3. c \in Camera
    BY <2>2, AnswerFacts, StoreAssumption
  <2>4. db[c] \notin {"old", "absent"}
    BY <1>1, <2>2 DEF Written
  <2> QED
    BY <1>1, <2>1, <2>3, <2>4, CleanedWritten
<1>2. RelayInv /\ AnswerInv /\ StoreInv /\ [Next]_vars =>
          [\A r \in cleaned' \ cleaned : Excused(r) \/
              \A i \in Parts(r) : \A c \in Lists[<<r, i>>] :
                  db[c] # "absent" => db'[c] # "absent"]_vars
  BY <1>1
<1>3. RelayInv /\ AnswerInv /\ StoreInv /\ [Next]_vars => (RelayInv /\ AnswerInv /\ StoreInv)'
  BY StepRelay, StepAnswer, StepStore
<1> QED
  BY <1>2, <1>3, InitRelay, InitAnswer, InitStore, PTL DEF Spec, ListedCamerasKept
==============================================================================
