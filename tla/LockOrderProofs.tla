--------------------------- MODULE LockOrderProofs ---------------------------
(***************************************************************************)
(* No set of threads waits for one another, however many there are.  The   *)
(* sections have an order that every nest keeps: what a thread waits for   *)
(* is never before what it is in.  In a circle of waiting threads each     *)
(* would be in a section that comes before the one it waits for, all the   *)
(* way round.                                                              *)
(***************************************************************************)
EXTENDS LockOrder, TLAPS

Rank == [m_csLock |-> 1, m_vLock |-> 2, m_PTZLock |-> 3, m_sLock |-> 4, m_SmartLock |-> 5,
         m_csInitial |-> 6, m_cs |-> 7, m_clock |-> 8, m_mapLock |-> 9, m_sendLock |-> 10]

Ordered(s) == \A i, j \in DOMAIN s : i < j => Rank[s[i]] <= Rank[s[j]]

\* Nests of sections, none of which comes before the n-th.
Fits(n, body) ==
    /\ body \subseteq Seq(Lock)
    /\ \A s \in body : Ordered(s)
    /\ \A s \in body : \A i \in DOMAIN s : n <= Rank[s[i]]

LEMMA RankFacts ==
    /\ Rank["m_csLock"] = 1 /\ Rank["m_vLock"] = 2 /\ Rank["m_PTZLock"] = 3
    /\ Rank["m_sLock"] = 4 /\ Rank["m_SmartLock"] = 5 /\ Rank["m_csInitial"] = 6
    /\ Rank["m_cs"] = 7 /\ Rank["m_clock"] = 8 /\ Rank["m_mapLock"] = 9
    /\ Rank["m_sendLock"] = 10
  BY DEF Rank

LEMMA Ranks ==
    /\ \A l \in Lock : Rank[l] \in 1 .. 10
    /\ \A k, l \in Lock : Rank[k] = Rank[l] => k = l
  BY RankFacts DEF Lock

LEMMA AloneFits ==
    ASSUME NEW l \in Lock, NEW n \in Nat, n <= Rank[l]
    PROVE  Fits(n, Alone(l))
<1>1. <<l>> \in Seq(Lock) /\ DOMAIN <<l>> = {1} /\ <<l>>[1] = l
  OBVIOUS
<1> QED
  BY <1>1, Ranks DEF Fits, Alone, Ordered

LEMMA UnionFits ==
    ASSUME NEW n \in Nat, NEW R, NEW T, Fits(n, R), Fits(n, T)
    PROVE  Fits(n, R \cup T)
  BY DEF Fits

LEMMA Weaker ==
    ASSUME NEW n \in Nat, NEW m \in Nat, n <= m, NEW R, Fits(m, R)
    PROVE  Fits(n, R)
<1>1. \A s \in R : \A i \in DOMAIN s : s[i] \in Lock
  BY DEF Fits
<1> QED
  BY <1>1, Ranks DEF Fits

LEMMA PrefixedFits ==
    ASSUME NEW l \in Lock, NEW s \in Seq(Lock), Ordered(s),
           \A i \in DOMAIN s : Rank[l] <= Rank[s[i]]
    PROVE  /\ <<l>> \o s \in Seq(Lock)
           /\ Ordered(<<l>> \o s)
           /\ \A i \in DOMAIN (<<l>> \o s) : Rank[l] <= Rank[(<<l>> \o s)[i]]
<1> DEFINE w == <<l>> \o s
<1>1. /\ w \in Seq(Lock)
      /\ DOMAIN w = 1 .. Len(s) + 1
      /\ w[1] = l
      /\ \A i \in DOMAIN w : i # 1 => i - 1 \in DOMAIN s /\ w[i] = s[i - 1]
  OBVIOUS
<1> HIDE DEF w
<1>2. \A i \in DOMAIN s : s[i] \in Lock
  OBVIOUS
<1>3. \A i \in DOMAIN w : Rank[l] <= Rank[w[i]]
  BY <1>1, Ranks
<1>4. ASSUME NEW i \in DOMAIN w, NEW j \in DOMAIN w, i < j
      PROVE  Rank[w[i]] <= Rank[w[j]]
  <2>1. CASE i = 1
    BY <1>1, <1>3, <2>1
  <2>2. CASE i # 1
    <3>1. j # 1 /\ i - 1 < j - 1
      BY <1>1, <1>4, <2>2
    <3> QED
      BY <1>1, <2>2, <3>1 DEF Ordered
  <2> QED
    BY <2>1, <2>2
<1>5. Ordered(w)
  BY <1>4 DEF Ordered
<1> QED
  BY <1>1, <1>3, <1>5 DEF w

LEMMA UnderFits ==
    ASSUME NEW l \in Lock, NEW n \in Nat, n <= Rank[l], NEW R, Fits(Rank[l], R)
    PROVE  Fits(n, Under(l, R))
<1>1. ASSUME NEW s \in R
      PROVE  /\ <<l>> \o s \in Seq(Lock)
             /\ Ordered(<<l>> \o s)
             /\ \A i \in DOMAIN (<<l>> \o s) : Rank[l] <= Rank[(<<l>> \o s)[i]]
  BY PrefixedFits DEF Fits
<1>2. Fits(Rank[l], {<<l>> \o s : s \in R})
  BY <1>1 DEF Fits
<1>3. Fits(Rank[l], Alone(l))
  BY AloneFits, Ranks
<1>4. Rank[l] \in Nat
  BY Ranks
<1>5. Fits(Rank[l], Alone(l) \cup {<<l>> \o s : s \in R})
  BY <1>2, <1>3, <1>4, UnionFits
<1>6. Under(l, R) = Alone(l) \cup {<<l>> \o s : s \in R}
  BY DEF Under, Alone
<1>7. Fits(Rank[l], Under(l, R))
  BY <1>5, <1>6
<1> QED
  BY <1>4, <1>7, Weaker

(***************************************************************************)
(* The routines, from the innermost: none goes to a section before the one *)
(* it is called under.                                                     *)
(***************************************************************************)
LEMMA LockFacts ==
    /\ "m_csLock" \in Lock /\ "m_vLock" \in Lock /\ "m_PTZLock" \in Lock
    /\ "m_sLock" \in Lock /\ "m_SmartLock" \in Lock /\ "m_csInitial" \in Lock
    /\ "m_cs" \in Lock /\ "m_clock" \in Lock /\ "m_mapLock" \in Lock
    /\ "m_sendLock" \in Lock
  BY DEF Lock

LEMMA Single ==
    /\ \A n \in 1 .. 2 : Fits(n, Alone("m_vLock"))
    /\ \A n \in 1 .. 3 : Fits(n, Alone("m_PTZLock"))
    /\ \A n \in 1 .. 4 : Fits(n, Alone("m_sLock"))
    /\ Fits(1, Alone("m_csLock"))
    /\ \A n \in 1 .. 6 : Fits(n, Alone("m_csInitial"))
    /\ \A n \in 1 .. 7 : Fits(n, Table)
    /\ \A n \in 1 .. 8 : Fits(n, ExecuteSQL)
    /\ \A n \in 1 .. 9 : Fits(n, Alone("m_mapLock"))
    /\ \A n \in 1 .. 9 : Fits(n, Alone("m_sendLock"))
  BY AloneFits, LockFacts, RankFacts DEF Table, ExecuteSQL

LEMMA SendFits == \A n \in 1 .. 9 : Fits(n, sendBuf)
<1>1. ASSUME NEW n \in 1 .. 9
      PROVE  Fits(n, Alone("m_mapLock") \cup Alone("m_sendLock"))
  BY Single, UnionFits
<1> QED
  BY <1>1 DEF sendBuf

\* Two and three routines after each other.
LEMMA Two ==
    ASSUME NEW n \in 1 .. 10, NEW Q, NEW R, Fits(n, Q), Fits(n, R)
    PROVE  Fits(n, Q \cup R)
  BY UnionFits

LEMMA Three ==
    ASSUME NEW n \in 1 .. 10, NEW Q, NEW R, NEW T, Fits(n, Q), Fits(n, R), Fits(n, T)
    PROVE  Fits(n, Q \cup R \cup T)
  BY Two

LEMMA Clear == \A n \in 1 .. 7 : Fits(n, ClearUserStream) /\ Fits(n, ReplayMsgRecv)
<1>1. ASSUME NEW n \in 1 .. 7
      PROVE  Fits(n, Table \cup sendBuf)
  BY Single, SendFits, Two
<1> QED
  BY <1>1 DEF ClearUserStream, ReplayMsgRecv

LEMMA Catalog == \A n \in 1 .. 4 : Fits(n, SendCatalogMsg)
<1>1. ASSUME NEW n \in 1 .. 4
      PROVE  Fits(n, sendBuf \cup Alone("m_sLock"))
  BY Single, SendFits, Two
<1> QED
  BY <1>1 DEF SendCatalogMsg

LEMMA Logins == Fits(1, DeviceRegAnswer)
<1>1. Fits(2, SendCatalogMsg \cup ClearUserStream \cup Alone("m_PTZLock"))
  BY Single, Clear, Catalog, Three
<1>2. Fits(1, Under("m_vLock", SendCatalogMsg \cup ClearUserStream \cup Alone("m_PTZLock")))
  BY <1>1, UnderFits, LockFacts, RankFacts
<1>3. Fits(1, sendBuf \cup
          Under("m_vLock", SendCatalogMsg \cup ClearUserStream \cup Alone("m_PTZLock")))
  <2>1. Fits(1, sendBuf)
    BY SendFits
  <2> QED
    BY <1>2, <2>1, Two
<1> QED
  BY <1>3, UnderFits, LockFacts, RankFacts DEF DeviceRegAnswer

LEMMA Calls == Fits(1, CallMsgRecv)
<1>1. Fits(1, sendBuf \cup Table \cup ExecuteSQL)
  BY Single, SendFits, Three
<1>2. Fits(1, sendBuf \cup Table \cup ExecuteSQL \cup Alone("m_sLock"))
  BY <1>1, Single, Two
<1> QED
  BY <1>2, UnderFits, LockFacts, RankFacts DEF CallMsgRecv

LEMMA PTZ == Fits(1, PTZMsgRecv)
<1>1. Fits(3, Table \cup sendBuf \cup Alone("m_csInitial"))
  BY Single, SendFits, Three
<1>2. Fits(3, Table \cup sendBuf \cup PTZControlSend)
  BY <1>1, Single, SendFits, Three DEF PTZControlSend
<1> QED
  BY <1>2, UnderFits, LockFacts, RankFacts DEF PTZMsgRecv

LEMMA Smart == Fits(1, SmartMsgRecv)
<1>1. Fits(1, Under("m_SmartLock", sendBuf))
  BY SendFits, UnderFits, LockFacts, RankFacts
<1>2. Fits(1, sendBuf \cup ExecuteSQL \cup Alone("m_csLock"))
  BY Single, SendFits, Three
<1> QED
  BY <1>1, <1>2, Two DEF SmartMsgRecv

LEMMA Queries ==
    /\ Fits(1, DeviceKeepaliveRecv) /\ Fits(1, ServerQuertInfoRecv) /\ Fits(1, QueryMsgRecv)
    /\ Fits(1, AnswerMsgRecv) /\ Fits(1, DeviceAlarmMsgRecv) /\ Fits(1, SuperiorCatalogThread)
<1>1. Fits(1, sendBuf \cup Alone("m_vLock")) /\ Fits(1, Alone("m_vLock") \cup sendBuf)
  BY Single, SendFits, Two
<1>2. Fits(1, sendBuf \cup ExecuteSQL \cup Alone("m_sLock"))
  BY Single, SendFits, Three
<1>3. Fits(1, Under("m_sLock", sendBuf))
  BY SendFits, UnderFits, LockFacts, RankFacts
<1>4. Fits(1, sendBuf \cup Under("m_sLock", sendBuf))
  BY <1>3, Single, SendFits, Two
<1>5. Fits(4, ExecuteSQL \cup sendBuf)
  BY Single, SendFits, Two
<1>6. Fits(1, Under("m_sLock", ExecuteSQL \cup sendBuf))
  BY <1>5, UnderFits, LockFacts, RankFacts
<1> QED
  BY <1>1, <1>2, <1>3, <1>4, <1>6
  DEF DeviceKeepaliveRecv, ServerQuertInfoRecv, QueryMsgRecv, AnswerMsgRecv,
      DeviceAlarmMsgRecv, SuperiorCatalogThread

LEMMA Reloads ==
    \A n \in 1 .. 2 : Fits(n, GetRTPStreamInfo) /\ Fits(n, GetDeviceInfo)
<1>1. ASSUME NEW n \in 1 .. 2
      PROVE  Fits(n, ExecuteSQL \cup Table) /\ Fits(n, ExecuteSQL \cup Alone("m_vLock"))
  BY Single, Two
<1> QED
  BY <1>1 DEF GetRTPStreamInfo, GetDeviceInfo

LEMMA ServerThreads ==
    /\ Fits(1, SaveCatalogInfoAction) /\ Fits(1, CheckTimeAction) /\ Fits(1, CheckDeviceStatus)
    /\ Fits(1, ReadDBAction) /\ Fits(1, StartRun) /\ Fits(1, CheckRTPStreamAction)
    /\ Fits(1, CheckIsInitialAction) /\ Fits(1, ServerWorker) /\ Fits(1, ResendMsgAction)
<1>1. Fits(1, Under("m_vLock", ExecuteSQL)) /\ Fits(1, Under("m_mapLock", sendBuf))
  BY Single, SendFits, UnderFits, LockFacts, RankFacts
<1>2. Fits(1, Under("m_vLock", ExecuteSQL) \cup ClearUserStream)
  BY <1>1, Clear, Two
<1>3. Fits(2, ExecuteSQL \cup GetRTPStreamInfo \cup GetDeviceInfo)
  BY Single, Reloads, Three
<1>4. Fits(1, Under("m_vLock", ExecuteSQL \cup GetRTPStreamInfo \cup GetDeviceInfo))
  BY <1>3, UnderFits, LockFacts, RankFacts
<1>5. Fits(1, StartRun)
  <2>1. Fits(1, Under("m_vLock", SendCatalogMsg))
    BY Catalog, UnderFits, LockFacts, RankFacts
  <2>2. Fits(1, Alone("m_vLock") \cup Alone("m_sLock") \cup Under("m_vLock", SendCatalogMsg))
    BY <2>1, Single, Three
  <2> QED
    BY <2>2, Reloads, Three DEF StartRun
<1>6. Fits(1, Under("m_csInitial", sendBuf))
  BY SendFits, UnderFits, LockFacts, RankFacts
<1>7. Fits(1, ExecuteSQL \cup Under("m_csInitial", sendBuf))
  BY <1>6, Single, Two
<1>8. Fits(1, Table \cup sendBuf)
  BY Single, SendFits, Two
<1> QED
  BY <1>1, <1>2, <1>4, <1>5, <1>7, <1>8, Single
  DEF SaveCatalogInfoAction, CheckTimeAction, CheckDeviceStatus, ReadDBAction,
      CheckRTPStreamAction, CheckIsInitialAction, ServerWorker, ResendMsgAction

LEMMA NestsFit == Fits(1, Nests)
<1>1. Fits(1, DeviceRegAnswer \cup CallMsgRecv \cup PTZMsgRecv)
  BY Logins, Calls, PTZ, Three
<1>2. Fits(1, ReplayMsgRecv)
  BY Clear
<1>3. Fits(1, DeviceRegAnswer \cup CallMsgRecv \cup PTZMsgRecv \cup ReplayMsgRecv \cup SmartMsgRecv)
  BY <1>1, <1>2, Smart, Three
<1> DEFINE N5 == DeviceRegAnswer \cup CallMsgRecv \cup PTZMsgRecv \cup ReplayMsgRecv \cup SmartMsgRecv
<1> HIDE DEF N5
<1>4. Fits(1, N5 \cup DeviceKeepaliveRecv \cup ServerQuertInfoRecv)
  BY <1>3, Queries, Three DEF N5
<1>5. Fits(1, N5 \cup DeviceKeepaliveRecv \cup ServerQuertInfoRecv \cup QueryMsgRecv \cup AnswerMsgRecv)
  BY <1>4, Queries, Three
<1> DEFINE N9 == N5 \cup DeviceKeepaliveRecv \cup ServerQuertInfoRecv \cup QueryMsgRecv \cup AnswerMsgRecv
<1> HIDE DEF N9
<1>6. Fits(1, N9 \cup DeviceAlarmMsgRecv)
  BY <1>5, Queries, Two DEF N9
<1>7. Fits(1, N9 \cup DeviceAlarmMsgRecv \cup SuperiorCatalogThread \cup SaveCatalogInfoAction)
  BY <1>6, Queries, ServerThreads, Three
<1> DEFINE N12 == N9 \cup DeviceAlarmMsgRecv \cup SuperiorCatalogThread \cup SaveCatalogInfoAction
<1> HIDE DEF N12
<1>8. Fits(1, N12 \cup CheckTimeAction \cup CheckDeviceStatus)
  BY <1>7, ServerThreads, Three DEF N12
<1>9. Fits(1, N12 \cup CheckTimeAction \cup CheckDeviceStatus \cup ReadDBAction \cup StartRun)
  BY <1>8, ServerThreads, Three
<1> DEFINE N16 == N12 \cup CheckTimeAction \cup CheckDeviceStatus \cup ReadDBAction \cup StartRun
<1> HIDE DEF N16
<1>10. Fits(1, N16 \cup CheckRTPStreamAction \cup CheckIsInitialAction)
  BY <1>9, ServerThreads, Three DEF N16
<1>11. Fits(1, N16 \cup CheckRTPStreamAction \cup CheckIsInitialAction \cup ServerWorker \cup ResendMsgAction)
  BY <1>10, ServerThreads, Three
<1> QED
  BY <1>11 DEF Nests, N5, N9, N12, N16

(***************************************************************************)
(* The sections of each thread are in order, what it waits for comes after *)
(* them, and a section has one thread in it.                               *)
(***************************************************************************)
LockTypes ==
    /\ held \in [Thread -> Seq(Lock)]
    /\ awaits \in [Thread -> Lock \cup {NoLock}]

WaitsOrdered(t) ==
    awaits[t] # NoLock =>
        /\ awaits[t] \in Lock
        /\ \A i \in DOMAIN held[t] : Rank[held[t][i]] <= Rank[awaits[t]]

Exclusive ==
    \A t, u \in Thread : \A i \in DOMAIN held[t], j \in DOMAIN held[u] :
        t # u => held[t][i] # held[u][j]

IInv ==
    /\ LockTypes
    /\ \A t \in Thread : WaitsOrdered(t)
    /\ Exclusive

LEMMA Appended ==
    ASSUME NEW s \in Seq(Lock), NEW l \in Lock
    PROVE  /\ Append(s, l) \in Seq(Lock)
           /\ DOMAIN Append(s, l) = DOMAIN s \cup {Len(s) + 1}
           /\ \A i \in DOMAIN s : Append(s, l)[i] = s[i] /\ i < Len(s) + 1
           /\ Append(s, l)[Len(s) + 1] = l
  OBVIOUS

LEMMA Shortened ==
    ASSUME NEW s \in Seq(Lock), s # <<>>
    PROVE  /\ SubSeq(s, 1, Len(s) - 1) \in Seq(Lock)
           /\ DOMAIN SubSeq(s, 1, Len(s) - 1) \subseteq DOMAIN s
           /\ \A i \in DOMAIN SubSeq(s, 1, Len(s) - 1) : SubSeq(s, 1, Len(s) - 1)[i] = s[i]
<1>1. Len(s) \in Nat /\ Len(s) > 0
  OBVIOUS
<1> QED
  BY <1>1

LEMMA InitOrdered == Init => IInv
  BY DEF Init, IInv, LockTypes, WaitsOrdered, Exclusive

LEMMA ReachOrdered ==
    ASSUME IInv, NEW t \in Thread, NEW l \in Lock, Reach(t, l)
    PROVE  IInv'
<1>1. held' = held /\ awaits' = [awaits EXCEPT ![t] = l] /\ Append(held[t], l) \in Nests
  BY DEF Reach
<1>2. LockTypes /\ held[t] \in Seq(Lock)
  BY DEF IInv, LockTypes
<1>3. LockTypes'
  BY <1>1, <1>2 DEF LockTypes
<1>4. Ordered(Append(held[t], l))
  BY <1>1, NestsFit DEF Fits
<1>5. \A i \in DOMAIN held[t] : Rank[held[t][i]] <= Rank[l]
  BY <1>2, <1>4, Appended DEF Ordered
<1>6. ASSUME NEW u \in Thread
      PROVE  WaitsOrdered(u)'
  <2>1. CASE u = t
    <3>1. awaits'[u] = l
      BY <1>1, <1>2, <2>1 DEF LockTypes
    <3> QED
      BY <1>1, <1>5, <2>1, <3>1 DEF WaitsOrdered
  <2>2. CASE u # t
    <3>1. awaits'[u] = awaits[u]
      BY <1>1, <1>2, <2>2 DEF LockTypes
    <3> QED
      BY <1>1, <3>1 DEF IInv, WaitsOrdered
  <2> QED
    BY <2>1, <2>2
<1>7. Exclusive'
  BY <1>1 DEF IInv, Exclusive
<1> QED
  BY <1>3, <1>6, <1>7 DEF IInv

LEMMA EnterOrdered ==
    ASSUME IInv, NEW t \in Thread, Enter(t)
    PROVE  IInv'
<1> DEFINE l == awaits[t]
<1>1. /\ l # NoLock
      /\ \A u \in Thread \ {t} : ~ InSection(u, l)
      /\ held' = [held EXCEPT ![t] = Append(held[t], l)]
      /\ awaits' = [awaits EXCEPT ![t] = NoLock]
  BY DEF Enter, Running
<1>2. LockTypes /\ held[t] \in Seq(Lock) /\ l \in Lock
  BY <1>1 DEF IInv, LockTypes
<1> HIDE DEF l
<1>3. /\ held'[t] = Append(held[t], l)
      /\ \A u \in Thread : u # t => held'[u] = held[u]
      /\ awaits'[t] = NoLock
      /\ \A u \in Thread : u # t => awaits'[u] = awaits[u]
  BY <1>1, <1>2 DEF LockTypes
<1>4. LockTypes'
  BY <1>1, <1>2, Appended DEF LockTypes
<1>5. ASSUME NEW u \in Thread
      PROVE  WaitsOrdered(u)'
  BY <1>3 DEF IInv, WaitsOrdered
<1>6. ASSUME NEW u \in Thread, u # t, NEW i \in DOMAIN held'[t], NEW j \in DOMAIN held'[u]
      PROVE  held'[t][i] # held'[u][j]
  <2>1. j \in DOMAIN held[u] /\ held'[u][j] = held[u][j] /\ held[u][j] # l
    BY <1>1, <1>3, <1>6 DEF InSection
  <2>2. CASE i \in DOMAIN held[t]
    <3>1. held'[t][i] = held[t][i]
      BY <1>2, <1>3, <2>2, Appended
    <3> QED
      BY <1>6, <2>1, <2>2, <3>1 DEF IInv, Exclusive
  <2>3. CASE i \notin DOMAIN held[t]
    <3>1. held'[t][i] = l
      BY <1>2, <1>3, <1>6, <2>3, Appended
    <3> QED
      BY <2>1, <3>1
  <2> QED
    BY <2>2, <2>3
<1>7. ASSUME NEW u \in Thread, NEW v \in Thread, u # v, u # t, v # t,
             NEW i \in DOMAIN held'[u], NEW j \in DOMAIN held'[v]
      PROVE  held'[u][i] # held'[v][j]
  BY <1>3, <1>7 DEF IInv, Exclusive
<1>8. Exclusive'
  BY <1>6, <1>7 DEF Exclusive
<1> QED
  BY <1>4, <1>5, <1>8 DEF IInv

LEMMA LeaveOrdered ==
    ASSUME IInv, NEW t \in Thread, Leave(t)
    PROVE  IInv'
<1> DEFINE s == SubSeq(held[t], 1, Len(held[t]) - 1)
<1>1. /\ awaits[t] = NoLock
      /\ held[t] # <<>>
      /\ held' = [held EXCEPT ![t] = s]
      /\ awaits' = awaits
  BY DEF Leave, Running
<1>2. LockTypes /\ held[t] \in Seq(Lock)
  BY DEF IInv, LockTypes
<1>3. s \in Seq(Lock) /\ DOMAIN s \subseteq DOMAIN held[t] /\ \A i \in DOMAIN s : s[i] = held[t][i]
  BY <1>1, <1>2, Shortened
<1> HIDE DEF s
<1>4. held'[t] = s /\ \A u \in Thread : u # t => held'[u] = held[u]
  BY <1>1, <1>2 DEF LockTypes
<1>5. LockTypes'
  BY <1>1, <1>2, <1>3 DEF LockTypes
<1>6. \A u \in Thread : /\ DOMAIN held'[u] \subseteq DOMAIN held[u]
                        /\ \A i \in DOMAIN held'[u] : held'[u][i] = held[u][i]
  BY <1>3, <1>4
<1>7. ASSUME NEW u \in Thread
      PROVE  WaitsOrdered(u)'
  BY <1>1, <1>6 DEF IInv, WaitsOrdered
<1>8. Exclusive'
  BY <1>6 DEF IInv, Exclusive
<1> QED
  BY <1>5, <1>7, <1>8 DEF IInv

LEMMA StepOrdered == IInv /\ [Next]_vars => IInv'
<1> SUFFICES ASSUME IInv, [Next]_vars PROVE IInv'
  OBVIOUS
<1>1. ASSUME NEW t \in Thread, NEW l \in Lock, Reach(t, l) PROVE IInv'
  BY <1>1, ReachOrdered
<1>2. ASSUME NEW t \in Thread, Enter(t) PROVE IInv'
  BY <1>2, EnterOrdered
<1>3. ASSUME NEW t \in Thread, Leave(t) PROVE IInv'
  BY <1>3, LeaveOrdered
<1>4. CASE UNCHANGED vars
  BY <1>4 DEF vars, IInv, LockTypes, WaitsOrdered, Exclusive
<1> QED
  BY <1>1, <1>2, <1>3, <1>4 DEF Next

(***************************************************************************)
(* In a circle every thread waits for a section of higher rank than its    *)
(* predecessor does, and the ranks end at ten.                             *)
(***************************************************************************)
LEMMA NoCircle == IInv => NoDeadlock
<1> SUFFICES ASSUME IInv, NEW S \in SUBSET Thread, Deadlocked(S) PROVE FALSE
  BY DEF NoDeadlock
<1>1. \A t \in S : t \in Thread /\ awaits[t] # NoLock /\ awaits[t] \in Lock
  BY DEF Deadlocked, IInv, WaitsOrdered
<1>2. ASSUME NEW t \in S
      PROVE  \E u \in S : Rank[awaits[t]] < Rank[awaits[u]]
  <2>1. PICK u \in S \ {t} : InSection(u, awaits[t])
    BY DEF Deadlocked
  <2>2. PICK i \in DOMAIN held[u] : held[u][i] = awaits[t]
    BY <2>1 DEF InSection
  <2>3. Rank[awaits[t]] <= Rank[awaits[u]]
    BY <1>1, <2>1, <2>2 DEF IInv, WaitsOrdered
  <2>4. PICK v \in S \ {u} : InSection(v, awaits[u])
    BY <2>1 DEF Deadlocked
  <2>5. PICK j \in DOMAIN held[v] : held[v][j] = awaits[u]
    BY <2>4 DEF InSection
  <2>6. awaits[t] # awaits[u]
    BY <1>1, <2>1, <2>2, <2>4, <2>5 DEF IInv, Exclusive
  <2>7. /\ Rank[awaits[t]] \in 1 .. 10 /\ Rank[awaits[u]] \in 1 .. 10
        /\ Rank[awaits[t]] # Rank[awaits[u]]
    BY <1>1, <2>1, <2>6, Ranks
  <2> QED
    BY <2>1, <2>3, <2>7
<1>3. \A t \in S : Rank[awaits[t]] \in 1 .. 10
  BY <1>1, Ranks
<1>4. \A n \in 1 .. 10 :
          (\A t \in S : Rank[awaits[t]] <= n) => (\A t \in S : Rank[awaits[t]] <= n - 1)
  BY <1>2, <1>3
<1>5. \A t \in S : Rank[awaits[t]] <= 9
  BY <1>3, <1>4
<1>6. \A t \in S : Rank[awaits[t]] <= 8
  BY <1>3, <1>4, <1>5
<1>7. \A t \in S : Rank[awaits[t]] <= 7
  BY <1>3, <1>4, <1>6
<1>8. \A t \in S : Rank[awaits[t]] <= 6
  BY <1>3, <1>4, <1>7
<1>9. \A t \in S : Rank[awaits[t]] <= 5
  BY <1>3, <1>4, <1>8
<1>10. \A t \in S : Rank[awaits[t]] <= 4
  BY <1>3, <1>4, <1>9
<1>11. \A t \in S : Rank[awaits[t]] <= 3
  BY <1>3, <1>4, <1>10
<1>12. \A t \in S : Rank[awaits[t]] <= 2
  BY <1>3, <1>4, <1>11
<1>13. \A t \in S : Rank[awaits[t]] <= 1
  BY <1>3, <1>4, <1>12
<1>14. \A t \in S : Rank[awaits[t]] <= 0
  BY <1>3, <1>4, <1>13
<1> QED
  BY <1>3, <1>14 DEF Deadlocked

\* No set of threads waits for one another, for any number of them in any mix of
\* handlers, console commands and background threads.
THEOREM DeadlockFree == Spec => []NoDeadlock
<1>1. Spec => []IInv
  BY InitOrdered, StepOrdered, PTL DEF Spec
<1> QED
  BY <1>1, NoCircle, PTL
==============================================================================
