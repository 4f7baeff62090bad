------------------------------ MODULE LockOrder ------------------------------
(***************************************************************************)
(* The critical sections of the server.  Every handler of a message, every *)
(* thread of its own and the console are taken for the nests of critical   *)
(* sections they go through: a nest is the sequence of the sections a      *)
(* thread is in, from the outermost.  Between two calls that lock, a       *)
(* thread may return early or repeat what it did, so it moves freely       *)
(* between the nests of a handler that extend each other.  Which handler a *)
(* thread is in matters only through the sections it is in.                *)
(*                                                                         *)
(* A critical section of Windows may be entered again by the thread that   *)
(* is in it.  m_clock stands for the lock of either database connection.   *)
(***************************************************************************)
EXTENDS Integers, Sequences

CONSTANTS
    Thread,      \* IO threads and the threads of the server
    NoLock

VARIABLES
    held,        \* the sections each thread is in
    awaits       \* the one it waits to enter

vars == <<held, awaits>>

(***************************************************************************)
(* Nests.                                                                  *)
(***************************************************************************)
\* What body does inside the section l.
Under(l, body) == {<<l>>} \cup {<<l>> \o s : s \in body}

Alone(l) == {<<l>>}

\* A request is recorded, and forgotten if it cannot be sent; each in turn.
sendBuf == Alone("m_mapLock") \cup Alone("m_sendLock")

\* RTPServerManager.
Table == Alone("m_cs")

ExecuteSQL == Alone("m_clock")

\* The query is sent, and then its session stored.
SendCatalogMsg == sendBuf \cup Alone("m_sLock")

ClearUserStream == Table \cup sendBuf

\* Under m_csLock: REGISTER, with the query for the catalog, and the logout.
DeviceRegAnswer ==
    Under("m_csLock", sendBuf \cup
        Under("m_vLock", SendCatalogMsg \cup ClearUserStream \cup Alone("m_PTZLock")))

\* INVITE, its answers, ACK, CANCEL and BYE.
CallMsgRecv == Under("m_csLock", sendBuf \cup Table \cup ExecuteSQL \cup Alone("m_sLock"))

PTZControlSend == Table \cup sendBuf \cup Alone("m_csInitial")

\* Mutant: the device is looked up in m_mapDevice, under its lock.
PTZMsgRecvLookup ==
    Under("m_PTZLock", Table \cup sendBuf \cup PTZControlSend \cup Alone("m_vLock"))

PTZMsgRecv == Under("m_PTZLock", Table \cup sendBuf \cup PTZControlSend)

\* Playback control and MediaStatus, and the sweeper of silent media servers.
ReplayMsgRecv == Table \cup sendBuf

CheckRTPStreamAction == Table \cup sendBuf

\* The list of users that receive smart alarms.
SmartMsgRecv ==
    sendBuf \cup ExecuteSQL \cup Alone("m_csLock") \cup Under("m_SmartLock", sendBuf)

DeviceKeepaliveRecv == sendBuf \cup Alone("m_vLock")

ServerQuertInfoRecv == Alone("m_vLock") \cup sendBuf

\* Queries that are passed on, and their answers.
QueryMsgRecv == sendBuf \cup ExecuteSQL \cup Alone("m_sLock")

AnswerMsgRecv == Under("m_sLock", sendBuf)

DeviceAlarmMsgRecv == sendBuf \cup Under("m_sLock", sendBuf)

SuperiorCatalogThread == Under("m_sLock", ExecuteSQL \cup sendBuf)

SaveCatalogInfoAction == ExecuteSQL

CheckTimeAction == Alone("m_sLock")

CheckDeviceStatus == Under("m_vLock", ExecuteSQL) \cup ClearUserStream

GetRTPStreamInfo == ExecuteSQL \cup Table

GetDeviceInfo == ExecuteSQL \cup Alone("m_vLock")

\* The whole database is read again, with the connection made and ended.
ReadDBAction == Under("m_vLock", ExecuteSQL \cup GetRTPStreamInfo \cup GetDeviceInfo)

\* The commands of the console.
StartRun ==
    Alone("m_vLock") \cup Alone("m_sLock") \cup Under("m_vLock", SendCatalogMsg)
    \cup GetRTPStreamInfo \cup GetDeviceInfo

CheckIsInitialAction == ExecuteSQL \cup Under("m_csInitial", sendBuf)

ServerWorker == Alone("m_mapLock")

\* The requests that are due are sent again without leaving the map.
ResendMsgAction == Under("m_mapLock", sendBuf)

Nests ==
    DeviceRegAnswer \cup CallMsgRecv \cup PTZMsgRecv \cup ReplayMsgRecv \cup SmartMsgRecv
    \cup DeviceKeepaliveRecv \cup ServerQuertInfoRecv \cup QueryMsgRecv \cup AnswerMsgRecv
    \cup DeviceAlarmMsgRecv \cup SuperiorCatalogThread
    \cup SaveCatalogInfoAction \cup CheckTimeAction \cup CheckDeviceStatus \cup ReadDBAction
    \cup StartRun \cup CheckRTPStreamAction \cup CheckIsInitialAction \cup ServerWorker
    \cup ResendMsgAction

(***************************************************************************)
(* Threads.                                                                *)
(***************************************************************************)
Lock == {"m_csLock", "m_vLock", "m_PTZLock", "m_sLock", "m_SmartLock", "m_csInitial",
         "m_cs", "m_clock", "m_mapLock", "m_sendLock"}

InSection(t, l) == \E i \in DOMAIN held[t] : held[t][i] = l

Running(t) == awaits[t] = NoLock

\* The thread reaches EnterCriticalSection.
Reach(t, l) ==
    /\ Running(t)
    /\ Append(held[t], l) \in Nests
    /\ awaits' = [awaits EXCEPT ![t] = l]
    /\ UNCHANGED held

Enter(t) ==
    /\ ~ Running(t)
    /\ \A u \in Thread \ {t} : ~ InSection(u, awaits[t])
    /\ held' = [held EXCEPT ![t] = Append(@, awaits[t])]
    /\ awaits' = [awaits EXCEPT ![t] = NoLock]

\* LeaveCriticalSection, in the reverse order.
Leave(t) ==
    /\ Running(t)
    /\ held[t] # <<>>
    /\ held' = [held EXCEPT ![t] = SubSeq(@, 1, Len(@) - 1)]
    /\ UNCHANGED awaits

Init ==
    /\ held = [t \in Thread |-> <<>>]
    /\ awaits = [t \in Thread |-> NoLock]

Next ==
    \/ \E t \in Thread, l \in Lock : Reach(t, l)
    \/ \E t \in Thread : Enter(t)
    \/ \E t \in Thread : Leave(t)

Spec == Init /\ [][Next]_vars

(***************************************************************************)
(* Correctness.                                                            *)
(***************************************************************************)

\* Each of these threads waits for a section that another of them is in.
Deadlocked(S) ==
    /\ S # {}
    /\ \A t \in S : \E u \in S \ {t} : awaits[t] # NoLock /\ InSection(u, awaits[t])

\* Whatever handlers, console commands and background threads run beside each
\* other, no set of them waits for one another: not a logout that holds
\* m_csLock and m_vLock and wants the locks of the PTZ, of the table and of the
\* transport, not a reload that holds m_vLock over all its queries, not a
\* superior's catalog that is sent under m_sLock, not a resend under m_mapLock.
NoDeadlock == \A S \in SUBSET Thread : ~ Deadlocked(S)
==============================================================================
