# Verification of the SIP server (XSSIPServices)

XSSIPServices is a GB/T 28181 SIP server: clients and superior platforms ask it
for the live picture or the recording of a camera, and it connects the camera,
an RTP media server and the client by driving a SIP dialog with each of them.
This directory holds TLA+ models of it, the TLC runs that check them, and
theorems proved with TLAPS. Line numbers below refer to `src/XSSIPServices/`.

## 1. Inventory

| Component | State | Operations | Hard behaviour | What makes it correct |
|---|---|---|---|---|
| Stream table, `RTPServerManager` | `m_listRTPInfo`: servers, their streams (`CameraToRTP`), the calls of each stream (`InviteCallID`), `nTotal`, `nTranmit` | insert and erase a server, choose a server for a call, record Call-IDs and answers, remove a call | counters that many paths change, outages and reloads with calls in place | counters equal what is relayed; a call has one place; a camera is not asked twice |
| Call handling, `SIPServer.cpp` 3896–4620 | none of its own: it works from copies (`PlayInfo`) of the table | INVITE, its answers, ACK, CANCEL, BYE, failure answers, MediaStatus | handlers, MediaStatus and the sweeper interleave; answers late, repeated or out of order; calls that share a camera join and leave | a client is answered for its own stream; what is no longer used is closed, what is used is not; every call concludes |
| Media server supervision, 817–880, 6468–6538 | `bOnLine`, `tRepTime` | poll, answer, sweep after 8 s of silence, reload from the database | the sweeper does not hold the handlers' lock | every dropped client is told |
| Transport, `SIPProtocol.cpp` | `m_mapResendMsgInfo`: last request per Call-ID | send, resend after 0.5, 1, 2 s, match answers | late answers are dropped, a request replaces another of its Call-ID, failed sends during the resend loop | bounded resends; a lost request is repeated; an answered one is not |
| Registration of devices and users, 1522–1701, 2707–2740, 6325–6406 | `m_mapDevice`: `bReg`, `tRegistTime` | register, keepalive, logout, timeout | timeouts against keepalives; a user's calls and PTZ locks must go with it | a user that is gone holds nothing |
| PTZ control and lock, 4641–4949 | `m_LockedDeviceMap` | lock, unlock, control | a lock outlives the calls of its owner | only a strictly higher level overrides a lock |
| Registration with superior platforms, 2499–2626, 6196–6317 | `bReg`, `nNoAnsKeepalive` per superior, `m_bRegisterOut`, `nHeartbit` | register, keepalive, answers, reboot | one flag shared by all superiors, lost answers | a forgotten registration is noticed and repeated |
| Relayed queries, 2742–3895, 5161–6188 | `m_SessionMap` keyed by SN, `m_dwSn` | record, catalog, information and status queries, guards, alarms, catalog queries of superiors | numbers of the server and of clients share the keys, `m_dwSn++` has no lock; the number of packets decides the end of a session; sessions time out after 20 min | an answer reaches who asked, an alarm its guards; sessions end |
| Catalog storage, 2862–3387 | `m_listCatalogInfo`, the cameras in the database | queue, store, delete outdated cameras, changes by NOTIFY | the queue is filled under `m_sLock` and emptied without it; packets in any order and twice | the clean-up keeps what the catalog lists |
| Smart alarms, 5441–5597 | list of users, which only grows | subscribe, pass an alarm to each | its lock holds over all the sends | as part of the critical sections |
| Critical sections | ten locks, from `m_csLock` to `m_sendLock` | nested in every handler, thread and console command | lock order | no deadlock |
| Database, `DataBaseMgr.cpp` | `m_bConnectDB`, the session of `m_db`, `m_clock` | connect, reconnect, disconnect, execute | the reconnection is outside the lock; outages | a lost connection is found again |
| Parsing and building messages, `xsip.cpp` | the counters behind Call-IDs and tags | text conversions; the next Call-ID | the counter goes round, unlocked | not modelled, but for the unused Call-ID a new INVITE takes (`FreshCall3`, `FreshCall4`) |
| Service wrapper, configuration, logging, third-party code | — | input and output | — | not modelled |

The components interact by calls: IO threads receive a message
(`CSIPProtocol::ServerWorker`), `CSIPServer::action` selects the handler and
takes `m_csLock` for the registration and call handlers, the handlers call the
table (each call one critical section of `RTPServerManager::m_cs`, but for
`InsertRTPInfo`) and send through `CSIPProtocol::sendBuf`. Threads of their own
poll the media servers,
check registrations, keep up the registration with superiors, clean sessions
and store catalogs.

## 2. What is modelled

### StreamTable — the table of media servers

State: `listed` and `online` servers, `nTotal` per server, and `cams`, the
`CameraToRTP` at each address with its server, camera, type, `nTranmit` and
list of calls. Lists of servers and streams are sets; where the code takes the
first match of a list, the model takes any match. The list of calls of a stream
keeps its order, because the code answers its first call on behalf of all.

Actions: `InsertRTPInfo`, `EraseRTPInfo`, `SetOnline` (`SetRTPServerStatus`),
`SetOffline` (`CheckRTPStreamAction`), `GetPracticableRTPServer` as `JoinStream`
(first scan) or `PlaceStream` (second scan), `ReduceRTPTotal` as `DeleteStream`
or `DeleteLeg`. `InsertRTPInfo` (34–58) and the writes of `bOnLine` take no `m_cs`:
each adds one element or writes one flag, and is a step of its own. A choice of a
server that saw the old flag still ends before the sweeper's first `GetPlayInfo`, which
waits for `m_cs`.

### StreamPlacement and TablePlacement — what the table promises

`StreamPlacement` is an abstract specification without counters and lists: where
each call is. A live call shares the server that already plays its camera; any
other call goes to a server that carries the fewest calls; calls leave alone or
together with the calls of their stream. `TablePlacement` reads `place` and `up`
off the table (`Placement`, `Practicable`) and says that `StreamTable` implements
it (`ImplementsPlacement`): checked by `stream_table`, proved in
`StreamTableProofs`, and of the modules that extend the table too. In `CallFlow` the
servers are up when the calls begin; `ImplementsRunning` is the same promise from
there.

### CallFlow — the handlers of a call

Extends `StreamTable` with the four dialogs of a call (client, media server
receiving, camera, media server sending), the messages `sent`, the final
replies `said` by peers, and `job`: what a thread has copied out of the table
and still has to do. A handler is split where another thread can act between
its critical sections: it begins with `GetAnswerType` or `GetPlayInfo` (the copy)
and goes on in `InviteSend`, `InviteCamera`, `AckCamera`, `ForwardStream`,
`AnswerClient` or `Release`.

| Thread | Actions | Code |
|---|---|---|
| worker (under `m_csLock`) | `InviteMsgRecv`, `InviteRepeated`, `InviteSend` | `InviteMsgRecv` 3896–4143 |
| | `InviteAnswer2`–`5`, `InviteCamera`, `AckCamera`, `ForwardStream`, `AnswerClient` | `InviteAnswerRecv` 4145–4400 |
| | `InviteAckRecv`, `InviteFailure`, `CancelMsgRecv`, `ByeMsgRecv`, `PeerByeMsgRecv`, `Release` | 4402–4620 |
| media | `ReplayMediaStatusRecv`, `Release` | 5067–5116 |
| sweeper | `CheckRTPStreamAction`, `SweepNext`, `Release` | 6468–6518 |
| — | `SetRTPServerStatus`, `GetRTPStreamInfo` | 6519–6538, 817–880 |

Peers answer a request any time after it was sent, in any order, repeatedly or
never. What may go wrong beyond that is the variable `faults`, chosen by `Init`
among the constant `FaultSets` (`FaultKind` lists the kinds): a run says which
faults may meet, and one run covers several sets. Messages are abstracted to dialog and kind; SDP, SSRC,
addresses and CSeq are left out. `SendByeMsg` keeps its order of cases: the BYE
it builds from an empty answer of the camera is a message of no dialog. Left out:
the return for an SDP of unknown type (3977–3981), which leaves the client with its
100 and the table as it is (an INVITE without SDP takes it too, so that 4042–4052 is
not reached); and that `GetAnswerType` and `GetPlayInfo` dereference `begin()` of the
server list before they look whether it is empty (`RTPServerManager.cpp` 580–581,
683–684), which is taken as "not found".

### ResendProtocol — requests sent over UDP

Stands alone: the call handling uses the transport only through `sendBuf` and
its callback, and `CallFlow` already lets any answer be lost or repeated. State:
`entry`, the map `m_mapResendMsgInfo` with one request per Call-ID, the clocks of
the entries (`age`) and of the scans (`phase`), and how far `sendBuf` has come with
each message. `copies`, `delivered`, `since` and `heard` are history for the
properties.

| Thread | Actions | Code (`SIPProtocol.cpp`) |
|---|---|---|
| any caller of `sendBuf` | `Record`, then `Transmit` or `TransmitFails`; `ReplyFails` | 158–222 |
| resend thread | `ResendMsgAction`, one pass under `m_mapLock` | 228–269 |
| IO threads | `ServerWorker` | 362–404 |
| — | `Tick` | clock |

`Record` and `Transmit` are two steps because `m_mapLock` is released between them.
Time is discrete: a scan follows the last one after `MinScan` to `MaxScan` units,
so the thread may be late but not stopped. The thread reads the clock before it
takes the lock; the model has both at once. A resend that fails is not modelled:
`sendBuf` then erases the entry `ResendMsgAction` still uses. Answers that
`ServerWorker` passes without looking into the map (those after a failed
`WSARecvFrom`, those with no method it knows) are left out.

### DeviceRegistry — who is registered

`m_mapDevice` without what its users hold. State: `known` entries, those with
`bReg` (`reg`) and with `bSendCatalog` (`ask`), the time since `tRegistTime`
(`quiet`), the catalog sessions (`asked`), the devices whose cameras have a newer
time in the database (`changed`), and the clocks of the two periodic threads.
`heard`, `stored`, `left` and `queried` are history for the properties.

| Thread | Actions | Code |
|---|---|---|
| IO threads, under `m_vLock` | `RegisterOpen`, `RegisterKnown`, `RegisterUser`, `Unregister` | `DeviceRegAnswer` 1522–1701 |
| | `DeviceKeepaliveRecv` | 2707–2740 |
| status thread | `CheckDeviceStatus` | 6325–6406 |
| database thread | `ReadDBAction` | 6715–6729, 900–1095 |
| catalog thread, console, session thread | `SaveCatalogToDB`, `StartRun`, `CloseSession` | 2936–3283, 331–372, 6545–6570 |
| — | `Tick` | clock |

The model keeps what the code does where one might expect otherwise: a
registration without authentication makes an entry but stamps none (so
`HeardStaysOn` speaks of authentication, and `SipServer.h:70`, "time of the last
registration or keepalive", is not true without it); a logout without
authentication resets `bReg` and nothing else; a keepalive turns an entry on
again without asking for its catalog; every catalog that is stored makes the
next reload stamp the device and mark it to be asked once more. Left out: the
status in the database, subscriptions, the devices of the Longgang database,
a configuration that changes at a reload (`auth` and `search` are chosen once), a
reload that fails half way, and the lower platforms that `GetServerInfo` adds
without marking them for a query (792–800).

### UserSessions — what users hold

Extends `StreamTable` with registered users, the PTZ locks (`lock`, the
`m_LockedDeviceMap`), the logout in progress (`clear`) and the control message
in progress (`ptz`, which holds `m_PTZLock`). `auth` is `m_bAuth`, chosen once. With it
a logout is `Unregister` (1652–1661) and what follows; without it, `UnregisterOpen`
(1558–1568), it only resets `bReg`, and the user keeps its calls and locks. An
authenticated logout holds `m_csLock` and
`m_vLock` from its first step to its last, so `Register`, `TimeOut`,
`InviteMsgRecv` and `GetRTPStreamInfo` wait; MediaStatus, the sweeper (`EndCall`,
`SetRTPServerStatus`) and PTZ messages do not. `FindStream` and `ReduceStream`
are the loop of `ClearUserStream` (6572–6588), `EraseLocks` the loop over the
locks at its end (1662–1677). `LockCam`, `UnlockCam`, `ControlCam` and
`PTZControlSend` are `PTZMsgRecv` (4641–4853) and what it sends (4855–4949). A
lock outlives the calls of its owner and its time-out, as in the code. What is
said to the peers of a call is in `CallFlow`; guard positions are left out, the
thread that reads them is commented out.

### SuperiorRegistration — the server registers itself

State per superior: `bReg`, `nNoAns`; shared: `registerOut` (`m_bRegisterOut`),
`nHeartbit`, and the thread's place in its pass (`mode`, `todo`, `counting`) with
its local `addr`. `net` are the messages in flight, `holds` what the superiors
know; `quiet` and `unsent` are history.

| Thread | Actions | Code |
|---|---|---|
| keepalive thread | `BeginPass`, `RefreshTurn`, `BeatTurn` (`SilentTurn`, `KeepaliveTurn`, `RegisterTurn`), `CountKeepalive`, `EndPass` | 6196–6303 |
| IO threads, no lock | `Registered`, `LoggedOut`, `Challenged` | `SuperiorRegAnswer` 2521–2626 |
| | `SuperiorKeepaliveAns`, `RebootMsgRecv` | 6304–6317, 2628–2666 |
| database thread | `ReadSuperiors` | 152–199 |
| superiors, network | `SuperiorRecv`, `Forget`, `Lose` | external |

`nNoAnsKeepalive++` comes after the send and has no lock: it is a step of its own
(`CountKeepalive`), and the reset by an answer may be lost in it. The REGISTER of
`SilentTurn` goes to `addr` as the last superior left it, as in the code. No
message outlives its pass, because `CSIPProtocol` drops answers that come after
the resends (`MapDrains`); `BeginPass` therefore waits until `net` is empty. A 403
to a keepalive is ignored (655–661). Left out: two superiors at one address (they
are told apart by it), registration turned off by the configuration, and a reload
in the middle of a pass, which may erase the entry the pass iterates over. A
superior that a reload removes is not logged out.

### SessionRelay — queries and who gets their answers

`m_SessionMap` is keyed by the SN of the query, with two sources of numbers: record
and catalog queries, keepalives and subscriptions take the next `m_dwSn`, queries
of information and status and guards keep the number of their client. The map and
the handlers of answers do not tell them apart. State: `session`, per SN the query
whose `SESSIONINFO` is stored, its `num` and `age`; `dwSn`; per query its `step` and
`key`; the queue `catalogs`; what superiors want. `m_dwSn++` is a read (`FetchSn`) and
a later write (`StoreSn`), because no lock protects it.

| Thread | Actions | Code |
|---|---|---|
| IO threads | `FetchSn`, `SaveRecord`, `SendQuery` | `RecordInfoMsgRecv` 5161–5333 |
| under `m_vLock` | `FetchSn`, `SendCatalog`, `SaveCatalog` | `SendCatalogMsg` 2742–2771 |
| keepalive thread | `FetchSn`, `SendBeat` | `SuperiorSendKeepalive` 6213–6222 |
| IO threads | `DeviceInfoMsgRecv`, `DeviceStatusMsgRecv`, `SetGuard`, `ResetGuard`, `SendQuery`, `QueryDropped` | 5611–5951 |
| | `RecordInfoAnswerRecv`, `DeviceInfoAnswerRecv`, `DeviceStatusAnswerRecv` | 5351–5440, 5676–5861 |
| | `DeviceCatalogAnswer` | 2772–2861 |
| | `DeviceAlarmMsgRecv` | 5966–6039 |
| session thread | `CheckTimeAction` | 6539–6570 |
| IO threads and threads they start | `SuperiorCatalogAnswer`, `SuperiorCatalogThread`, `SuperiorCatalogSend`, `SuperiorCatalogEnd` | 3393–3684 |
| — | `Tick` | clock |

A catalog query is sent before its session is stored, a record query after it, as
in the code. `insert` keeps the session that is there. An answer
without items is passed on and not counted. `Push` adds to the queue: while the other thread unlinks
its only element, which it does without the lock, what is added may be lost, and
the list with it (`torn`). A thread that serves superiors holds `m_sLock` from its
first session to its last (`serving`), and the actions that take the lock wait. It ends
when it cannot count the cameras or there are none, and the sessions stay; when they
were counted and the SELECT for them fails (3509–3513), it does not look at the -1 and
erases the session with nothing sent. `gaveUp` are the superiors whose session a
thread left or erased so.
Messages are packets `<<query, part>>`, one item each.

### CatalogStore — the cameras of a device in the database

Extends `SessionRelay`, which fills the queue, with `db`: each camera is absent,
written within the hour (`fresh`) or `old`. `SaveCatalogToDB` (2936–3283) writes the
first packet and `DeleteOvertimeChannel` (2897–2935) acts on "End"; then `EraseFirst`
(2889–2895) unlinks it, a step of its own because the queue may grow between. A
statement that fails gives up the rest of its packet. `DeviceNotifyAnswer`
(3326–3387) changes cameras beside it, `HourPasses` makes them old. `late`, `missed`,
`cleaned` are history for the properties.

### LockOrder — critical sections

Each handler, console command and thread is the set of nests of critical sections
it goes through, composed as the code calls: `DeviceRegAnswer` is
`Under("m_csLock", ...)` of what it calls. A thread may `Reach` a section when the
sections it is in, followed by that one, are a nest of some handler; it may `Enter`
when no other thread is in it; and it may `Leave` at any time. This has more
behaviours than the program, so absence of deadlock carries over. A Windows
critical section may be entered again by the thread that has it; `m_vLock`, which
some threads take again, is therefore taken once. `m_clock` stands for the locks of
both database connections: no thread is in both, and none waits for another
section in it.

### DataBase — the connection

Stands alone: to the other models what a statement returns is an input. State:
`up` (the database), `connected` and `alive` (what `otl_connect` believes, and
whether that is so), `m_bConnectDB`, `recent`, `nReconnect`, `clock`, and how far the
call of each thread has come.

| Thread | Actions | Code (`DataBaseMgr.cpp`) |
|---|---|---|
| database thread | `ConnectDB`, `ConnectDBReturns`, `DisconnectDB` | 49–76, 121–139 |
| any | `ExecuteSQL`, `Open` | 143–204 |
| | `ReConnectTooSoon`, `ReConnectDB`, `ReConnectLogon`, `ReConnectReturns`, outside `m_clock` | 80–118 |
| — | `Outage`, `MinutePasses` | external |

## 3. Runs

| Run | Instance | Distinct states | What it shows |
|---|---|---|---|
| `stream_table` | 2 relaying servers and a file server, 2 cameras, 3 calls, 3 streams; symmetric | 1.7 k | exact counters, one leg per call, one live stream per server, and the abstract placement |
| `call_faults` | 1 server, 1 camera, 2 calls, one of a decoder, 2 streams; outage and mediaend, or reject, hangup2, withdraw and repeat | 1.4 M | 200 only for one's own stream; the camera invited once; a server that fell silent and was swept relays nothing; every dropped client told; a call not answered always has its next move |
| `call_live` | 3 calls, two of one camera and one of an SDK camera, 2 streams; absent and hangup; fair | 83 k | shared dialogs kept, unused ones closed, no 200 after the end; every INVITE concludes; everything of a client that left is released |
| `resend` | 1 dialog, 3 requests (INVITE, INFO, BYE); a scan every 2–3 units, `Base` = 2 | 3.4 M | at most four copies; the answer let through during all the resends; the map drains; no resend after an answer |
| `device_registry` | a device and a user; `Timeout` = 1, a look every 1–2 units, a reload every 2–3 | 4.9 M | who is heard of stays on, who is silent goes off, a device is asked for its catalog once |
| `user_sessions` | 2 users with 3 calls of one camera, 2 levels, with and without authentication; fair | 0.28 M | where users authenticate, a logout clears all of its user's and nothing of others', and ends; control by right |
| `superior` | 2 superiors, one asks for authentication; `Refresh` = 2, one loss or restart, one reboot; fair | 0.43 M | silence noticed, refresh in time, each superior registered again, logout ends |
| `catalog_relay` | 8 queries of every kind, 2 superiors, 2 alarms, in the combinations of `MCTogether`; 2 cameras, statements that may fail; fair | 0.47 M | answers reach who asked, alarms their guards; sessions end; the clean-up keeps what the catalog lists; superiors are served, or a thread failed at their query |
| `lock_order` | 3 threads, every handler; symmetric | 44 k | no set of threads waits for one another |
| `empty_bye` | 2 calls | violation | the comment at 4563 does not hold |
| `user_timeout` | as `user_sessions` | violation | a user that timed out keeps its calls |
| `database` | the reading thread and one more | violation | a failed logon counts as a connection |

A run counts its states up to symmetry where the table says "symmetric";
`call_faults` identifies the two streams as well.

Bounds. `Entry` bounds the number of `CameraToRTP` made (an address is used once
in `CallFlow`); `MaxInvite = 2` bounds the Call-IDs made towards one peer for one
call or stream. Two calls are the first that can share, race and overtake; two
streams let a call end and be placed again; the second Invite4 of one call is the
case in which a recorded Call-ID is overwritten. `call_faults` has one call of a
decoder because the decoder's dialog is one more answer that finds no call; the
third call of `call_live` takes the branch without dialog 3 beside a shared stream. Three servers suffice for a
least loaded one among unequal and one that must be skipped.

`ResendProtocol`: the dialogs of the map share nothing but the time of the scans,
so one dialog is checked, with three requests that replace each other. `Base` = 2
and `MinScan` = 2 keep the code's ratio (both 500 ms); a unit is half of them, so
requests fall between scans and a scan may be late. `MaxAge` is the first age past
`Longest`, where the clocks stop telling ages apart.

`DeviceRegistry`: entries meet only in the scans and reloads, so one device and one
user are enough. The times keep the order of the code's 200 s, 300 s and 1200 s
as far as it matters: a look may come right after or long after the time-out,
and a reload between two looks or with them. `MaxClock` is above `LongestSilence`,
so no clock stops before it could violate a property.

`UserSessions`: the user with two calls makes the loop of the logout go round;
its second call may share the stream of the other user. Two levels are a lower
and a higher one. `Init` chooses `auth`, so one run covers both kinds of logout.

`SuperiorRegistration`: the second superior is the one whose address is left over
or whose logout is in progress. `Refresh` = 2 is the least for which passes
without a refresh exist (`SuperiorAssumption`: with one, a superior that is not
registered would never be). With `Refresh` for `Refresh + 1` in `RefreshInTime`,
TLC finds the pass in which the REGISTER went to the wrong superior, so the
bound is exact. `NoAnswers` = 1 lets the first unanswered keepalive matter.

`SessionRelay`: `Together` lists which queries are made in one behaviour, because
all twelve at once would only multiply orders of steps that do not meet. Each
combination is a way to share a number: two threads inside `m_dwSn++` beside a
client whose SN is the next number (`FirstSn` = 2); two clients with one SN; a
catalog beside a keepalive, and beside a client's query; guards and alarms with and
without an SN of their own; two superiors, one between the other's steps. `Sn` is 1
to 4: the numbers of the clients, the counter's next values and the free one of an
alarm; at most three queries of a combination take a number, 2 to 4.
`Life` = `Period` = `MaxWait` = 1 keep a session over one look and end it at the
next. `MaxRepeat` = 1 repeats one packet and one query of each superior. A catalog
has two packets: the least that come in two orders and of which one may be lost or
come twice; each lists another camera, both in the database from an earlier
catalog. `Unserved` and `DbFails` leave what the database knows open.

`LockOrder`: with three threads a circle of three sections can close; the theorem
is for any number.

`CHECK_DEADLOCK FALSE` stands in the runs of `CallFlow` because the system stops
there once all clients are done, and in `catalog_relay` because it stops once the
queries that the bounds allow are made and answered. The other runs check for
deadlock.

Fairness (`FairSpec`). `CallFlow`: the steps of a handler that has begun are weakly fair,
because it waits for no lock but `m_csLock`, which every handler releases; and
the peers answer the INVITEs they get, which is an assumption about the peers:
the code has no timeout for a call whose peer never answers. `UserSessions`: the
steps of the logout are weakly fair; only its last one waits for a lock, and
that is strongly fair because PTZ messages may take `m_PTZLock` again and again
before a waiting thread gets it; `PTZControlSend` holds that lock and runs to its
end. `SuperiorRegistration`: the keepalive thread is weakly fair, it waits for
no lock but only sleeps, and so are the exchanges: what is not lost (a bounded
number) arrives and is handled. `CatalogStore`: the thread that serves superiors
is weakly fair; it waits for `m_sLock`, whose other holders leave it at once, and
sends one catalog after the other until none is left.

Findings. (1) A client that joins while the camera rings has its Invite4 sent at
once. `SendByeMsg` concludes from an Invite4 that the camera has answered and, if
the calls end then, builds the BYE from an empty answer: the camera gets neither
BYE nor CANCEL. (2) `CheckDeviceStatus` puts the users that timed out on a list
and clears their streams, but tells users from devices by `pDeviceCode`, which is
empty for users: the list stays empty, and the calls of a user that vanished stay
in the table. (3) `ConnectDB` assigns where it should compare
(`DataBaseMgr.cpp:68`), so `m_bConnectDB` is true after any failed logon, though
`DataBaseMgr.h:51` calls it the state of the connection: statements then fail, and
none reconnects before the next reload.

`NothingLeftOpen` is checked without refusals, outage and withdrawal because the code
does not keep it there: `InviteFailure` deletes the stream of several calls, answers
its first client only and closes one leg; a BYE of the media server in dialog 2 ends
the stream for its first call only; and `EraseRTPInfo` forgets calls.
`SharedStreamKept` is broken by the threads beside the worker only, which decide from
a stale `nTranmit`; the theorem covers all other faults (section 4). `EveryEndTold`
speaks of the sets of faults that end calls one by one, for the same reason.
`NoAnswerAfterEnd` is not kept beside the media thread or the sweeper, which may end a
call between the copy from which the worker answers it and the answer, nor by an
INVITE that is repeated after its end and makes the call anew. `AnswersReachAsker` and
`GuardsTold` speak of queries whose SN nobody else uses: the server's own counter runs
into the numbers that clients choose, and then answers do go astray. `SerialsApart`
excepts two threads that were inside `m_dwSn++` together. `LogoutClears` speaks of users
that authenticate, since without authentication the code gives nothing back.
`SuperiorServed` excuses a superior whose session a thread held when there were no
cameras or a statement failed (`gaveUp`): the code leaves the session to the next
query's thread, or, if it was the SELECT that failed, forgets it. What it says is that no query is lost
between threads. `SilentServerEmptied` needs no exception: the sweeper asks the table
again after each call it ended, and nothing is placed on a server that is off line.
`ListedCamerasKept`
names in `Excused` what does mislead the clean-up: a packet that came twice, one that
was not stored, a number used twice, a catalog that took an hour. PROJECT.json lists
these among the hazards.

## 4. Proofs

`StreamTableProofs`: for every set of servers, cameras, calls and addresses,

* `TableTypes`: `TableTypeOK` (the runs check it as a part of `FlowTypeOK`); with
  `NTranmitExact` it is inductive; the facts about
  `Append` and `RemoveAt` on the list of calls are lemmas.
* `CountersCorrect`: `CountersExact` is `NTranmitExact` and `NTotalExact`, which counts the pairs of a stream and a position
  (`Legs`). It is inductive with `LegsCounted`, which adds that these sets are
  finite; each operation adds or removes a known set of pairs, and deleting a
  stream removes exactly `nTranmit` of them, by `NTranmitExact`. Hence the clamp at
  zero in `ReduceRTPTotal` never acts.
* `OneLiveStream`: inductive with types: a new live stream is only placed when no
  practicable server has one, and the chosen server is practicable.
* `OneLeg`: inductive with types, from `~ InTable(c)` in `GetPracticableRTPServer`.
* `TableImplementsPlacement`: every step of the table is a step of
  `StreamPlacement` under the mapping, or a stutter. It needs the exact counters
  and one leg per call (with the types: `PlaceInv`): `LoadIsTotal` shows by a
  bijection between calls and legs that `nTotal`, by which the code chooses, is the
  number of calls the abstract specification counts. There is one lemma per
  operation (`JoinSteps`, `PlaceSteps`, `DeleteSteps`, `LegSteps`, `EraseSteps`,
  `ServerSteps`), under them what a list that loses an element does to `Placement`.
* The lemmas the handlers' proofs cite: which calls an operation of the table keeps
  (`JoinKeeps`, `PlaceKeeps`), and that a reduction takes out the call it was given
  and no other unless it deletes a stream that others share (`DeletesOne`, `CallGone`).

`CallFlowProofs`: for every set of calls, streams and faults,

* `CallTableCorrect`: the table's theorems hold under the call handling, with all
  its threads, because every step of `CallFlow` is by construction a step of the
  table or leaves it unchanged (the lemmas `NextSteps` and `CallsKeepToTable`).
* `SilentEmptied`: `SilentServerEmptied`, under every fault. `SilentInv` adds the
  table's invariants, and that one server is swept at a time. The worker places and
  joins calls on practicable servers only (`SilentKept`), a reduction takes streams
  away (`ReduceEmpties`), and the sweeper is only done when it finds no stream of its
  server; so a server that is off line and not being swept has none, in whatever
  order the copies of the threads are acted upon.
* `OkIsOwnStream`: a client is only told 200 when the media server accepted an
  Invite4 of its own call. `OkMeansOwnStream` is not inductive: the handler decides
  from a copy. The strengthening `OkInv` says that a leg marked as told, and a
  worker about to answer, have an accepted Invite4 behind them; accepted ones
  are never withdrawn (`AcceptedStays`).
* `CameraInvitedOnce`: `OneCameraSession`. The strengthening `CamInv` says of a
  stream whose camera was asked that it was asked by its first Call-ID, after the
  200 of the media server, and that the table, while the stream is in it, knows
  of that 200, so a repeated one is not acted upon; and that a worker between
  the 200 and the camera's INVITE works on a stream not asked before. The media
  thread and the sweeper change none of it (`CamBeside`).
* `FlowTypes`: with `FlowInv`, which adds the types of what the threads copied.
* `EveryEndIsTold`: `EveryEndTold`, for the worker, the media thread and the sweeper
  together. The strengthening `EndInv` drops `Quiet` (a call is told no later than
  the step that takes it out of the table) and adds `EndsOne`: under the faults
  `OneByOne`, no handler deletes a stream under several calls, and a handler that a
  BYE of the client began, which tells nobody, has a client that is gone. The rest is
  `DeletesOne`.
* `SharedStreamsAreKept`: `SharedStreamKept` under all faults but `BesideWorker`, the
  two that set the media thread or the sweeper to work. `KeptInv` adds to the types and the
  table's invariants that the worker is alone (`KeptAlone`); that what it has copied
  of a call it is about to end is still what the table says, unless the call has left
  meanwhile with a server that was withdrawn (`EndFresh`); and that what was closed is
  of a stream that has left, whose address is not used again (`ClosedGone`).
* `NothingStaysOpen`: `NothingLeftOpen` for the faults `WorkerOnly`: cameras may be
  absent or hang up, and a call may come again. Under refusals, an end of
  dialog 2, withdrawal and the threads beside the worker the code does leave
  dialogs open (section 3). `WorkerInv` has the worker's copies fresh
  (`WorkerAlone`) and relates messages and table at every step the other way round:
  what has left is closed (`GoneClosed`, `LegsClosed`, `AnswerOfCall3`).
* `EarlyJoinsAlone`: `Invite4MeansCameraAnswered`, which the run `empty_bye` finds
  violated, is true of the behaviours in which no call joins a stream whose camera
  has not answered (`JoinsAnswered`), under every fault. So the early join is the
  only way to the empty BYE, and what `SendByeMsg` takes for granted is right of
  calls that share nothing. `ReadyInv` adds that a worker on its way to an
  Invite4 has the camera's answer (`WorkReady`), as has every stream that was
  told to send (`StreamsReady`), in the table and in the copies (`EndsAnswered`).
* `NoLateAnswer`: `NoAnswerAfterEnd` for more faults, `WorkerTells`: peers may refuse,
  dialog 2 may hang up, and a server may be withdrawn while the worker goes on from
  a copy that has become stale. `TellsInv` says that only the worker tells of ends;
  that a call that is over is not in the table and will not come back (`OverGone`,
  `PresentCalled`), because a reduction takes the call out of the table as it is, not
  as it was copied (`ReduceEnds`); that the call which the worker is about to answer
  was not told to be over; and that a leg marked as told was told (`ToldOk`). With
  one of the faults left out (an outage, a media server that ends the dialog, a
  repeated INVITE) the code does answer late (section 3).
* `ChainStaysUnbroken`: `ChainUnbroken`, under every fault. The chain of INVITEs goes
  on only from a reply, so a call whose next reply will not come, or will not be known
  for it, waits for ever: this is what `CallConcludes` needs besides fairness. The
  property is close to inductive, but the worker and the calls that share its stream
  disturb it. `ChainInv` adds what the worker's copy says of its call while it is in
  the table (`WorkChain`); that only the first call of a stream waits for the camera,
  because those that joined sent an Invite4 of their own (`FirstOnly`), so an answer
  that moves the first call on was owed to no other; that peers reply only to what
  they were asked, and streams not made were not (`SaidAsked`, `BornAsked`); and that
  the Call-IDs of a call's Invite4s are numbered without gaps (`Numbered`), so a new one
  was not used and its reply is still to come.
* `CallsArePlacedAsPromised`: `ImplementsRunning`. Under every fault, the steps of the
  handlers and of the threads beside them are steps of `StreamPlacement` or stutter,
  and the initial state is one of `Running`.

`ResendProofs`: for every set of dialogs and requests and all times that satisfy
`ResendAssumption`, the theorems `FourCopies`, `AnswersWelcome`, `NoEntryStays` and
`NoResendAfterAnswer` follow from one inductive invariant, `ResendInv`. Its parts:
the copies of a request in the map are the resends its entry counts and, after
`Transmit`, one more (`EntryCounted`); the n-th resend falls between `Earliest[n]`
and `Latest[n]` after the recording (`EntryTimed`), because an entry is only sent
again when it waited longer than `Wait[n]`, and the next scan sees that it did;
and the request of a dialog not heard of is there and unanswered (`Awaited`). The
bound of `AnswersAwaited`, seven times `Base` and one scan, and that of `MapDrains`,
`Longest`, are the sums of these times.

`DeviceRegistryProofs`: for any devices, users and times that satisfy
`RegistryAssumption`, `HeardIsRegistered`, `NoSilentEntryStays` and `QueriedOnce`
follow from `RegistryInv`. Its parts: a stamp that no message set was set by a
reload within `MaxReload` of a storing (`StampExplained`), which needs that
`changed` devices were stored since the last reload; an entry that is on was
stamped at most `Timeout` before the last look, or heard of since (`Looked`); with
authentication every message stamps, so `quiet <= heard`; and a device that was
asked is not marked to be asked (`queried` and `ask` are disjoint).

`SuperiorProofs`: for any superiors, losses and reboots, `SilenceIsNoticed` follows
from `SilenceCounted`: the turns since the last answer of a registered superior
are at most its count, and one more while a keepalive is not yet counted. For
`RefreshIsInTime` the bound of the turns without a REGISTER is given for each
place of the pass (`UnsentBounded`). A superior that is not registered is passed
over by the refresh and may have become registered only through a REGISTER or
answer in flight, and those are fresh (`ComingIsFresh`): the reason why the bound
is `Refresh + 1` and not twice that.

`UserSessionsProofs`: for any users, calls, cameras and levels, `UserTypes`,
`LogoutGivesBack` (where users authenticate), `LogoutSpares` and `ControlledByRight`.
The invariant `HoldInv`
is types and exact counters of the table; that the call a logout is ending is its
user's own, and that once it found none the user has none until the end, because
no call is made while `m_csLock` is held (`ClearingOwn`); that
what a PTZ message in progress was allowed is still allowed, because it holds
`m_PTZLock`; and the property itself. That other users keep their calls rests on
`ReduceSpares`: a reduction takes out the call it was given and no other, since a
stream is only deleted with its last call. `LogoutGetsOn` is what `LogoutEnds` has besides
fairness: the number `ToDo` (twice the user's calls, and one while the loop has
still to look) is lowered by each step of the loop and raised by no other thread
while the logout lasts. `UsersKeepPlacement`: users, logouts and
locks leave the refinement of `StreamPlacement` intact, initial state included.

`RelayProofs`: for any requests, cameras and packets that satisfy
`RelayAssumption`, over the types and `Keyed` (a session is stored under the SN of its
query; `RelayTypes`):

* `SerialsAreApart`. `SerialsApart` alone is not inductive; `Counter` says that
  `m_dwSn` is past every number given, but for the one that the only thread between
  its read and its write is about to store.
* `SessionsDoExpire`, from `AgesBounded`: a session is never older than its life and
  the time since the last look of `CheckTimeAction`.
* `AnswersDoReachAsker`, from `AnswerInv`: whatever was passed on went to a query with
  the SN of the answer (`ForwardedBySn`), and a packet comes only if it was asked for
  (`CameAsked`); for a query whose SN nobody else uses, the guard stays
  (`GuardHeld`), the session of an information or status query stays until its
  answer (`AnswerAwaited`), and that of a record query until `nNum`, which is the
  number of packets that came, reaches the total (`RecordAwaited`).
* `GuardsAreTold`, an action property, from `GuardHeld`.
* `ListedCamerasAreKept`, an action property of the queue and the database, from
  `StoreInv`: of a catalog that nothing excuses, no more packets are counted than came
  (`CatalogCounted`), when all were counted all are queued or written
  (`CountedQueued`), each stands before the "End" of its catalog or is written
  (`EndsLast`), and what is being unlinked is written (`UnlinkedWritten`). So what
  `DeleteOvertimeChannel` finds older than an hour was not in the catalog.

`LockOrderProofs`: `DeadlockFree`, for any number of threads. The sections have a
rank, `m_csLock` < `m_vLock` < `m_PTZLock` < `m_sLock` < `m_SmartLock` <
`m_csInitial` < `m_cs` < `m_clock` < `m_mapLock` < `m_sendLock`, and every nest keeps
it (`NestsFit`, from one lemma per group of handlers, each from the rules for
`Under` and `Alone`). The invariant says that a thread waits for a section that is
not before those it is in, and that no two are in one section; so in a circle of
waiting threads the ranks would rise for ever.

Only model-checked: liveness (`CallConcludes`, `LeaverReleased`, `LogoutEnds`,
`KeptRegistered`, `RebootEnds`, `SuperiorServed`), which the prover does not reach; of two
of them the part without time is proved (`ChainStaysUnbroken`, `LogoutGetsOn`).
Every invariant and every action property of a passing run is stated by a theorem,
with the hypotheses named above.

## 5. Plan

Done, in this order: the table and its abstract specification, the call handling
over it, the transport, the registry, what users hold, the registration with
superiors, the relayed queries with the storage of catalogs, the critical sections,
the database connection; the proofs of the table and its refinement, of the call
handling (types, own stream, silent servers emptied, one camera session, ends that
are told, shared streams
kept, nothing left open, no late answer, placement, early joins, the next move of every
call), the transport, the registry, the users, the superiors, the
relayed queries with the storage of catalogs, and the order of the locks.

Left:

1. A property for the threads that meet in `ReConnectDB`, outside `m_clock`: the
   actions are in `DataBase`, and one thread may log off the connection that
   another has just made.
2. The online status that registration and time-out write to the database, against
   the reload that reads it.

## 6. Not modelled

* Text: formatting and parsing (`xsip.cpp`), SQL and the fields of its result sets.
  They keep no state. Playback control (`ReplayControlMsgRecv`) changes only the
  CSeq of the next control message and passes a message on; in `LockOrder` it has
  its critical sections.
* In the relay: record queries of SDK cameras (`nNetType` 4), which the server
  answers itself; the reset of an alarm, which is only passed on to a device;
  `AlarmThread`, which is never started; the subscription of superiors behind the
  early return at `SIPServer.cpp:3719`.
* Smart alarms beyond their critical sections: the list of users only grows.
* Guard positions: the thread that reads them is commented out.
* What the sections above leave out of each module.
* The Windows service wrapper, configuration and logging: input and output.
* Third-party code. It is most of the repository's lines: the headers of OTL, OCI
  and log4cxx, TinyXML and MD5 are vendored. Of the server's own sources the
  models stand for about two thirds of `SIPServer.cpp`, `RTPServerManager.cpp` and
  `DataBaseMgr.cpp`, and two fifths of `SIPProtocol.cpp`, whose rest sets up sockets.
